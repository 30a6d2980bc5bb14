------------------------ MODULE ResolverSearch_proofs ------------------------
(***************************************************************************)
(* That the resolver's search (resolve.rs) is exact: it drops no choice of    *)
(* packages that could have worked, takes the newest of what is left, and     *)
(* moves a pin only where it must.  The argument is about choices of what is  *)
(* possible: whatever a name may turn out to be is offered (SearchedInv says  *)
(* that each choice that was dropped was dropped for a reason), and what was  *)
(* taken was offered first (TakenInv).                                        *)
(*                                                                         *)
(* And that an answer is stable: nothing is in it that was not asked for      *)
(* (WayInv, MadeInv), and with its lock nothing else is (AgainInv).           *)
(***************************************************************************)
EXTENDS Resolver_proofs

-----------------------------------------------------------------------------
(* What a name may turn out to be *)

(* As far as it matters to what is built: an index and an archive may say the
   same in another order. *)
Same(p, q) ==
  /\ p.version = q.version /\ p.source = q.source /\ p.content = q.content
  /\ Range(p.needs) = Range(q.needs)

(* A source as it is named in a requirement. *)
Named(source) == [source EXCEPT !.rev = None]

IsPinned(P, n, source) == n \in DOMAIN P.pins /\ Named(P.pins[n].source) = Named(source)

IsPublished(P, n, p) ==
  \/ /\ p.source.place \in DOMAIN P.registries /\ n \in DOMAIN P.registries[p.source.place]
     /\ \E e \in P.registries[p.source.place][n] : ~e.yanked /\ e.content = p.content
  \/ IsLocked(P, n, p.source, p.version) /\ p.content = P.pins[n].content

IsCommit(P, n, p) ==
  /\ p.source.place \in URLs(P)
  /\ IF IsPinned(P, n, p.source) THEN p.source = P.pins[n].source /\ p.content = P.pins[n].content
     ELSE /\ p.source.rev \in DOMAIN P.repositories[p.source.place].commits
          /\ p.content # None /\ p.content = P.repositories[p.source.place].commits[p.source.rev]

IsSomewhere(P, n, p) ==
  /\ IsSource(p.source)
  /\ p.content.name = n /\ p.content.version = p.version /\ Lawful(P, p.content, p.source)
  /\ Range(p.needs) = Range(NeedsOf(P, p.content, p.source))
  /\ n \in DOMAIN P.precise => p.version = P.precise[n]
  /\ p.source.kind # "git" => p.source.rev = None
  /\ p.source.kind = "path" => p.content # None /\ p.content = At(P, p.source.place)
  /\ p.source.kind = "toolchain" =>
       p.source = Toolchain /\ n \in DOMAIN P.toolchain /\ p.content = P.toolchain[n]
  /\ p.source.kind = "registry" =>
       p.source = Source("registry", p.source.place, None, None) /\ IsPublished(P, n, p)
  /\ p.source.kind = "git" => IsCommit(P, n, p)

(* What git found for a reference. *)
Asked(found, source) == {f \in found : f.url = source.place /\ f.reference = source.reference}

(* A commit, unless the lock names it, is what git was run for, if it was. *)
IsPossible(P, found, n, p) ==
  /\ IsSomewhere(P, n, p)
  /\ p.source.kind = "git" /\ ~IsPinned(P, n, p.source) => \A f \in Asked(found, p.source) : f.rev = p.source.rev

(* ... and it was. *)
IsFound(P, found, n, p) ==
  IsPossible(P, found, n, p)
  /\ (p.source.kind = "git" /\ ~IsPinned(P, n, p.source) => Asked(found, p.source) # {})

-----------------------------------------------------------------------------

(* What a package of a world contains. *)
LEMMA SomewhereIsContent ==
  ASSUME NEW P, IsWorld(P), NEW n, NEW p, IsSomewhere(P, n, p)
  PROVE  IsContent(p.content, URLs(P)) /\ IsVersion(p.version)
<1>. DEFINE source == p.source
<1>1. IsSource(source)
  BY DEF IsSomewhere
<1>2. CASE source.kind = "path"
  <2>1. p.content # None /\ p.content = At(P, source.place)
    BY <1>2 DEF IsSomewhere
  <2>. QED BY <1>1, <2>1, DirectoryIsContent DEF IsSomewhere, IsContent
<1>3. CASE source.kind = "toolchain"
  <2>1. n \in DOMAIN P.toolchain /\ p.content = P.toolchain[n]
    BY <1>3 DEF IsSomewhere
  <2>2. IsContent(p.content, URLs(P))
    BY <2>1 DEF IsWorld, URLs
  <2>. QED BY <2>2 DEF IsSomewhere, IsContent
<1>4. CASE source.kind = "registry"
  <2>1. IsPublished(P, n, p)
    BY <1>4 DEF IsSomewhere
  <2>2. IsContent(p.content, URLs(P))
    <3>1. CASE IsLocked(P, n, source, p.version) /\ p.content = P.pins[n].content
      BY <1>4, <3>1 DEF IsLocked, IsWorld, IsPin, URLs
    <3>2. CASE /\ source.place \in DOMAIN P.registries /\ n \in DOMAIN P.registries[source.place]
               /\ \E e \in P.registries[source.place][n] : ~e.yanked /\ e.content = p.content
      <4>1. PICK e \in P.registries[source.place][n] : e.content = p.content
        BY <3>2
      <4>2. IsEntry(e, URLs(P))
        BY <3>2, <4>1 DEF IsWorld, AreRegistries, URLs
      <4>. QED BY <4>1, <4>2 DEF IsEntry
    <3>. QED BY <2>1, <3>1, <3>2 DEF IsPublished
  <2>. QED BY <2>2 DEF IsSomewhere, IsContent
<1>5. CASE source.kind = "git"
  <2>1. IsCommit(P, n, p)
    BY <1>5 DEF IsSomewhere
  <2>2. IsContent(p.content, URLs(P))
    <3>1. CASE IsPinned(P, n, source)
      <4>1. n \in DOMAIN P.pins /\ source = P.pins[n].source /\ p.content = P.pins[n].content
        BY <2>1, <3>1 DEF IsCommit, IsPinned
      <4>2. IsPin(P.pins[n], URLs(P))
        BY <4>1 DEF IsWorld, URLs
      <4>. QED BY <1>5, <4>1, <4>2 DEF IsPin
    <3>2. CASE ~IsPinned(P, n, source)
      <4>1. /\ source.place \in URLs(P) /\ source.rev \in DOMAIN P.repositories[source.place].commits
            /\ p.content # None /\ p.content = P.repositories[source.place].commits[source.rev]
        BY <2>1, <3>2 DEF IsCommit
      <4>2. IsRepository(P.repositories[source.place], URLs(P))
        BY <4>1 DEF IsWorld, URLs
      <4>. QED BY <1>1, <4>1, <4>2 DEF IsRepository
    <3>. QED BY <3>1, <3>2
  <2>. QED BY <2>2 DEF IsSomewhere, IsContent
<1>. QED BY <1>1, <1>2, <1>3, <1>4, <1>5 DEF IsSource

(* What is the same. *)
LEMMA SameIsSame ==
  /\ \A p : Same(p, p)
  /\ \A p, q : Same(p, q) => Same(q, p)
  /\ \A p, q, r : Same(p, q) /\ Same(q, r) => Same(p, r)
BY DEF Same

(* There is one package from a source, and of a registry's one of a version: where
   a reference leads to, was found once. *)
LEMMA ThereIsOne ==
  ASSUME NEW P, IsWorld(P), IsHonest(P), NEW found, NEW n,
         NEW p, IsFound(P, found, n, p), NEW q, IsPossible(P, found, n, q),
         p.source.kind = "registry" => p.version = q.version, Named(p.source) = Named(q.source)
  PROVE  Same(p, q)
<1>1. IsSomewhere(P, n, p) /\ IsSomewhere(P, n, q)
  BY DEF IsFound, IsPossible
<1>2. IsSource(p.source) /\ IsSource(q.source)
  BY <1>1 DEF IsSomewhere
<1>3. /\ Named(p.source) = Source(p.source.kind, p.source.place, p.source.reference, None)
      /\ Named(q.source) = Source(q.source.kind, q.source.place, q.source.reference, None)
  BY <1>2, Without DEF Named
<1>4. /\ p.source.kind = q.source.kind /\ p.source.place = q.source.place
      /\ p.source.reference = q.source.reference
  <2>1. Source(p.source.kind, p.source.place, p.source.reference, None)
        = Source(q.source.kind, q.source.place, q.source.reference, None)
    BY <1>3
  <2>. QED BY <2>1 DEF Source
<1>5. p.source.rev = q.source.rev => p.source = q.source
  BY <1>2, <1>4 DEF IsSource
<1>6. ASSUME p.source = q.source, p.content = q.content PROVE Same(p, q)
  BY <1>1, <1>6 DEF IsSomewhere, Same
<1>7. p.source.kind # "git" => p.source = q.source
  BY <1>1, <1>4, <1>5 DEF IsSomewhere
<1>8. CASE p.source.kind = "path"
  <2>1. p.content = At(P, p.source.place) /\ q.content = At(P, q.source.place)
    BY <1>1, <1>4, <1>8 DEF IsSomewhere
  <2>. QED BY <1>4, <1>6, <1>7, <1>8, <2>1
<1>9. CASE p.source.kind = "toolchain"
  <2>1. p.content = P.toolchain[n] /\ q.content = P.toolchain[n]
    BY <1>1, <1>4, <1>9 DEF IsSomewhere
  <2>. QED BY <1>6, <1>7, <1>9, <2>1
<1>10. CASE p.source.kind = "registry"
  <2>. DEFINE i == p.source.place
              from == Source("registry", i, None, None)
  <2>1. p.source = from /\ q.source = from /\ IsPublished(P, n, p) /\ IsPublished(P, n, q)
    BY <1>1, <1>4, <1>7, <1>10 DEF IsSomewhere
  <2>. DEFINE IsEntryOf(x) == /\ i \in DOMAIN P.registries /\ n \in DOMAIN P.registries[i]
                              /\ \E e \in P.registries[i][n] : e.version = x.version /\ e.content = x.content
              IsLockOf(x) == IsLocked(P, n, from, x.version) /\ x.content = P.pins[n].content
  <2>2. ASSUME NEW x, IsSomewhere(P, n, x), x.source = from, IsPublished(P, n, x)
        PROVE  IsEntryOf(x) \/ IsLockOf(x)
    <3>1. from.place = i
      BY DEF Source
    <3>2. CASE IsLocked(P, n, x.source, x.version) /\ x.content = P.pins[n].content
      BY <2>2, <3>2
    <3>3. CASE /\ i \in DOMAIN P.registries /\ n \in DOMAIN P.registries[i]
               /\ \E e \in P.registries[i][n] : ~e.yanked /\ e.content = x.content
      <4>1. PICK e \in P.registries[i][n] : e.content = x.content
        BY <3>3
      <4>2. e.content.version = e.version
        BY <3>3, <4>1 DEF IsHonest, IsTrue
      <4>3. e.version = x.version
        BY <2>2, <4>1, <4>2 DEF IsSomewhere
      <4>. QED BY <3>3, <4>1, <4>3
    <3>. QED BY <2>2, <3>1, <3>2, <3>3 DEF IsPublished
  <2>3. IsEntryOf(p) \/ IsLockOf(p)
    BY <1>1, <2>1, <2>2
  <2>4. IsEntryOf(q) \/ IsLockOf(q)
    BY <1>1, <2>1, <2>2
  <2>5. ASSUME NEW x, NEW y, IsEntryOf(x), IsLockOf(y), x.version = y.version PROVE x.content = y.content
    <3>1. PICK e \in P.registries[i][n] : e.version = x.version /\ e.content = x.content
      BY <2>5
    <3>2. IsLocked(P, n, from, e.version) => e.content = P.pins[n].content
      BY <2>5, <3>1 DEF IsHonest, IsTrue
    <3>. QED BY <2>5, <3>1, <3>2
  <2>6. ASSUME IsEntryOf(p), IsEntryOf(q), p.version = q.version PROVE p.content = q.content
    <3>1. PICK e \in P.registries[i][n] : e.version = p.version /\ e.content = p.content
      BY <2>6
    <3>2. PICK f \in P.registries[i][n] : f.version = q.version /\ f.content = q.content
      BY <2>6
    <3>3. e = f
      BY <2>6, <3>1, <3>2 DEF IsWorld, AreRegistries
    <3>. QED BY <3>1, <3>2, <3>3
  <2>. HIDE DEF IsEntryOf
  <2>7. p.version = q.version
    BY <1>10
  <2>8. p.content = q.content
    BY <2>3, <2>4, <2>5, <2>6, <2>7
  <2>. QED BY <1>6, <2>1, <2>8
<1>11. CASE p.source.kind = "git"
  <2>1. IsCommit(P, n, p) /\ IsCommit(P, n, q)
    BY <1>1, <1>4, <1>11 DEF IsSomewhere
  <2>2. IsPinned(P, n, p.source) <=> IsPinned(P, n, q.source)
    BY DEF IsPinned
  <2>3. CASE IsPinned(P, n, p.source)
    BY <1>6, <2>1, <2>2, <2>3 DEF IsCommit
  <2>4. CASE ~IsPinned(P, n, p.source)
    <3>1. PICK f \in Asked(found, p.source) : TRUE
      BY <1>11, <2>4 DEF IsFound
    <3>2. f.rev = p.source.rev
      BY <1>11, <2>4, <3>1 DEF IsFound, IsPossible
    <3>3. f \in Asked(found, q.source)
      BY <1>4, <3>1 DEF Asked
    <3>4. f.rev = q.source.rev
      BY <1>4, <1>11, <2>2, <2>4, <3>3 DEF IsPossible
    <3>5. p.source = q.source
      BY <1>5, <3>2, <3>4
    <3>6. p.content = q.content
      BY <2>1, <2>2, <2>4, <3>5 DEF IsCommit
    <3>. QED BY <1>6, <3>5, <3>6
  <2>. QED BY <2>3, <2>4
<1>. QED BY <1>2, <1>8, <1>9, <1>10, <1>11 DEF IsSource

-----------------------------------------------------------------------------
(* What is offered is all there is *)

(* What is possible of what was found before is offered, and what is offered is
   to be found. *)
Finds(offer, p) == \E c \in offer.all : Same(c, p)

(* git found one commit for a reference. *)
AreUnique(found) == \A f, g \in found : f.url = g.url /\ f.reference = g.reference => f.rev = g.rev

(* What is refused is no offer. *)
LEMMA RefusedIsNotOk ==
  ASSUME NEW offer, offer.ok PROVE \A r : offer # Refused(r)
BY DEF Refused

(* An offer of one package, if it is one. *)
LEMMA OneIsOffered ==
  ASSUME NEW P, NEW n, NEW v, NEW s, NEW c, NEW found, OfferOne(P, n, v, s, c, found).ok
  PROVE  /\ OfferOne(P, n, v, s, c, found).fetches = found /\ ~OfferOne(P, n, v, s, c, found).pinned
         /\ Lawful(P, c, s) /\ c.name = n /\ c.version = v
         /\ \E one : /\ OfferOne(P, n, v, s, c, found).all = {one}
                     /\ one.version = v /\ one.source = s /\ one.content = c /\ one.needs = NeedsOf(P, c, s)
                     /\ \A p : IsSomewhere(P, n, p) /\ p.source = s /\ p.content = c => Same(one, p)
<1>. DEFINE offer == OfferOne(P, n, v, s, c, found)
            one == Package(n, v, s, c, NeedsOf(P, c, s), FALSE)
<1>1. offer = Offer({one}, FALSE, {}, found) /\ Lawful(P, c, s) /\ c.name = n /\ c.version = v
  <2>1. PICK o : o = offer
    OBVIOUS
  <2>2. o # Refused({})
    BY <2>1, RefusedIsNotOk
  <2>. QED BY <2>1, <2>2 DEF OfferOne
<1>2. one.version = v /\ one.source = s /\ one.content = c /\ one.needs = NeedsOf(P, c, s)
  BY DEF Package
<1>. HIDE DEF offer, one
<1>3. offer.all = {one} /\ offer.fetches = found /\ ~offer.pinned
  BY <1>1 DEF Offer
<1>4. ASSUME NEW p, IsSomewhere(P, n, p), p.source = s, p.content = c PROVE Same(one, p)
  <2>1. p.version = v
    BY <1>1, <1>4 DEF IsSomewhere
  <2>2. Range(p.needs) = Range(NeedsOf(P, c, s))
    BY <1>4 DEF IsSomewhere
  <2>. QED BY <1>2, <1>4, <2>1, <2>2 DEF Same
<1>5. \E x : /\ offer.all = {x}
            /\ x.version = v /\ x.source = s /\ x.content = c /\ x.needs = NeedsOf(P, c, s)
            /\ \A p : IsSomewhere(P, n, p) /\ p.source = s /\ p.content = c => Same(x, p)
  BY <1>2, <1>3, <1>4
<1>. QED BY <1>1, <1>3, <1>5 DEF offer

(* What is wanted for itself, less its commit, is a source. *)
LEMMA WantedIsSource ==
  ASSUME NEW P, NEW need, IsNeed(need, URLs(P)), NEW s, IsSource(s), WantMatches(need.want, s)
  PROVE  /\ need.want = Named(s) /\ need.want.kind = s.kind /\ need.want.place = s.place
         /\ need.want.reference = s.reference /\ (s.rev = None => s = need.want)
         /\ s = [need.want EXCEPT !.rev = s.rev]
<1>1. need.want = Named(s)
  BY DEF WantMatches, Named
<1>2. Named(s) = Source(s.kind, s.place, s.reference, None)
  BY Without DEF Named
<1>3. need.want = Source(s.kind, s.place, s.reference, None)
  BY <1>1, <1>2
<1>4. s = Source(s.kind, s.place, s.reference, s.rev)
  BY DEF IsSource
<1>5. /\ need.want.kind = s.kind /\ need.want.place = s.place /\ need.want.reference = s.reference
  BY <1>3 DEF Source
<1>6. [need.want EXCEPT !.rev = s.rev] = Source(s.kind, s.place, s.reference, s.rev)
  <2>1. IsSource(need.want)
    BY DEF IsNeed
  <2>. QED BY <1>5, <2>1, Without
<1>. QED BY <1>1, <1>3, <1>4, <1>5, <1>6

(* All that a directory has. *)
LEMMA DirectoriesFind ==
  ASSUME NEW P, IsWorld(P), NEW need, IsNeed(need, URLs(P)), need.want.kind = "path",
         FromPath(P, need).ok
  PROVE  /\ \A p : IsSomewhere(P, need.name, p) /\ WantMatches(need.want, p.source)
                     => Finds(FromPath(P, need), p)
         /\ \A c \in FromPath(P, need).all :
              (need.name \in DOMAIN P.precise => c.version = P.precise[need.name])
                => IsSomewhere(P, need.name, c) /\ c.source.kind = "path"
<1>. DEFINE content == At(P, need.want.place)
            offer == OfferOne(P, need.name, content.version, need.want, content, {})
<1>1. content # None /\ FromPath(P, need) = offer
  BY DEF FromPath, Refused
<1>. HIDE DEF content
<1>2. Lawful(P, content, need.want) /\ content.name = need.name
  <2>1. offer.ok
    BY <1>1
  <2>. QED BY <2>1, OneIsOffered
<1>3. PICK one :
      /\ offer.all = {one} /\ one.version = content.version /\ one.source = need.want /\ one.content = content
      /\ one.needs = NeedsOf(P, content, need.want)
      /\ \A p : IsSomewhere(P, need.name, p) /\ p.source = need.want /\ p.content = content => Same(one, p)
  <2>1. offer.ok
    BY <1>1
  <2>. QED BY <2>1, OneIsOffered
<1>. HIDE DEF offer
<1>4. ASSUME NEW p, IsSomewhere(P, need.name, p), WantMatches(need.want, p.source)
      PROVE  Finds(FromPath(P, need), p)
  <2>1. IsSource(p.source)
    BY <1>4 DEF IsSomewhere
  <2>2. need.want.kind = p.source.kind /\ need.want.place = p.source.place
        /\ (p.source.rev = None => p.source = need.want)
    BY <1>4, <2>1, WantedIsSource
  <2>3. p.source.rev = None /\ p.content = At(P, p.source.place)
    BY <1>4, <2>2 DEF IsSomewhere
  <2>. QED BY <1>1, <1>3, <1>4, <2>2, <2>3 DEF Finds, content
<1>5. ASSUME NEW c \in FromPath(P, need).all, need.name \in DOMAIN P.precise => c.version = P.precise[need.name]
      PROVE  IsSomewhere(P, need.name, c) /\ c.source.kind = "path"
  <2>1. c = one
    BY <1>1, <1>3
  <2>2. IsSource(need.want) /\ need.want.rev = None
    BY DEF IsNeed
  <2>. QED BY <1>1, <1>2, <1>3, <1>5, <2>1, <2>2 DEF IsSomewhere, content
<1>. QED BY <1>4, <1>5

(* All that is bundled with the compiler. *)
LEMMA ToolchainFinds ==
  ASSUME NEW P, IsWorld(P), NEW need, IsNeed(need, URLs(P)), need.want.kind = "toolchain",
         FromToolchain(P, need).ok
  PROVE  /\ \A p : IsSomewhere(P, need.name, p) /\ WantMatches(need.want, p.source)
                     => Finds(FromToolchain(P, need), p)
         /\ \A c \in FromToolchain(P, need).all :
              (need.name \in DOMAIN P.precise => c.version = P.precise[need.name])
                => IsSomewhere(P, need.name, c) /\ c.source.kind = "toolchain"
<1>. DEFINE content == P.toolchain[need.name]
            offer == OfferOne(P, need.name, content.version, Toolchain, content, {})
<1>1. need.name \in DOMAIN P.toolchain /\ FromToolchain(P, need) = offer
  BY DEF FromToolchain, Refused
<1>. HIDE DEF content
<1>2. Lawful(P, content, Toolchain) /\ content.name = need.name
  <2>1. offer.ok
    BY <1>1
  <2>. QED BY <2>1, OneIsOffered
<1>3. PICK one :
      /\ offer.all = {one} /\ one.version = content.version /\ one.source = Toolchain /\ one.content = content
      /\ one.needs = NeedsOf(P, content, Toolchain)
      /\ \A p : IsSomewhere(P, need.name, p) /\ p.source = Toolchain /\ p.content = content => Same(one, p)
  <2>1. offer.ok
    BY <1>1
  <2>. QED BY <2>1, OneIsOffered
<1>. HIDE DEF offer
<1>4. ASSUME NEW p, IsSomewhere(P, need.name, p), WantMatches(need.want, p.source)
      PROVE  Finds(FromToolchain(P, need), p)
  <2>1. IsSource(p.source)
    BY <1>4 DEF IsSomewhere
  <2>2. need.want.kind = p.source.kind
    BY <1>4, <2>1, WantedIsSource
  <2>3. p.source = Toolchain /\ p.content = content
    BY <1>4, <2>2 DEF IsSomewhere, content
  <2>. QED BY <1>1, <1>3, <1>4, <2>3 DEF Finds
<1>5. ASSUME NEW c \in FromToolchain(P, need).all, need.name \in DOMAIN P.precise => c.version = P.precise[need.name]
      PROVE  IsSomewhere(P, need.name, c) /\ c.source.kind = "toolchain"
  <2>1. c = one
    BY <1>1, <1>3
  <2>2. IsSource(Toolchain) /\ Toolchain.rev = None /\ Toolchain.kind = "toolchain"
    BY DEF IsSource, Toolchain, Source
  <2>. QED BY <1>1, <1>2, <1>3, <1>5, <2>1, <2>2 DEF IsSomewhere, content
<1>. QED BY <1>4, <1>5

(* What the lock offers is what it says. *)
LEMMA LockIsOne ==
  ASSUME NEW P, NEW need, NEW pinned, FromLock(P, need, pinned).ok,
         NEW pin, pin = P.pins[need.name]
  PROVE  /\ FromLock(P, need, pinned).fetches = {} /\ FromLock(P, need, pinned).pinned = pinned
         /\ Lawful(P, pin.content, pin.source) /\ pin.content.name = need.name /\ pin.content.version = pin.version
         /\ \E one : /\ FromLock(P, need, pinned).all = {one}
                     /\ one.version = pin.version /\ one.source = pin.source /\ one.content = pin.content
                     /\ one.needs = NeedsOf(P, pin.content, pin.source)
                     /\ \A p : IsSomewhere(P, need.name, p) /\ p.source = pin.source /\ p.content = pin.content
                                 => Same(one, p)
<1>. DEFINE offer == OfferOne(P, need.name, pin.version, pin.source, pin.content, {})
<1>1. FromLock(P, need, pinned) = [offer EXCEPT !.pinned = pinned]
  <2>1. PICK o : o = FromLock(P, need, pinned)
    OBVIOUS
  <2>2. o # Refused({})
    BY <2>1, RefusedIsNotOk
  <2>. QED BY <2>1, <2>2 DEF FromLock
<1>2. offer = [all |-> offer.all, pinned |-> offer.pinned, reads |-> offer.reads, fetches |-> offer.fetches, ok |-> offer.ok]
  BY DEF OfferOne, Offer, Refused
<1>. HIDE DEF offer
<1>3. /\ FromLock(P, need, pinned).all = offer.all /\ FromLock(P, need, pinned).fetches = offer.fetches
      /\ FromLock(P, need, pinned).pinned = pinned /\ FromLock(P, need, pinned).ok = offer.ok
  BY <1>1, <1>2
<1>4. offer.ok
  BY <1>3
<1>5. /\ offer.fetches = {} /\ Lawful(P, pin.content, pin.source)
      /\ pin.content.name = need.name /\ pin.content.version = pin.version
      /\ \E one : /\ offer.all = {one}
                  /\ one.version = pin.version /\ one.source = pin.source /\ one.content = pin.content
                  /\ one.needs = NeedsOf(P, pin.content, pin.source)
                  /\ \A p : IsSomewhere(P, need.name, p) /\ p.source = pin.source /\ p.content = pin.content
                              => Same(one, p)
  BY <1>4, OneIsOffered DEF offer
<1>. QED BY <1>3, <1>5

(* The lock's commit is the only one there is for the reference. *)
LEMMA LockedCommitIsFound ==
  ASSUME NEW P, IsWorld(P), NEW need, IsNeed(need, URLs(P)), need.want.kind = "git", PinnedGit(P, need),
         NEW pinned, FromLock(P, need, pinned).ok
  PROVE  /\ \A p : IsSomewhere(P, need.name, p) /\ WantMatches(need.want, p.source)
                     => Finds(FromLock(P, need, pinned), p)
         /\ \A c \in FromLock(P, need, pinned).all :
              (need.name \in DOMAIN P.precise => c.version = P.precise[need.name])
                => IsSomewhere(P, need.name, c) /\ c.source.kind = "git" /\ IsPinned(P, need.name, c.source)
<1>1. PICK pin : pin = P.pins[need.name]
  OBVIOUS
<1>2. PICK offer : offer = FromLock(P, need, pinned)
  OBVIOUS
<1>3. /\ Lawful(P, pin.content, pin.source) /\ pin.content.name = need.name /\ pin.content.version = pin.version
      /\ \E one : /\ offer.all = {one}
                  /\ one.version = pin.version /\ one.source = pin.source /\ one.content = pin.content
                  /\ one.needs = NeedsOf(P, pin.content, pin.source)
                  /\ \A p : IsSomewhere(P, need.name, p) /\ p.source = pin.source /\ p.content = pin.content
                              => Same(one, p)
  BY <1>1, <1>2, LockIsOne
<1>4. PICK one :
        /\ offer.all = {one} /\ one.version = pin.version /\ one.source = pin.source /\ one.content = pin.content
        /\ one.needs = NeedsOf(P, pin.content, pin.source)
        /\ \A p : IsSomewhere(P, need.name, p) /\ p.source = pin.source /\ p.content = pin.content => Same(one, p)
  BY <1>3
<1>5. need.name \in DOMAIN P.pins /\ WantMatches(need.want, pin.source) /\ IsSource(pin.source)
  BY <1>1 DEF PinnedGit, IsWorld, IsPin
<1>6. /\ need.want = Named(pin.source) /\ pin.source.kind = "git" /\ pin.source.place = need.want.place
  BY <1>5, WantedIsSource
<1>7. ASSUME NEW p, IsSomewhere(P, need.name, p), WantMatches(need.want, p.source)
      PROVE  Finds(offer, p)
  <2>1. IsSource(p.source)
    BY <1>7 DEF IsSomewhere
  <2>2. need.want = Named(p.source) /\ p.source.kind = "git"
    BY <1>7, <2>1, WantedIsSource
  <2>3. IsPinned(P, need.name, p.source)
    BY <1>1, <1>5, <1>6, <2>2 DEF IsPinned
  <2>4. p.source = pin.source /\ p.content = pin.content
    BY <1>1, <1>7, <2>2, <2>3 DEF IsSomewhere, IsCommit
  <2>. QED BY <1>4, <1>7, <2>4 DEF Finds
<1>8. ASSUME NEW c \in offer.all, need.name \in DOMAIN P.precise => c.version = P.precise[need.name]
      PROVE  IsSomewhere(P, need.name, c) /\ c.source.kind = "git" /\ IsPinned(P, need.name, c.source)
  <2>1. c = one
    BY <1>4
  <2>2. IsPinned(P, need.name, c.source)
    BY <1>1, <1>4, <1>5, <2>1 DEF IsPinned
  <2>3. need.want.place \in URLs(P)
    BY DEF IsNeed
  <2>4. IsCommit(P, need.name, c)
    BY <1>1, <1>4, <1>6, <2>1, <2>2, <2>3 DEF IsCommit
  <2>. QED BY <1>3, <1>4, <1>5, <1>6, <1>8, <2>1, <2>2, <2>4 DEF IsSomewhere
<1>. QED BY <1>2, <1>7, <1>8

(* The lock's version is the only one of its number. *)
LEMMA LockedVersionIsFound ==
  ASSUME NEW P, IsWorld(P), IsHonest(P), NEW need, IsNeed(need, URLs(P)), need.want.kind = "registry",
         ApplicablePin(P, need), NEW pinned, FromLock(P, need, pinned).ok
  PROVE  /\ \A p : IsSomewhere(P, need.name, p) /\ WantMatches(need.want, p.source)
                   /\ p.version = P.pins[need.name].version
                     => Finds(FromLock(P, need, pinned), p)
         /\ \A c \in FromLock(P, need, pinned).all :
              /\ IsSomewhere(P, need.name, c) /\ c.source.kind = "registry"
              /\ c.version = P.pins[need.name].version
         /\ IsVersion(P.pins[need.name].version)
<1>1. PICK pin : pin = P.pins[need.name]
  OBVIOUS
<1>2. PICK offer : offer = FromLock(P, need, pinned)
  OBVIOUS
<1>3. /\ Lawful(P, pin.content, pin.source) /\ pin.content.name = need.name /\ pin.content.version = pin.version
      /\ \E one : /\ offer.all = {one}
                  /\ one.version = pin.version /\ one.source = pin.source /\ one.content = pin.content
                  /\ one.needs = NeedsOf(P, pin.content, pin.source)
                  /\ \A p : IsSomewhere(P, need.name, p) /\ p.source = pin.source /\ p.content = pin.content
                              => Same(one, p)
  BY <1>1, <1>2, LockIsOne
<1>4. PICK one :
        /\ offer.all = {one} /\ one.version = pin.version /\ one.source = pin.source /\ one.content = pin.content
        /\ one.needs = NeedsOf(P, pin.content, pin.source)
        /\ \A p : IsSomewhere(P, need.name, p) /\ p.source = pin.source /\ p.content = pin.content => Same(one, p)
  BY <1>3
<1>5. /\ need.name \in DOMAIN P.pins /\ WantMatches(need.want, pin.source) /\ IsSource(pin.source)
      /\ (pin.source.kind # "git" => pin.source.rev = None)
      /\ (pin.source.kind \in {"git", "registry"} => IsContent(pin.content, URLs(P)))
  BY <1>1 DEF ApplicablePin, IsWorld, IsPin, URLs
<1>6. pin.source.kind = "registry"
  BY <1>5, WantedIsSource
<1>7. pin.source = need.want
  BY <1>5, <1>6, WantedIsSource
<1>8. need.want = Source("registry", need.want.place, None, None)
  BY DEF IsNeed
<1>9. ASSUME NEW p, IsSomewhere(P, need.name, p), WantMatches(need.want, p.source), p.version = pin.version
      PROVE  Finds(offer, p)
  <2>1. IsSource(p.source)
    BY <1>9 DEF IsSomewhere
  <2>2. p.source.kind = "registry" /\ (p.source.rev = None => p.source = need.want)
    BY <1>9, <2>1, WantedIsSource
  <2>3. p.source = need.want /\ IsPublished(P, need.name, p)
    BY <1>9, <2>2 DEF IsSomewhere
  <2>4. p.content = pin.content
    <3>1. CASE IsLocked(P, need.name, p.source, p.version) /\ p.content = P.pins[need.name].content
      BY <1>1, <3>1
    <3>2. CASE /\ p.source.place \in DOMAIN P.registries /\ need.name \in DOMAIN P.registries[p.source.place]
               /\ \E e \in P.registries[p.source.place][need.name] : ~e.yanked /\ e.content = p.content
      <4>1. PICK e \in P.registries[p.source.place][need.name] : e.content = p.content
        BY <3>2
      <4>2. /\ e.content.version = e.version
            /\ IsLocked(P, need.name, Source("registry", p.source.place, None, None), e.version)
                 => e.content = P.pins[need.name].content
        BY <3>2, <4>1 DEF IsHonest, IsTrue
      <4>3. e.version = pin.version
        BY <1>9, <4>1, <4>2 DEF IsSomewhere
      <4>4. Source("registry", p.source.place, None, None) = P.pins[need.name].source
        BY <1>1, <1>7, <1>8, <2>3
      <4>5. IsLocked(P, need.name, Source("registry", p.source.place, None, None), e.version)
        BY <1>1, <1>5, <4>3, <4>4 DEF IsLocked
      <4>. QED BY <1>1, <4>1, <4>2, <4>5
    <3>. QED BY <2>3, <3>1, <3>2 DEF IsPublished
  <2>. QED BY <1>4, <1>7, <1>9, <2>3, <2>4 DEF Finds
<1>10. ASSUME NEW c \in offer.all
       PROVE  IsSomewhere(P, need.name, c) /\ c.source.kind = "registry" /\ c.version = pin.version
  <2>1. c = one
    BY <1>4
  <2>2. c.source = P.pins[need.name].source /\ c.version = P.pins[need.name].version
        /\ c.content = P.pins[need.name].content
    BY <1>1, <1>4, <2>1
  <2>3. IsPublished(P, need.name, c)
    BY <1>5, <2>2 DEF IsPublished, IsLocked
  <2>4. need.name \in DOMAIN P.precise => c.version = P.precise[need.name]
    BY <1>1, <1>4, <2>1 DEF ApplicablePin
  <2>5. c.source = Source("registry", c.source.place, None, None) /\ c.source.rev = None
    BY <1>1, <1>5, <1>6, <1>7, <1>8, <2>2
  <2>. QED BY <1>3, <1>4, <1>5, <1>6, <2>1, <2>3, <2>4, <2>5 DEF IsSomewhere
<1>11. IsVersion(pin.version)
  BY <1>3, <1>5, <1>6 DEF IsContent
<1>. QED BY <1>1, <1>2, <1>9, <1>10, <1>11

(* What git finds for a reference is one of the repository's commits. *)
LEMMA RevIsCommit ==
  ASSUME NEW P, IsWorld(P), NEW url \in URLs(P), NEW reference, Rev(P, url, reference) # None
  PROVE  Rev(P, url, reference) \in DOMAIN P.repositories[url].commits
<1>. DEFINE repository == P.repositories[url]
            rev == Rev(P, url, reference)
            here == reference \in P.databases[url]
<1>1. IsRepository(repository, URLs(P)) /\ P.databases[url] \subseteq DOMAIN repository.commits
  BY DEF IsWorld, URLs
<1>2. CASE here
  <2>1. rev = reference
    BY <1>2 DEF Rev
  <2>. QED BY <1>1, <1>2, <2>1
<1>3. CASE ~here /\ url \in P.reachable /\ reference \in DOMAIN repository.heads
  <2>1. rev = repository.heads[reference]
    BY <1>3 DEF Rev
  <2>2. rev \in Range(repository.heads)
    BY <1>3, <2>1 DEF Range
  <2>. QED BY <1>1, <2>2 DEF IsRepository
<1>4. CASE ~here /\ url \in P.reachable /\ reference \notin DOMAIN repository.heads
           /\ reference \in DOMAIN repository.commits \ repository.gone
  <2>1. rev = reference
    BY <1>4 DEF Rev
  <2>. QED BY <1>4, <2>1
<1>5. CASE ~here /\ ~(url \in P.reachable /\ reference \in DOMAIN repository.heads)
           /\ ~(url \in P.reachable /\ reference \in DOMAIN repository.commits \ repository.gone)
  BY <1>5 DEF Rev
<1>. QED BY <1>2, <1>3, <1>4, <1>5

(* A commit is the only one that is itself. *)
LEMMA CommitIsFound ==
  ASSUME NEW P, IsWorld(P), NEW need, IsNeed(need, URLs(P)), need.want.kind = "git", ~PinnedGit(P, need),
         NEW rev, rev # None => rev \in DOMAIN P.repositories[need.want.place].commits,
         NEW found, OfferCommit(P, need, rev, found).ok
  PROVE  /\ OfferCommit(P, need, rev, found).fetches = found /\ ~OfferCommit(P, need, rev, found).pinned
         /\ \A p : IsSomewhere(P, need.name, p) /\ WantMatches(need.want, p.source) /\ p.source.rev = rev
                     => Finds(OfferCommit(P, need, rev, found), p)
         /\ \A c \in OfferCommit(P, need, rev, found).all :
              (need.name \in DOMAIN P.precise => c.version = P.precise[need.name])
                => /\ IsSomewhere(P, need.name, c) /\ c.source = [need.want EXCEPT !.rev = rev]
                   /\ ~IsPinned(P, need.name, c.source)
<1>1. PICK source : source = [need.want EXCEPT !.rev = rev]
  OBVIOUS
<1>2. PICK content : content = P.repositories[need.want.place].commits[rev]
  OBVIOUS
<1>. DEFINE offer == OfferOne(P, need.name, content.version, source, content, found)
<1>3. rev # None /\ content # None /\ OfferCommit(P, need, rev, found) = offer
  <2>1. PICK o : o = OfferCommit(P, need, rev, found)
    OBVIOUS
  <2>2. o # Refused({})
    BY <2>1, RefusedIsNotOk
  <2>. QED BY <1>1, <1>2, <2>1, <2>2 DEF OfferCommit
<1>4. offer.ok
  BY <1>3
<1>5. /\ offer.fetches = found /\ ~offer.pinned /\ Lawful(P, content, source) /\ content.name = need.name
      /\ \E one : /\ offer.all = {one}
                  /\ one.version = content.version /\ one.source = source /\ one.content = content
                  /\ one.needs = NeedsOf(P, content, source)
                  /\ \A p : IsSomewhere(P, need.name, p) /\ p.source = source /\ p.content = content => Same(one, p)
  BY <1>4, OneIsOffered
<1>. HIDE DEF offer
<1>6. PICK one :
        /\ offer.all = {one} /\ one.version = content.version /\ one.source = source /\ one.content = content
        /\ one.needs = NeedsOf(P, content, source)
        /\ \A p : IsSomewhere(P, need.name, p) /\ p.source = source /\ p.content = content => Same(one, p)
  BY <1>5
<1>7. IsSource(need.want) /\ need.want.rev = None /\ need.want.place \in URLs(P)
  BY DEF IsNeed
<1>8. source = Source(need.want.kind, need.want.place, need.want.reference, rev)
  BY <1>1, <1>7, Without
<1>9. /\ IsSource(source) /\ source.kind = "git" /\ source.place = need.want.place
      /\ source.reference = need.want.reference /\ source.rev = rev
  BY <1>1, <1>7, <1>8, Without DEF Source
<1>10. Named(source) = need.want
  BY <1>7, <1>9, Without DEF Named, IsSource
<1>11. ~IsPinned(P, need.name, source)
  BY <1>10 DEF IsPinned, PinnedGit, WantMatches, Named
<1>12. ASSUME NEW p, IsSomewhere(P, need.name, p), WantMatches(need.want, p.source), p.source.rev = rev
       PROVE  Finds(offer, p)
  <2>1. IsSource(p.source)
    BY <1>12 DEF IsSomewhere
  <2>2. p.source = [need.want EXCEPT !.rev = p.source.rev]
    BY <1>12, <2>1, WantedIsSource
  <2>3. p.source = source
    BY <1>1, <1>12, <2>2
  <2>4. p.content = content
    BY <1>2, <1>9, <1>11, <1>12, <2>3 DEF IsSomewhere, IsCommit
  <2>. QED BY <1>6, <1>12, <2>3, <2>4 DEF Finds
<1>13. ASSUME NEW c \in offer.all, need.name \in DOMAIN P.precise => c.version = P.precise[need.name]
       PROVE  IsSomewhere(P, need.name, c) /\ c.source = source /\ ~IsPinned(P, need.name, c.source)
  <2>1. c = one /\ c.source = source
    BY <1>6
  <2>2. IsCommit(P, need.name, c)
    <3>1. c.content = P.repositories[c.source.place].commits[c.source.rev]
      BY <1>2, <1>6, <1>9, <2>1
    <3>. QED BY <1>3, <1>6, <1>7, <1>9, <1>11, <2>1, <3>1 DEF IsCommit
  <2>. QED BY <1>5, <1>6, <1>9, <1>11, <1>13, <2>1, <2>2 DEF IsSomewhere
<1>. QED BY <1>1, <1>3, <1>5, <1>12, <1>13

(* What git found for a reference is the only commit there is for it. *)
LEMMA RepositoriesFind ==
  ASSUME NEW P, IsWorld(P), NEW need, IsNeed(need, URLs(P)), need.want.kind = "git", ~PinnedGit(P, need),
         NEW found, AreCommits(P, found), AreUnique(found), FromGit(P, need, found).ok,
         NEW after, after = found \cup FromGit(P, need, found).fetches
  PROVE  /\ AreUnique(after) /\ ~FromGit(P, need, found).pinned
         /\ \A p : IsPossible(P, after, need.name, p) /\ WantMatches(need.want, p.source)
                     => Finds(FromGit(P, need, found), p)
         /\ \A c \in FromGit(P, need, found).all :
              (need.name \in DOMAIN P.precise => c.version = P.precise[need.name])
                => IsFound(P, after, need.name, c) /\ c.source.kind = "git"
<1>. DEFINE url == need.want.place
            reference == need.want.reference
            asked == {f \in found : f.url = url /\ f.reference = reference}
<1>1. PICK offer : offer = FromGit(P, need, found)
  OBVIOUS
<1>2. url \in URLs(P) /\ IsSource(need.want) /\ need.want.rev = None
  BY DEF IsNeed
<1>3. \E rev, new : /\ offer = OfferCommit(P, need, rev, new)
                    /\ rev # None => rev \in DOMAIN P.repositories[url].commits
                    /\ \/ /\ new = {} /\ \E f \in asked : f.rev = rev
                       \/ /\ asked = {}
                          /\ new = {[url |-> url, reference |-> reference, rev |-> rev]}
  <2>1. CASE asked # {}
    <3>1. PICK f \in asked : f = CHOOSE x \in asked : TRUE
      BY <2>1
    <3>2. offer = OfferCommit(P, need, f.rev, {})
      BY <1>1, <2>1, <3>1 DEF FromGit
    <3>3. f.rev \in DOMAIN P.repositories[url].commits
      BY <3>1 DEF AreCommits
    <3>. HIDE DEF asked
    <3>. QED BY <3>1, <3>2, <3>3
  <2>2. CASE asked = {} /\ ~(P.locked \/ P.offline)
    <3>1. PICK rev : rev = Rev(P, url, reference)
      OBVIOUS
    <3>2. PICK new : new = {[url |-> url, reference |-> reference, rev |-> rev]}
      OBVIOUS
    <3>3. offer = OfferCommit(P, need, rev, new)
      BY <1>1, <2>2, <3>1, <3>2 DEF FromGit
    <3>4. rev # None => rev \in DOMAIN P.repositories[url].commits
      BY <1>2, <3>1, RevIsCommit
    <3>. HIDE DEF asked
    <3>. QED BY <2>2, <3>2, <3>3, <3>4
  <2>3. CASE asked = {} /\ (P.locked \/ P.offline)
    <3>1. offer = Refused({})
      BY <1>1, <2>3 DEF FromGit
    <3>. QED BY <1>1, <3>1, RefusedIsNotOk
  <2>. QED BY <2>1, <2>2, <2>3
<1>4. PICK rev, new : /\ offer = OfferCommit(P, need, rev, new)
                      /\ rev # None => rev \in DOMAIN P.repositories[url].commits
                      /\ \/ /\ new = {} /\ \E f \in asked : f.rev = rev
                         \/ /\ asked = {}
                            /\ new = {[url |-> url, reference |-> reference, rev |-> rev]}
  BY <1>3
<1>5. OfferCommit(P, need, rev, new).ok
  BY <1>1, <1>4
<1>6. /\ offer.fetches = new /\ ~offer.pinned
      /\ \A p : IsSomewhere(P, need.name, p) /\ WantMatches(need.want, p.source) /\ p.source.rev = rev
                  => Finds(offer, p)
      /\ \A c \in offer.all :
           (need.name \in DOMAIN P.precise => c.version = P.precise[need.name])
             => /\ IsSomewhere(P, need.name, c) /\ c.source = [need.want EXCEPT !.rev = rev]
                /\ ~IsPinned(P, need.name, c.source)
  <2>1. offer = OfferCommit(P, need, rev, new) /\ (rev # None => rev \in DOMAIN P.repositories[need.want.place].commits)
    BY <1>4
  <2>2. /\ OfferCommit(P, need, rev, new).fetches = new /\ ~OfferCommit(P, need, rev, new).pinned
        /\ \A p : IsSomewhere(P, need.name, p) /\ WantMatches(need.want, p.source) /\ p.source.rev = rev
                    => Finds(OfferCommit(P, need, rev, new), p)
        /\ \A c \in OfferCommit(P, need, rev, new).all :
             (need.name \in DOMAIN P.precise => c.version = P.precise[need.name])
               => /\ IsSomewhere(P, need.name, c) /\ c.source = [need.want EXCEPT !.rev = rev]
                  /\ ~IsPinned(P, need.name, c.source)
    <3>. HIDE DEF asked
    <3>. QED BY <1>5, <2>1, CommitIsFound
  <2>. QED BY <2>1, <2>2
<1>7. after = found \cup new
  BY <1>1, <1>6
<1>8. AreUnique(after) /\ \E f \in after : f.url = url /\ f.reference = reference /\ f.rev = rev
  <2>1. CASE new = {} /\ \E f \in asked : f.rev = rev
    BY <1>7, <2>1
  <2>2. CASE asked = {} /\ new = {[url |-> url, reference |-> reference, rev |-> rev]}
    <3>1. PICK one : one = [url |-> url, reference |-> reference, rev |-> rev]
      OBVIOUS
    <3>2. one.url = url /\ one.reference = reference /\ one.rev = rev /\ after = found \cup {one}
      BY <1>7, <2>2, <3>1
    <3>3. \A f \in found : ~(f.url = url /\ f.reference = reference)
      BY <2>2
    <3>4. AreUnique(after)
      BY <3>2, <3>3 DEF AreUnique
    <3>. QED BY <3>2, <3>4
  <2>. QED BY <1>4, <2>1, <2>2
<1>9. ASSUME NEW p, IsPossible(P, after, need.name, p), WantMatches(need.want, p.source)
      PROVE  Finds(offer, p)
  <2>1. IsSomewhere(P, need.name, p) /\ IsSource(p.source)
    BY <1>9 DEF IsPossible, IsSomewhere
  <2>2. /\ p.source.kind = "git" /\ p.source.place = url /\ p.source.reference = reference
        /\ Named(p.source) = need.want
    BY <1>9, <2>1, WantedIsSource
  <2>3. ~IsPinned(P, need.name, p.source)
    BY <2>2 DEF IsPinned, PinnedGit, WantMatches, Named
  <2>4. p.source.rev = rev
    BY <1>8, <1>9, <2>2, <2>3 DEF IsPossible, Asked
  <2>. QED BY <1>6, <1>9, <2>1, <2>4
<1>10. ASSUME NEW c \in offer.all, need.name \in DOMAIN P.precise => c.version = P.precise[need.name]
       PROVE  IsFound(P, after, need.name, c) /\ c.source.kind = "git"
  <2>1. IsSomewhere(P, need.name, c) /\ c.source = [need.want EXCEPT !.rev = rev]
    BY <1>6, <1>10
  <2>2. c.source = Source(need.want.kind, url, reference, rev)
    BY <1>2, <2>1, Without
  <2>3. c.source.kind = "git" /\ c.source.place = url /\ c.source.reference = reference /\ c.source.rev = rev
    BY <2>2 DEF Source
  <2>4. Asked(after, c.source) # {} /\ \A f \in Asked(after, c.source) : f.rev = rev
    BY <1>8, <2>3 DEF Asked, AreUnique
  <2>. QED BY <2>1, <2>3, <2>4 DEF IsFound, IsPossible
<1>. QED BY <1>1, <1>6, <1>8, <1>9, <1>10

(* In an index that tells the truth there is all that is published. *)
LEMMA IndexFinds ==
  ASSUME NEW P, IsWorld(P), IsHonest(P), NEW need, IsNeed(need, URLs(P)), need.want.kind = "registry",
         MayReadIndex(P, need)
  PROVE  /\ \A p : IsSomewhere(P, need.name, p) /\ WantMatches(need.want, p.source)
                     => \/ \E c \in FromIndex(P, need) : Same(c, p)
                        \/ IsLocked(P, need.name, p.source, p.version)
         /\ \A c \in FromIndex(P, need) :
              (need.name \in DOMAIN P.precise => c.version = P.precise[need.name])
                => IsSomewhere(P, need.name, c) /\ c.source.kind = "registry"
<1>1. PICK i : i = need.want.place
  OBVIOUS
<1>2. PICK from : from = Source("registry", i, None, None)
  OBVIOUS
<1>3. need.want = from /\ from.kind = "registry" /\ from.place = i /\ from.rev = None /\ IsSource(from)
  BY <1>1, <1>2 DEF IsNeed, Source, IsSource
<1>4. i \in DOMAIN P.registries /\ need.name \in DOMAIN P.registries[i]
  <2>1. IsConfigured(P, i) /\ need.name \in P.readable
    BY <1>1 DEF MayReadIndex
  <2>2. i \in DOMAIN P.registries
    BY <2>1 DEF IsConfigured, IsWorld, Range
  <2>. QED BY <2>1, <2>2 DEF IsWorld, AreRegistries
<1>5. PICK entries : entries = P.registries[i][need.name]
  OBVIOUS
<1>6. ASSUME NEW e \in entries, ~e.yanked
      PROVE  /\ Indexed(need, e) \in FromIndex(P, need)
             /\ Indexed(need, e).version = e.version /\ Indexed(need, e).source = from
             /\ Indexed(need, e).content = e.content
             /\ Lawful(P, e.content, from) /\ e.content.name = need.name /\ e.content.version = e.version
             /\ Range(Indexed(need, e).needs) = Range(NeedsOf(P, e.content, from))
  <2>. DEFINE Words(d) == [name |-> d.name, requirement |-> d.requirement]
  <2>1. /\ IsEntry(e, URLs(P)) /\ Lawful(P, e.content, from)
        /\ e.content.name = need.name /\ e.content.version = e.version
        /\ {Words(d) : d \in Range(e.needs)} = {Words(d) : d \in Range(e.content.dependencies)}
    <3>1. IsEntry(e, URLs(P))
      BY <1>4, <1>5, <1>6 DEF IsWorld, AreRegistries, URLs
    <3>. QED BY <1>2, <1>4, <1>5, <1>6, <3>1 DEF IsHonest, IsTrue, Says
  <2>2. Indexed(need, e) \in FromIndex(P, need)
    BY <1>1, <1>5, <1>6 DEF FromIndex
  <2>. DEFINE wanted == [k \in DOMAIN e.needs |->
                           Need(e.needs[k].name, e.needs[k].requirement,
                                IF e.needs[k].source.kind = "toolchain" THEN Toolchain ELSE need.want)]
  <2>3. Indexed(need, e) = Package(need.name, e.version, need.want, e.content, wanted, TRUE)
    BY DEF Indexed
  <2>4. /\ Indexed(need, e).version = e.version /\ Indexed(need, e).source = from
        /\ Indexed(need, e).content = e.content /\ Indexed(need, e).needs = wanted
    BY <1>3, <2>3 DEF Package
  <2>. DEFINE From(d) == Need(d.name, d.requirement, IF d.source.kind = "toolchain" THEN Toolchain ELSE from)
  <2>5. Range(wanted) = {From(d) : d \in Range(e.needs)}
    BY <1>3 DEF Range
  <2>6. Range(NeedsOf(P, e.content, from)) = {From(d) : d \in Range(e.content.dependencies)}
    <3>1. ASSUME NEW k \in DOMAIN e.content.dependencies, NEW d, d = e.content.dependencies[k]
          PROVE  Need(d.name, d.requirement, Want(P, d, from)) = From(d)
      <4>1. IsDependency(d, URLs(P)) /\ MayWant(P, d, from)
        BY <2>1, <3>1 DEF IsEntry, IsContent, AreDependencies, Lawful, Range
      <4>2. CASE d.source.kind = "toolchain"
        <5>1. Want(P, d, from) = Toolchain
          BY <4>1, <4>2 DEF Want, IsDependency
        <5>. QED BY <4>2, <5>1
      <4>3. CASE d.source.kind = "registry"
        <5>1. Want(P, d, from) = from
          BY <1>2, <1>3, <4>3 DEF Want
        <5>. QED BY <4>3, <5>1
      <4>4. d.source.kind \in {"path", "git"} => FALSE
        BY <1>3, <4>1 DEF MayWant
      <4>. QED BY <4>1, <4>2, <4>3, <4>4 DEF IsDependency, IsSource
    <3>2. DOMAIN NeedsOf(P, e.content, from) = DOMAIN e.content.dependencies
          /\ \A k \in DOMAIN e.content.dependencies :
               NeedsOf(P, e.content, from)[k] = Need(e.content.dependencies[k].name, e.content.dependencies[k].requirement,
                                                     Want(P, e.content.dependencies[k], from))
      BY DEF NeedsOf
    <3>. HIDE DEF From
    <3>3. \A k \in DOMAIN e.content.dependencies : NeedsOf(P, e.content, from)[k] = From(e.content.dependencies[k])
      BY <3>1, <3>2
    <3>. QED BY <3>2, <3>3 DEF Range
  <2>7. \A d \in Range(e.needs), declared \in Range(e.content.dependencies) :
          d.name = declared.name /\ d.requirement = declared.requirement => From(d) = From(declared)
    BY <2>1 DEF IsEntry, SaysFromWhere
  <2>8. \A d \in Range(e.needs) : \E declared \in Range(e.content.dependencies) :
          d.name = declared.name /\ d.requirement = declared.requirement
    <3>1. ASSUME NEW d \in Range(e.needs)
          PROVE  \E declared \in Range(e.content.dependencies) : d.name = declared.name /\ d.requirement = declared.requirement
      <4>. HIDE DEF Words
      <4>1. Words(d) \in {Words(x) : x \in Range(e.content.dependencies)}
        BY <2>1
      <4>2. PICK declared \in Range(e.content.dependencies) : Words(d) = Words(declared)
        BY <4>1
      <4>. QED BY <4>2 DEF Words
    <3>. QED BY <3>1
  <2>9. \A declared \in Range(e.content.dependencies) : \E d \in Range(e.needs) :
          d.name = declared.name /\ d.requirement = declared.requirement
    <3>1. ASSUME NEW declared \in Range(e.content.dependencies)
          PROVE  \E d \in Range(e.needs) : d.name = declared.name /\ d.requirement = declared.requirement
      <4>. HIDE DEF Words
      <4>1. Words(declared) \in {Words(x) : x \in Range(e.needs)}
        BY <2>1
      <4>2. PICK d \in Range(e.needs) : Words(d) = Words(declared)
        BY <4>1
      <4>. QED BY <4>2 DEF Words
    <3>. QED BY <3>1
  <2>. HIDE DEF From, wanted
  <2>10. {From(d) : d \in Range(e.needs)} = {From(d) : d \in Range(e.content.dependencies)}
    BY <2>7, <2>8, <2>9
  <2>. QED BY <2>1, <2>2, <2>4, <2>5, <2>6, <2>10
<1>7. ASSUME NEW p, IsSomewhere(P, need.name, p), WantMatches(need.want, p.source),
             ~IsLocked(P, need.name, p.source, p.version)
      PROVE  \E c \in FromIndex(P, need) : Same(c, p)
  <2>1. IsSource(p.source)
    BY <1>7 DEF IsSomewhere
  <2>2. p.source.kind = "registry" /\ (p.source.rev = None => p.source = need.want)
    BY <1>7, <2>1, WantedIsSource
  <2>3. p.source = from /\ IsPublished(P, need.name, p)
    BY <1>3, <1>7, <2>2 DEF IsSomewhere
  <2>4. PICK e \in entries : ~e.yanked /\ e.content = p.content
    BY <1>3, <1>5, <1>7, <2>3 DEF IsPublished
  <2>5. /\ p.content.version = p.version /\ Range(p.needs) = Range(NeedsOf(P, p.content, from))
    BY <1>7, <2>3 DEF IsSomewhere
  <2>6. Same(Indexed(need, e), p)
    BY <1>6, <2>3, <2>4, <2>5 DEF Same
  <2>. QED BY <1>6, <2>4, <2>6
<1>8. ASSUME NEW c \in FromIndex(P, need), need.name \in DOMAIN P.precise => c.version = P.precise[need.name]
      PROVE  IsSomewhere(P, need.name, c) /\ c.source.kind = "registry"
  <2>1. PICK e \in entries : ~e.yanked /\ c = Indexed(need, e)
    BY <1>1, <1>5 DEF FromIndex
  <2>2. /\ c.version = e.version /\ c.source = from /\ c.content = e.content
        /\ Lawful(P, e.content, from) /\ e.content.name = need.name /\ e.content.version = e.version
        /\ Range(c.needs) = Range(NeedsOf(P, e.content, from))
    BY <1>6, <2>1
  <2>3. IsPublished(P, need.name, c)
    BY <1>3, <1>4, <1>5, <2>1, <2>2 DEF IsPublished
  <2>. QED BY <1>2, <1>3, <1>8, <2>2, <2>3 DEF IsSomewhere
<1>. QED BY <1>7, <1>8

(* The candidates for a need: those that are possible are there, but for others
   than the pin when that is tried first, and for what only the lock has when it
   is not; and those that are there were found. *)
LEMMA OffersFind ==
  ASSUME NEW P, IsWorld(P), IsHonest(P), NEW need, IsNeed(need, URLs(P)), NEW usePin \in BOOLEAN,
         NEW found, AreCommits(P, found), AreUnique(found), NEW offer,
         offer = Options(P, need, usePin, found), offer.ok,
         NEW after, after = found \cup offer.fetches
  PROVE  /\ AreUnique(after)
         /\ offer.pinned <=> usePin /\ need.want.kind = "registry" /\ ApplicablePin(P, need)
         /\ offer.pinned =>
              /\ IsVersion(P.pins[need.name].version)
              /\ \A c \in offer.all : c.version = P.pins[need.name].version
         /\ \A c \in offer.all :
              (need.name \in DOMAIN P.precise => c.version = P.precise[need.name])
                => IsFound(P, after, need.name, c)
         /\ \A p : IsPossible(P, after, need.name, p) /\ WantMatches(need.want, p.source)
                   /\ Matches(need.requirement, p.version) =>
              \/ Finds(offer, p)
              \/ offer.pinned /\ p.version # P.pins[need.name].version
              \/ /\ ~usePin /\ need.want.kind = "registry"
                 /\ IsLocked(P, need.name, p.source, p.version)
<1>1. need.want.kind \in {"path", "toolchain", "git", "registry"}
  BY DEF IsNeed, IsSource
<1>2. \A p : IsPossible(P, after, need.name, p) => IsSomewhere(P, need.name, p)
  BY DEF IsPossible
<1>3. ASSUME NEW c, IsSomewhere(P, need.name, c), c.source.kind # "git" \/ IsPinned(P, need.name, c.source)
      PROVE  IsFound(P, after, need.name, c)
  BY <1>3 DEF IsFound, IsPossible
<1>4. offer.fetches = {} => AreUnique(after)
  BY DEF AreUnique
<1>5. CASE need.want.kind = "path"
  <2>1. offer = FromPath(P, need)
    BY <1>5 DEF Options
  <2>2. /\ \A p : IsSomewhere(P, need.name, p) /\ WantMatches(need.want, p.source) => Finds(FromPath(P, need), p)
        /\ \A c \in FromPath(P, need).all :
             (need.name \in DOMAIN P.precise => c.version = P.precise[need.name])
               => IsSomewhere(P, need.name, c) /\ c.source.kind = "path"
    <3>1. FromPath(P, need).ok
      BY <2>1
    <3>. QED BY <1>5, <3>1, DirectoriesFind
  <2>3. ~offer.pinned /\ offer.fetches = {}
    <3>1. PICK content : content = At(P, need.want.place)
      OBVIOUS
    <3>2. offer = OfferOne(P, need.name, content.version, need.want, content, {})
      BY <2>1, <3>1, RefusedIsNotOk DEF FromPath
    <3>3. OfferOne(P, need.name, content.version, need.want, content, {}).ok
      BY <3>2
    <3>. QED BY <3>2, <3>3, OneIsOffered
  <2>. QED BY <1>2, <1>3, <1>4, <1>5, <2>1, <2>2, <2>3
<1>6. CASE need.want.kind = "toolchain"
  <2>1. offer = FromToolchain(P, need)
    BY <1>6 DEF Options
  <2>2. /\ \A p : IsSomewhere(P, need.name, p) /\ WantMatches(need.want, p.source) => Finds(FromToolchain(P, need), p)
        /\ \A c \in FromToolchain(P, need).all :
             (need.name \in DOMAIN P.precise => c.version = P.precise[need.name])
               => IsSomewhere(P, need.name, c) /\ c.source.kind = "toolchain"
    <3>1. FromToolchain(P, need).ok
      BY <2>1
    <3>. QED BY <1>6, <3>1, ToolchainFinds
  <2>3. ~offer.pinned /\ offer.fetches = {}
    <3>1. PICK content : content = P.toolchain[need.name]
      OBVIOUS
    <3>2. offer = OfferOne(P, need.name, content.version, Toolchain, content, {})
      BY <2>1, <3>1, RefusedIsNotOk DEF FromToolchain
    <3>3. OfferOne(P, need.name, content.version, Toolchain, content, {}).ok
      BY <3>2
    <3>. QED BY <3>2, <3>3, OneIsOffered
  <2>. QED BY <1>2, <1>3, <1>4, <1>6, <2>1, <2>2, <2>3
<1>7. CASE need.want.kind = "git" /\ PinnedGit(P, need)
  <2>1. PICK pinned : pinned = FALSE
    OBVIOUS
  <2>2. offer = FromLock(P, need, pinned)
    BY <1>7, <2>1 DEF Options
  <2>3. FromLock(P, need, pinned).ok
    BY <2>2
  <2>4. ~offer.pinned /\ offer.fetches = {}
    BY <2>1, <2>2, <2>3, LockIsOne
  <2>5. /\ \A p : IsSomewhere(P, need.name, p) /\ WantMatches(need.want, p.source) => Finds(FromLock(P, need, pinned), p)
        /\ \A c \in FromLock(P, need, pinned).all :
             (need.name \in DOMAIN P.precise => c.version = P.precise[need.name])
               => IsSomewhere(P, need.name, c) /\ c.source.kind = "git" /\ IsPinned(P, need.name, c.source)
    BY <1>7, <2>3, LockedCommitIsFound
  <2>. QED BY <1>2, <1>3, <1>4, <1>7, <2>2, <2>4, <2>5
<1>8. CASE need.want.kind = "git" /\ ~PinnedGit(P, need)
  <2>1. offer = FromGit(P, need, found)
    BY <1>8 DEF Options
  <2>2. FromGit(P, need, found).ok /\ after = found \cup FromGit(P, need, found).fetches
    BY <2>1
  <2>3. /\ AreUnique(after) /\ ~FromGit(P, need, found).pinned
        /\ \A p : IsPossible(P, after, need.name, p) /\ WantMatches(need.want, p.source)
                    => Finds(FromGit(P, need, found), p)
        /\ \A c \in FromGit(P, need, found).all :
             (need.name \in DOMAIN P.precise => c.version = P.precise[need.name])
               => IsFound(P, after, need.name, c) /\ c.source.kind = "git"
    BY <1>8, <2>2, RepositoriesFind
  <2>. QED BY <1>8, <2>1, <2>3
<1>9. CASE need.want.kind = "registry" /\ usePin /\ ApplicablePin(P, need)
  <2>1. PICK pinned : pinned = TRUE
    OBVIOUS
  <2>2. offer = FromLock(P, need, pinned)
    BY <1>9, <2>1 DEF Options
  <2>3. FromLock(P, need, pinned).ok
    BY <2>2
  <2>4. offer.pinned /\ offer.fetches = {}
    <3>1. FromLock(P, need, pinned).pinned = pinned /\ FromLock(P, need, pinned).fetches = {}
      BY <2>3, LockIsOne
    <3>2. offer.pinned = TRUE
      BY <2>1, <2>2, <3>1
    <3>. QED BY <2>2, <3>1, <3>2
  <2>5. /\ \A p : IsSomewhere(P, need.name, p) /\ WantMatches(need.want, p.source)
                  /\ p.version = P.pins[need.name].version
                    => Finds(FromLock(P, need, pinned), p)
        /\ \A c \in FromLock(P, need, pinned).all :
             /\ IsSomewhere(P, need.name, c) /\ c.source.kind = "registry"
             /\ c.version = P.pins[need.name].version
        /\ IsVersion(P.pins[need.name].version)
    BY <1>9, <2>3, LockedVersionIsFound
  <2>6. \A c \in offer.all : IsFound(P, after, need.name, c)
    BY <1>3, <2>2, <2>5
  <2>. QED BY <1>2, <1>4, <1>9, <2>2, <2>4, <2>5, <2>6
<1>10. CASE need.want.kind = "registry" /\ ~(usePin /\ ApplicablePin(P, need)) /\ MayReadIndex(P, need)
  <2>1. offer = Offer(FromIndex(P, need), FALSE, {need.name}, {})
    BY <1>10 DEF Options
  <2>2. offer.all = FromIndex(P, need) /\ ~offer.pinned /\ offer.fetches = {}
    BY <2>1 DEF Offer
  <2>3. /\ \A p : IsSomewhere(P, need.name, p) /\ WantMatches(need.want, p.source)
                    => \/ \E c \in FromIndex(P, need) : Same(c, p)
                       \/ IsLocked(P, need.name, p.source, p.version)
        /\ \A c \in FromIndex(P, need) :
             (need.name \in DOMAIN P.precise => c.version = P.precise[need.name])
               => IsSomewhere(P, need.name, c) /\ c.source.kind = "registry"
    BY <1>10, IndexFinds
  <2>4. ASSUME NEW p, IsPossible(P, after, need.name, p), WantMatches(need.want, p.source),
               Matches(need.requirement, p.version), usePin, IsLocked(P, need.name, p.source, p.version)
        PROVE  FALSE
    <3>1. need.name \in DOMAIN P.precise => P.precise[need.name] = p.version
      BY <2>4 DEF IsPossible, IsSomewhere
    <3>2. ApplicablePin(P, need)
      BY <2>4, <3>1 DEF ApplicablePin, IsLocked
    <3>. QED BY <1>10, <2>4, <3>2
  <2>5. ASSUME NEW p, IsPossible(P, after, need.name, p), WantMatches(need.want, p.source),
               Matches(need.requirement, p.version)
        PROVE  Finds(offer, p) \/ (~usePin /\ IsLocked(P, need.name, p.source, p.version))
    BY <1>2, <2>2, <2>3, <2>4, <2>5 DEF Finds
  <2>6. ASSUME NEW c \in offer.all, need.name \in DOMAIN P.precise => c.version = P.precise[need.name]
        PROVE  IsFound(P, after, need.name, c)
    BY <1>3, <2>2, <2>3, <2>6
  <2>. QED BY <1>4, <1>10, <2>2, <2>5, <2>6
<1>11. CASE need.want.kind = "registry" /\ ~(usePin /\ ApplicablePin(P, need)) /\ ~MayReadIndex(P, need)
  <2>1. offer = Refused({need.name})
    BY <1>11 DEF Options
  <2>. QED BY <2>1, RefusedIsNotOk
<1>. QED BY <1>1, <1>5, <1>6, <1>7, <1>8, <1>9, <1>10, <1>11

-----------------------------------------------------------------------------
(* What the search has left out *)

Root(P, i) == P.members[i].content.name

(* What is possible for a member, as far as git was asked. *)
IsChoice(P, found, i, S) ==
  /\ Root(P, i) \in DOMAIN S /\ Same(Member(P, i), S[Root(P, i)])
  /\ \A n \in DOMAIN S \ {Root(P, i)} : IsPossible(P, found, n, S[n])
  /\ \A need \in AllNeeds(MemberNeeds(P, i), S) : Met(need, S)

Agrees(packages, S) == \A n \in DOMAIN packages : n \in DOMAIN S /\ Same(packages[n], S[n])

(* What was chosen on the way: before the frame k, and after all of them. *)
Stage(frames, now, k) == IF k \in DOMAIN frames THEN frames[k].chosen ELSE now

Taken(frames, now, k) == Stage(frames, now, k + 1)[frames[k].need.name]

(* What is chosen grows by a name a frame, from the member itself. *)
AreLinked(P, i, frames, now, top) ==
  /\ top >= 1 => DOMAIN Stage(frames, now, 1) = {Root(P, i)}
  /\ \A k \in 1 .. top : /\ Root(P, i) \in DOMAIN Stage(frames, now, k)
                         /\ Stage(frames, now, k)[Root(P, i)] = Member(P, i)
  /\ \A k \in 1 .. top - 1 :
       Stage(frames, now, k + 1) = Extend(Stage(frames, now, k), frames[k].need.name, Taken(frames, now, k))

(* Nothing is pending that was not asked for by what is chosen. *)
AreAskedFor(own, frames) ==
  \A k \in DOMAIN frames : frames[k].need \in AllNeeds(own, frames[k].chosen)
                           /\ Range(frames[k].pending) \subseteq AllNeeds(own, frames[k].chosen)

(* What goes with what was chosen before the frame is among what is left there,
   or it is not the pin that is tried first, or else it was taken. *)
IsTried(frames, now, top, k, S) ==
  Agrees(frames[k].chosen, S) =>
    \/ \E c \in frames[k].left : Same(c, S[frames[k].need.name])
    \/ frames[k].pin # None /\ S[frames[k].need.name].version # frames[k].pin
    \/ k < top /\ Same(Taken(frames, now, k), S[frames[k].need.name])

AreTried(P, found, i, frames, now, top) ==
  \A S : IsChoice(P, found, i, S) => \A k \in DOMAIN frames : IsTried(frames, now, top, k, S)

(* The pin a frame tries first is the lock's. *)
ArePinned(P, frames) ==
  \A k \in DOMAIN frames : frames[k].pin # None =>
    /\ frames[k].need.name \in DOMAIN P.pins /\ frames[k].pin = P.pins[frames[k].need.name].version

-----------------------------------------------------------------------------

(* What goes with what was chosen has all it needs. *)
LEMMA ChoicesMeet ==
  ASSUME NEW P, NEW found, NEW i, NEW S, IsChoice(P, found, i, S),
         NEW packages, Agrees(packages, S), NEW need \in AllNeeds(MemberNeeds(P, i), packages)
  PROVE  Met(need, S)
<1>1. need \in AllNeeds(MemberNeeds(P, i), S)
  <2>1. CASE need \in Range(MemberNeeds(P, i))
    BY <2>1 DEF AllNeeds
  <2>2. ASSUME NEW n \in DOMAIN packages, need \in Range(packages[n].needs)
        PROVE  need \in AllNeeds(MemberNeeds(P, i), S)
    <3>1. n \in DOMAIN S /\ Range(packages[n].needs) = Range(S[n].needs)
      BY DEF Agrees, Same
    <3>. QED BY <2>2, <3>1 DEF AllNeeds
  <2>. QED BY <2>1, <2>2 DEF AllNeeds
<1>. QED BY <1>1 DEF IsChoice

(* Where nothing goes with what was chosen last, it was chosen in vain. *)
LEMMA DeadEnd ==
  ASSUME NEW P, NEW found, NEW i, NEW frames, NEW now, NEW top \in Nat \ {0},
         AreLinked(P, i, frames, now, top), AreAskedFor(MemberNeeds(P, i), frames),
         AreTried(P, found, i, frames, now, top),
         \A S : IsChoice(P, found, i, S) => ~Agrees(Stage(frames, now, top), S),
         1 .. top - 1 \subseteq DOMAIN frames,
         NEW S, IsChoice(P, found, i, S)
  PROVE  top # 1 /\ \A k \in 1 .. top - 1 : IsTried(frames, now, top - 1, k, S)
<1>1. top # 1
  <2>1. SUFFICES ASSUME top = 1 PROVE FALSE
    OBVIOUS
  <2>2. 1 \in 1 .. top
    BY <2>1
  <2>3. DOMAIN Stage(frames, now, 1) = {Root(P, i)} /\ Stage(frames, now, 1)[Root(P, i)] = Member(P, i)
    BY <2>1, <2>2 DEF AreLinked
  <2>4. Agrees(Stage(frames, now, 1), S)
    BY <2>3 DEF Agrees, IsChoice
  <2>. QED BY <2>1, <2>4
<1>2. ASSUME NEW k \in 1 .. top - 1 PROVE IsTried(frames, now, top - 1, k, S)
  <2>1. k \in DOMAIN frames /\ k \in Nat /\ k < top /\ IsTried(frames, now, top, k, S)
    BY <1>2 DEF AreTried
  <2>2. CASE k < top - 1
    BY <2>1, <2>2 DEF IsTried
  <2>3. CASE k = top - 1
    <3>. DEFINE n == frames[k].need.name
    <3>1. Stage(frames, now, k + 1) = Extend(Stage(frames, now, k), n, Taken(frames, now, k)) /\ k + 1 = top
      BY <1>2, <2>1, <2>3 DEF AreLinked
    <3>2. Stage(frames, now, k) = frames[k].chosen
      BY <2>1 DEF Stage
    <3>3. ASSUME Agrees(frames[k].chosen, S), n \in DOMAIN S, Same(Taken(frames, now, k), S[n]) PROVE FALSE
      <4>1. Agrees(Extend(frames[k].chosen, n, Taken(frames, now, k)), S)
        BY <3>3 DEF Agrees, Extend
      <4>. QED BY <3>1, <3>2, <4>1
    <3>4. ASSUME Agrees(frames[k].chosen, S) PROVE n \in DOMAIN S
      BY <2>1, <3>4, ChoicesMeet DEF AreAskedFor, Met
    <3>. QED BY <2>1, <3>3, <3>4 DEF IsTried
  <2>. QED BY <2>1, <2>2, <2>3
<1>. QED BY <1>1, <1>2

(* The last of the frames is another, or there is none. *)
LEMMA LastFrame ==
  ASSUME NEW s, s \in Seq(Range(s)), s # <<>>, NEW x
  PROVE  /\ Len(s) \in Nat \ {0} /\ DOMAIN s = 1 .. Len(s) /\ Last(s) = s[Len(s)]
         /\ Len(Front(s)) = Len(s) - 1 /\ DOMAIN Front(s) = 1 .. Len(s) - 1
         /\ \A k \in 1 .. Len(s) - 1 : Front(s)[k] = s[k]
         /\ Len(Append(Front(s), x)) = Len(s) /\ DOMAIN Append(Front(s), x) = 1 .. Len(s)
         /\ Append(Front(s), x)[Len(s)] = x
         /\ \A k \in 1 .. Len(s) - 1 : Append(Front(s), x)[k] = s[k]
<1>1. PICK n \in Nat : Len(s) = n + 1 /\ Len(s) - 1 = n
  <2>1. Len(s) - 1 \in Nat /\ Len(s) = Len(s) - 1 + 1
    OBVIOUS
  <2>. QED BY <2>1
<1>2. DOMAIN s = 1 .. n + 1 /\ Last(s) = s[n + 1]
  BY <1>1 DEF Last
<1>3. PICK front : front = Front(s)
  OBVIOUS
<1>4. front = SubSeq(s, 1, n)
  BY <1>1, <1>3 DEF Front
<1>5. front \in Seq(Range(s) \cup {x}) /\ Len(front) = n /\ \A k \in 1 .. n : front[k] = s[k]
  <2>1. s \in Seq(Range(s) \cup {x})
    OBVIOUS
  <2>. QED BY <1>1, <1>4, <2>1
<1>6. DOMAIN front = 1 .. n
  BY <1>5
<1>7. /\ Len(Append(front, x)) = n + 1 /\ DOMAIN Append(front, x) = 1 .. n + 1
      /\ Append(front, x)[n + 1] = x /\ \A k \in 1 .. n : Append(front, x)[k] = front[k]
  BY <1>5
<1>8. Len(s) \in Nat \ {0}
  BY <1>1
<1>. QED BY <1>1, <1>2, <1>3, <1>5, <1>6, <1>7, <1>8

(* Where the links are the same. *)
LEMMA LinksAlike ==
  ASSUME NEW P, NEW i, NEW frames, NEW now, NEW top \in Nat, AreLinked(P, i, frames, now, top),
         NEW others, NEW then, NEW upto \in 0 .. top,
         \A k \in 1 .. upto : Stage(others, then, k) = Stage(frames, now, k),
         \A k \in 1 .. upto - 1 : others[k].need = frames[k].need
  PROVE  AreLinked(P, i, others, then, upto)
<1>1. upto >= 1 => DOMAIN Stage(others, then, 1) = {Root(P, i)}
  BY DEF AreLinked
<1>2. \A k \in 1 .. upto : /\ Root(P, i) \in DOMAIN Stage(others, then, k)
                            /\ Stage(others, then, k)[Root(P, i)] = Member(P, i)
  BY DEF AreLinked
<1>3. ASSUME NEW k \in 1 .. upto - 1
      PROVE  Stage(others, then, k + 1) = Extend(Stage(others, then, k), others[k].need.name, Taken(others, then, k))
  <2>1. k \in 1 .. upto /\ k + 1 \in 1 .. upto /\ k \in 1 .. top - 1
    OBVIOUS
  <2>2. /\ Stage(others, then, k) = Stage(frames, now, k)
        /\ Stage(others, then, k + 1) = Stage(frames, now, k + 1) /\ others[k].need = frames[k].need
    BY <2>1
  <2>3. Taken(others, then, k) = Taken(frames, now, k)
    BY <2>2 DEF Taken
  <2>. QED BY <2>1, <2>2, <2>3 DEF AreLinked
<1>. QED BY <1>1, <1>2, <1>3 DEF AreLinked

(* A name more was chosen. *)
LEMMA LinksGrow ==
  ASSUME NEW P, NEW i, NEW frames, NEW now, NEW top \in Nat \ {0}, AreLinked(P, i, frames, now, top),
         Stage(frames, now, top + 1) = Extend(Stage(frames, now, top), frames[top].need.name, Taken(frames, now, top)),
         frames[top].need.name \notin DOMAIN Stage(frames, now, top)
  PROVE  AreLinked(P, i, frames, now, top + 1)
<1>1. /\ Root(P, i) \in DOMAIN Stage(frames, now, top + 1)
      /\ Stage(frames, now, top + 1)[Root(P, i)] = Member(P, i)
  BY DEF AreLinked, Extend
<1>2. \A k \in 1 .. top + 1 : k \in 1 .. top \/ k = top + 1
  OBVIOUS
<1>3. \A k \in 1 .. top + 1 - 1 : k \in 1 .. top - 1 \/ k = top
  OBVIOUS
<1>. QED BY <1>1, <1>2, <1>3 DEF AreLinked

(* What was asked for before is asked for, however much is chosen. *)
LEMMA NeedsGrow ==
  ASSUME NEW own, NEW packages, NEW n, n \notin DOMAIN packages, NEW c
  PROVE  AllNeeds(own, packages) \cup Range(c.needs) \subseteq AllNeeds(own, Extend(packages, n, c))
<1>1. /\ DOMAIN Extend(packages, n, c) = DOMAIN packages \cup {n} /\ Extend(packages, n, c)[n] = c
      /\ \A m \in DOMAIN packages : Extend(packages, n, c)[m] = packages[m]
  BY DEF Extend
<1>. QED BY <1>1 DEF AllNeeds

(* What git is run for leaves fewer choices. *)
LEMMA FewerChoices ==
  ASSUME NEW P, NEW found, NEW after, found \subseteq after, NEW i, NEW S, IsChoice(P, after, i, S)
  PROVE  IsChoice(P, found, i, S)
BY DEF IsChoice, IsPossible, Asked

Way == IF status = "search" THEN Len(trail) + 1 ELSE Len(trail)

(* How the search of a truthful index stands. *)
IsSearched(P, found, i, frames, now, top) ==
  /\ AreUnique(found) /\ AreLinked(P, i, frames, now, top)
  /\ AreAskedFor(MemberNeeds(P, i), frames) /\ ArePinned(P, frames)
  /\ AreTried(P, found, i, frames, now, top)

SearchedInv ==
  IsHonest(problem) /\ status \in {"search", "back", "dead"} =>
    /\ IsSearched(problem, fetched, at, trail, chosen, Way)
    /\ status = "search" => Range(pending) \subseteq AllNeeds(Own, chosen)
    /\ status # "search" /\ trail = <<>> => \A S : ~IsChoice(problem, fetched, at, S)
    /\ status = "dead" => trail = <<>>

(* The frames of the search are a sequence. *)
LEMMA TrailIsFrames ==
  ASSUME ResolverInv
  PROVE  /\ trail \in Seq(Range(trail)) /\ Len(trail) \in Nat /\ DOMAIN trail = 1 .. Len(trail)
         /\ \A k \in DOMAIN trail : IsFrame(problem, Own, trail[k])
<1>1. trail \in Seq(Range(trail)) /\ \A f \in Range(trail) : IsFrame(problem, Own, f)
  BY DEF ResolverInv, TrailInv, IsTrail
<1>. QED BY <1>1 DEF Range

(* A need that is met already. *)
LEMMA AgreeSearches == ResolverInv /\ SearchedInv /\ Agree => SearchedInv'
<1>. SUFFICES ASSUME ResolverInv, SearchedInv, Agree PROVE SearchedInv'
  OBVIOUS
<1>1. /\ status = "search" /\ pending # <<>> /\ pending' = Tail(pending)
      /\ UNCHANGED <<problem, at, status, chosen, trail, fetched>>
  BY DEF Agree, Searching
<1>2. Range(Tail(pending)) \subseteq Range(pending)
  BY <1>1, RangeOfTail DEF ResolverInv, SearchInv, AreNeeds
<1>3. Way' = Way /\ Own' = Own
  BY <1>1 DEF Way, Own
<1>. QED BY <1>1, <1>2, <1>3 DEF SearchedInv

(* What goes with what is chosen has all that is pending, and so what does not
   fit leaves nothing that does. *)
LEMMA DisagreeSearches == ResolverInv /\ SearchedInv /\ Disagree => SearchedInv'
<1>. SUFFICES ASSUME ResolverInv, SearchedInv, Disagree, (IsHonest(problem) /\ status \in {"search", "back", "dead"})'
              PROVE  SearchedInv'
  BY DEF SearchedInv
<1>. DEFINE need == Head(pending)
            said == Options(problem, need, FALSE, fetched)
<1>1. /\ status = "search" /\ pending # <<>> /\ need.name \in DOMAIN chosen /\ ~Fits(need)
      /\ status' = (IF said.ok THEN "back" ELSE "error") /\ fetched' = fetched \cup said.fetches
      /\ UNCHANGED <<problem, at, pending, chosen, trail>>
  BY DEF Disagree, Searching
<1>2. said.ok /\ status' = "back"
  BY <1>1
<1>3. IsHonest(problem) /\ Way = Len(trail) + 1 /\ Way' = Len(trail) /\ Own' = Own
  BY <1>1, <1>2 DEF Way, Own
<1>4. /\ IsSearched(problem, fetched, at, trail, chosen, Len(trail) + 1)
      /\ Range(pending) \subseteq AllNeeds(Own, chosen)
  BY <1>1, <1>3 DEF SearchedInv
<1>5. /\ IsNeed(need, URLs(problem)) /\ need \in Range(pending)
  BY <1>1, HeadIsNeed DEF ResolverInv, SearchInv
<1>6. AreUnique(fetched')
  <2>1. PICK usePin : usePin = FALSE
    OBVIOUS
  <2>2. PICK offer : offer = said
    OBVIOUS
  <2>3. /\ IsWorld(problem) /\ AreCommits(problem, fetched) /\ AreUnique(fetched) /\ offer.ok
        /\ offer = Options(problem, need, usePin, fetched) /\ fetched' = fetched \cup offer.fetches
    BY <1>1, <1>2, <1>4, <2>1, <2>2 DEF ResolverInv, FetchedInv, IsSearched
  <2>. HIDE DEF need, said
  <2>4. usePin \in BOOLEAN
    BY <2>1
  <2>. QED BY <1>3, <1>5, <2>3, <2>4, OffersFind
<1>. HIDE DEF need, said
<1>7. ASSUME NEW S, IsChoice(problem, fetched', at, S)
      PROVE  IsChoice(problem, fetched, at, S) /\ ~Agrees(chosen, S)
  <2>1. IsChoice(problem, fetched, at, S)
    BY <1>1, <1>7, FewerChoices
  <2>2. ASSUME Agrees(chosen, S) PROVE FALSE
    <3>1. Met(need, S)
      BY <1>4, <1>5, <2>1, <2>2, ChoicesMeet DEF Own
    <3>2. Same(chosen[need.name], S[need.name])
      BY <1>1, <2>2 DEF Agrees
    <3>. QED BY <1>1, <3>1, <3>2 DEF Met, Fits, Same
  <2>. QED BY <2>1, <2>2
<1>8. trail \in Seq(Range(trail)) /\ Len(trail) \in Nat /\ DOMAIN trail = 1 .. Len(trail)
  BY TrailIsFrames
<1>9. AreLinked(problem, at, trail, chosen, Len(trail))
  <2>1. Len(trail) \in 0 .. Len(trail) + 1 /\ Len(trail) + 1 \in Nat
    BY <1>8
  <2>. QED BY <1>4, <2>1, LinksAlike DEF IsSearched
<1>10. ASSUME NEW S, IsChoice(problem, fetched', at, S)
       PROVE  trail # <<>> /\ \A k \in DOMAIN trail : IsTried(trail, chosen, Len(trail), k, S)
  <2>1. PICK top : top = Len(trail) + 1
    OBVIOUS
  <2>2. Stage(trail, chosen, top) = chosen
    BY <1>8, <2>1 DEF Stage
  <2>3. /\ AreLinked(problem, at, trail, chosen, top) /\ AreAskedFor(MemberNeeds(problem, at), trail)
        /\ AreTried(problem, fetched', at, trail, chosen, top)
    <3>1. AreTried(problem, fetched, at, trail, chosen, top)
      BY <1>4, <2>1 DEF IsSearched
    <3>. QED BY <1>4, <1>7, <2>1, <3>1 DEF IsSearched, AreTried
  <2>4. top \in Nat \ {0} /\ 1 .. top - 1 \subseteq DOMAIN trail /\ top - 1 = Len(trail)
    BY <1>8, <2>1
  <2>5. \A T : IsChoice(problem, fetched', at, T) => ~Agrees(Stage(trail, chosen, top), T)
    BY <1>7, <2>2
  <2>6. top # 1 /\ \A k \in 1 .. top - 1 : IsTried(trail, chosen, top - 1, k, S)
    BY <1>10, <2>3, <2>4, <2>5, DeadEnd
  <2>. QED BY <1>8, <2>4, <2>6
<1>11. AreTried(problem, fetched', at, trail, chosen, Len(trail))
  BY <1>10 DEF AreTried
<1>12. IsSearched(problem, fetched', at, trail, chosen, Len(trail))
  BY <1>4, <1>6, <1>9, <1>11 DEF IsSearched
<1>. QED BY <1>1, <1>2, <1>3, <1>10, <1>12 DEF SearchedInv

(* No candidate is left, and so nothing goes with what was chosen before. *)
LEMMA ExhaustSearches == ResolverInv /\ SearchedInv /\ Exhaust => SearchedInv'
<1>. SUFFICES ASSUME ResolverInv, SearchedInv, Exhaust, (IsHonest(problem) /\ status \in {"search", "back", "dead"})'
              PROVE  SearchedInv'
  BY DEF SearchedInv
<1>1. /\ status = "back" /\ trail # <<>> /\ Last(trail).left = {} /\ Last(trail).pin = None
      /\ trail' = Front(trail) /\ UNCHANGED <<problem, at, status, pending, chosen, fetched>>
  BY DEF Exhaust, Backing
<1>2. trail \in Seq(Range(trail)) /\ DOMAIN trail = 1 .. Len(trail)
  BY TrailIsFrames
<1>3. PICK top : top = Len(trail)
  OBVIOUS
<1>4. /\ top \in Nat \ {0} /\ Last(trail) = trail[top] /\ Len(trail') = top - 1 /\ DOMAIN trail' = 1 .. top - 1
      /\ \A k \in 1 .. top - 1 : trail'[k] = trail[k]
  BY <1>1, <1>2, <1>3, LastFrame
<1>5. IsHonest(problem) /\ Way = top /\ Way' = top - 1
  BY <1>1, <1>3, <1>4 DEF Way
<1>6. IsSearched(problem, fetched, at, trail, chosen, top)
  BY <1>1, <1>5 DEF SearchedInv
<1>7. ASSUME NEW S, IsChoice(problem, fetched, at, S) PROVE ~Agrees(Stage(trail, chosen, top), S)
  <2>1. IsTried(trail, chosen, top, top, S) /\ top \in DOMAIN trail
    BY <1>2, <1>3, <1>4, <1>6, <1>7 DEF IsSearched, AreTried
  <2>2. Stage(trail, chosen, top) = trail[top].chosen
    BY <2>1 DEF Stage
  <2>. QED BY <1>1, <1>4, <2>1, <2>2 DEF IsTried
<1>8. \A k \in 1 .. top - 1 : k \in DOMAIN trail /\ Stage(trail', chosen, k) = Stage(trail, chosen, k)
  BY <1>2, <1>3, <1>4 DEF Stage
<1>9. AreLinked(problem, at, trail', chosen, top - 1)
  <2>1. top - 1 \in 0 .. top /\ top \in Nat
    BY <1>4
  <2>2. \A k \in 1 .. top - 1 - 1 : trail'[k].need = trail[k].need
    BY <1>4
  <2>. QED BY <1>6, <1>8, <2>1, <2>2, LinksAlike DEF IsSearched
<1>10. ASSUME NEW S, IsChoice(problem, fetched, at, S)
       PROVE  top # 1 /\ \A k \in DOMAIN trail' : IsTried(trail', chosen, top - 1, k, S)
  <2>1. top # 1 /\ \A k \in 1 .. top - 1 : IsTried(trail, chosen, top - 1, k, S)
    <3>1. 1 .. top - 1 \subseteq DOMAIN trail
      BY <1>8
    <3>. QED BY <1>4, <1>6, <1>7, <1>10, <3>1, DeadEnd DEF IsSearched
  <2>2. ASSUME NEW k \in 1 .. top - 1 PROVE IsTried(trail', chosen, top - 1, k, S)
    <3>1. k < top - 1 => Taken(trail', chosen, k) = Taken(trail, chosen, k)
      <4>1. SUFFICES ASSUME k < top - 1 PROVE Taken(trail', chosen, k) = Taken(trail, chosen, k)
        OBVIOUS
      <4>2. k + 1 \in 1 .. top - 1
        BY <1>4, <4>1
      <4>. QED BY <1>4, <1>8, <4>2 DEF Taken
    <3>. QED BY <1>4, <2>1, <3>1 DEF IsTried
  <2>. QED BY <1>4, <2>1, <2>2
<1>11. IsSearched(problem, fetched, at, trail', chosen, top - 1)
  <2>1. AreAskedFor(MemberNeeds(problem, at), trail') /\ ArePinned(problem, trail')
    BY <1>4, <1>6, <1>8 DEF IsSearched, AreAskedFor, ArePinned
  <2>. QED BY <1>6, <1>9, <1>10, <2>1 DEF IsSearched, AreTried
<1>12. trail' = <<>> => top = 1
  BY <1>4
<1>. QED BY <1>1, <1>5, <1>10, <1>11, <1>12 DEF SearchedInv

(* Where nothing is left to go back to, nothing goes with the member. *)
LEMMA GiveUpSearches == ResolverInv /\ SearchedInv /\ GiveUp => SearchedInv'
<1>. SUFFICES ASSUME ResolverInv, SearchedInv, GiveUp PROVE SearchedInv'
  OBVIOUS
<1>1. /\ status = "back" /\ trail = <<>> /\ status' = "dead"
      /\ UNCHANGED <<problem, at, chosen, trail, fetched>>
  BY DEF GiveUp
<1>2. Way' = Way
  BY <1>1 DEF Way
<1>. QED BY <1>1, <1>2 DEF SearchedInv

(* A frame more. *)
LEMMA FrameMore ==
  ASSUME NEW s, s \in Seq(Range(s)), NEW x, NEW top, top = Len(s) + 1
  PROVE  /\ top \in Nat \ {0} /\ DOMAIN s = 1 .. top - 1
         /\ Len(Append(s, x)) = top /\ DOMAIN Append(s, x) = 1 .. top
         /\ Append(s, x)[top] = x /\ \A k \in 1 .. top - 1 : Append(s, x)[k] = s[k]
<1>1. PICK n \in Nat : Len(s) = n
  OBVIOUS
<1>2. s \in Seq(Range(s) \cup {x})
  OBVIOUS
<1>3. /\ Len(Append(s, x)) = n + 1 /\ DOMAIN Append(s, x) = 1 .. n + 1 /\ DOMAIN s = 1 .. n
      /\ Append(s, x)[n + 1] = x /\ \A k \in 1 .. n : Append(s, x)[k] = s[k]
  BY <1>1, <1>2
<1>4. top = n + 1 /\ top - 1 = n
  BY <1>1
<1>. QED BY <1>3, <1>4

(* What is offered for a need and goes with what was chosen is there to be tried. *)
LEMMA OfferedAreTried ==
  ASSUME ResolverInv, IsHonest(problem), NEW need, IsNeed(need, URLs(problem)), NEW usePin \in BOOLEAN,
         AreUnique(fetched), NEW offer, offer = Options(problem, need, usePin, fetched), offer.ok,
         NEW after, after = fetched \cup offer.fetches,
         NEW S, IsChoice(problem, after, at, S), Met(need, S), need.name # Root(problem, at)
  PROVE  \/ \E c \in Matching(need, offer.all) : Same(c, S[need.name])
         \/ offer.pinned /\ S[need.name].version # problem.pins[need.name].version
         \/ ~usePin /\ IsLocked(problem, need.name, S[need.name].source, S[need.name].version)
<1>. DEFINE p == S[need.name]
<1>1. IsPossible(problem, after, need.name, p)
  BY DEF IsChoice, Met
<1>2. Matches(need.requirement, p.version) /\ WantMatches(need.want, p.source)
  BY DEF Met
<1>3. IsWorld(problem) /\ AreCommits(problem, fetched)
  BY DEF ResolverInv, FetchedInv
<1>4. need.name \in DOMAIN problem.precise => p.version = problem.precise[need.name]
  BY <1>1 DEF IsPossible, IsSomewhere
<1>. HIDE DEF p
<1>5. \/ Finds(offer, p)
      \/ offer.pinned /\ p.version # problem.pins[need.name].version
      \/ ~usePin /\ IsLocked(problem, need.name, p.source, p.version)
  BY <1>1, <1>2, <1>3, OffersFind
<1>6. ASSUME NEW c \in offer.all, Same(c, p) PROVE c \in Matching(need, offer.all)
  BY <1>2, <1>4, <1>6 DEF Matching, Same
<1>. QED BY <1>5, <1>6 DEF Finds, p

(* What a frame is opened with is all that goes with what was chosen. *)
LEMMA ChooseSearches == ResolverInv /\ SearchedInv /\ Choose => SearchedInv'
<1>. SUFFICES ASSUME ResolverInv, SearchedInv, Choose, (IsHonest(problem) /\ status \in {"search", "back", "dead"})'
              PROVE  SearchedInv'
  BY DEF SearchedInv
<1>1. PICK need : need = Head(pending)
  OBVIOUS
<1>2. PICK offer : offer = Options(problem, need, TRUE, fetched)
  OBVIOUS
<1>3. PICK frame : frame = Frame(Matching(need, offer.all), IF offer.pinned THEN problem.pins[need.name].version ELSE None)
  OBVIOUS
<1>4. /\ status = "search" /\ pending # <<>> /\ need.name \notin DOMAIN chosen
      /\ status' = (IF offer.ok THEN "back" ELSE "error") /\ fetched' = fetched \cup offer.fetches
      /\ trail' = (IF ~offer.ok THEN trail ELSE Append(trail, frame))
      /\ UNCHANGED <<problem, at, pending, chosen>>
  BY <1>1, <1>2, <1>3 DEF Choose, Searching
<1>5. offer.ok /\ status' = "back" /\ trail' = Append(trail, frame)
  BY <1>4
<1>6. PICK top : top = Len(trail) + 1
  OBVIOUS
<1>7. /\ frame.need = need /\ frame.left = Matching(need, offer.all) /\ frame.chosen = chosen
      /\ frame.pending = Tail(pending)
      /\ frame.pin = IF offer.pinned THEN problem.pins[need.name].version ELSE None
  BY <1>1, <1>3 DEF Frame
<1>8. /\ top \in Nat \ {0} /\ DOMAIN trail = 1 .. top - 1 /\ Len(trail') = top /\ DOMAIN trail' = 1 .. top
      /\ trail'[top] = frame /\ \A k \in 1 .. top - 1 : trail'[k] = trail[k]
  BY <1>5, <1>6, FrameMore, TrailIsFrames
<1>9. IsHonest(problem) /\ Way = top /\ Way' = top
  BY <1>4, <1>5, <1>6, <1>8 DEF Way
<1>10. IsSearched(problem, fetched, at, trail, chosen, top) /\ Range(pending) \subseteq AllNeeds(Own, chosen)
  BY <1>4, <1>9 DEF SearchedInv
<1>11. /\ IsNeed(need, URLs(problem)) /\ Range(pending) = {need} \cup Range(Tail(pending))
  BY <1>1, <1>4, HeadIsNeed DEF ResolverInv, SearchInv
<1>12. PICK usePin \in BOOLEAN : usePin = TRUE
  OBVIOUS
<1>13. offer = Options(problem, need, usePin, fetched)
  BY <1>2, <1>12
<1>14. IsWorld(problem) /\ AreCommits(problem, fetched) /\ AreUnique(fetched)
  BY <1>10 DEF ResolverInv, FetchedInv, IsSearched
<1>15. /\ AreUnique(fetched')
       /\ offer.pinned => need.name \in DOMAIN problem.pins /\ problem.pins[need.name].version # None
  <2>1. /\ AreUnique(fetched')
        /\ offer.pinned => ApplicablePin(problem, need) /\ IsVersion(problem.pins[need.name].version)
    BY <1>4, <1>5, <1>9, <1>11, <1>13, <1>14, OffersFind
  <2>. QED BY <2>1, NoneAssumption DEF ApplicablePin
<1>16. Stage(trail, chosen, top) = chosen
  BY <1>8 DEF Stage
<1>17. \A k \in 1 .. top : Stage(trail', chosen, k) = Stage(trail, chosen, k)
  <2>1. ASSUME NEW k \in 1 .. top PROVE Stage(trail', chosen, k) = Stage(trail, chosen, k)
    <3>1. CASE k = top
      BY <1>7, <1>8, <1>16, <3>1 DEF Stage
    <3>2. CASE k \in 1 .. top - 1
      BY <1>8, <3>2 DEF Stage
    <3>. QED BY <1>8, <3>1, <3>2
  <2>. QED BY <2>1
<1>18. AreLinked(problem, at, trail', chosen, top)
  <2>1. top \in 0 .. top /\ top \in Nat
    BY <1>8
  <2>2. \A k \in 1 .. top - 1 : trail'[k].need = trail[k].need
    BY <1>8
  <2>. QED BY <1>10, <1>17, <2>1, <2>2, LinksAlike DEF IsSearched
<1>19. need.name # Root(problem, at)
  <2>1. top \in 1 .. top
    BY <1>8
  <2>2. Root(problem, at) \in DOMAIN Stage(trail, chosen, top)
    BY <1>10, <2>1 DEF IsSearched, AreLinked
  <2>. QED BY <1>4, <1>16, <2>2
<1>20. ASSUME NEW S, IsChoice(problem, fetched', at, S), Agrees(chosen, S)
       PROVE  \/ \E c \in frame.left : Same(c, S[need.name])
              \/ frame.pin # None /\ S[need.name].version # frame.pin
  <2>1. Met(need, S)
    BY <1>10, <1>11, <1>20, ChoicesMeet DEF Own
  <2>2. \/ \E c \in Matching(need, offer.all) : Same(c, S[need.name])
        \/ offer.pinned /\ S[need.name].version # problem.pins[need.name].version
        \/ ~usePin /\ IsLocked(problem, need.name, S[need.name].source, S[need.name].version)
    BY <1>4, <1>5, <1>9, <1>11, <1>13, <1>14, <1>19, <1>20, <2>1, OfferedAreTried
  <2>. QED BY <1>7, <1>12, <1>15, <2>2
<1>21. ASSUME NEW S, IsChoice(problem, fetched', at, S), NEW k \in DOMAIN trail'
       PROVE  IsTried(trail', chosen, top, k, S)
  <2>1. CASE k = top
    BY <1>7, <1>8, <1>20, <1>21, <2>1 DEF IsTried
  <2>2. CASE k \in 1 .. top - 1
    <3>1. IsChoice(problem, fetched, at, S)
      BY <1>4, <1>21, FewerChoices
    <3>2. IsTried(trail, chosen, top, k, S)
      BY <1>8, <1>10, <2>2, <3>1 DEF IsSearched, AreTried
    <3>3. k + 1 \in 1 .. top
      BY <1>8, <2>2
    <3>4. Taken(trail', chosen, k) = Taken(trail, chosen, k)
      BY <1>8, <1>17, <2>2, <3>3 DEF Taken
    <3>. QED BY <1>8, <2>2, <3>2, <3>4 DEF IsTried
  <2>. QED BY <1>8, <2>1, <2>2
<1>22. AreAskedFor(MemberNeeds(problem, at), trail')
  <2>1. ASSUME NEW k \in DOMAIN trail'
        PROVE  /\ trail'[k].need \in AllNeeds(MemberNeeds(problem, at), trail'[k].chosen)
               /\ Range(trail'[k].pending) \subseteq AllNeeds(MemberNeeds(problem, at), trail'[k].chosen)
    <3>1. CASE k = top
      BY <1>7, <1>8, <1>10, <1>11, <3>1 DEF Own
    <3>2. CASE k \in 1 .. top - 1
      BY <1>8, <1>10, <3>2 DEF IsSearched, AreAskedFor
    <3>. QED BY <1>8, <3>1, <3>2
  <2>. QED BY <2>1 DEF AreAskedFor
<1>23. ArePinned(problem, trail')
  <2>1. ASSUME NEW k \in DOMAIN trail', trail'[k].pin # None
        PROVE  /\ trail'[k].need.name \in DOMAIN problem.pins
               /\ trail'[k].pin = problem.pins[trail'[k].need.name].version
    <3>1. CASE k = top
      BY <1>7, <1>8, <1>15, <2>1, <3>1
    <3>2. CASE k \in 1 .. top - 1
      BY <1>8, <1>10, <2>1, <3>2 DEF IsSearched, ArePinned
    <3>. QED BY <1>8, <3>1, <3>2
  <2>. QED BY <2>1 DEF ArePinned
<1>24. IsSearched(problem, fetched', at, trail', chosen, top)
  BY <1>15, <1>18, <1>21, <1>22, <1>23 DEF IsSearched, AreTried
<1>25. trail' # <<>>
  BY <1>8
<1>. QED BY <1>4, <1>5, <1>9, <1>24, <1>25 DEF SearchedInv

(* The newest of what is left is taken, and no longer among it. *)
LEMMA TryNextSearches == ResolverInv /\ SearchedInv /\ TryNext => SearchedInv'
<1>. SUFFICES ASSUME ResolverInv, SearchedInv, TryNext, (IsHonest(problem) /\ status \in {"search", "back", "dead"})'
              PROVE  SearchedInv'
  BY DEF SearchedInv
<1>1. PICK last : last = Last(trail)
  OBVIOUS
<1>2. PICK c \in last.left : /\ trail' = Append(Front(trail), [last EXCEPT !.left = @ \ {c}])
                             /\ pending' = last.pending \o c.needs
                             /\ chosen' = Extend(last.chosen, last.need.name, c)
  BY <1>1 DEF TryNext
<1>3. status = "back" /\ trail # <<>> /\ status' = "search" /\ UNCHANGED <<problem, at, fetched>>
  BY DEF TryNext, Backing
<1>4. PICK next : next = [last EXCEPT !.left = @ \ {c}]
  OBVIOUS
<1>5. PICK top : top = Len(trail)
  OBVIOUS
<1>6. /\ top \in Nat \ {0} /\ DOMAIN trail = 1 .. top /\ last = trail[top]
      /\ Len(trail') = top /\ DOMAIN trail' = 1 .. top /\ trail'[top] = next
      /\ \A k \in 1 .. top - 1 : trail'[k] = trail[k]
  <2>1. trail' = Append(Front(trail), next)
    BY <1>2, <1>4
  <2>2. trail \in Seq(Range(trail)) /\ trail # <<>>
    BY <1>3, TrailIsFrames
  <2>. QED BY <1>1, <1>5, <2>1, <2>2, LastFrame
<1>7. IsHonest(problem) /\ Way = top /\ Way' = top + 1 /\ Own' = Own
  BY <1>3, <1>5, <1>6 DEF Way, Own
<1>8. IsSearched(problem, fetched, at, trail, chosen, top)
  BY <1>3, <1>7 DEF SearchedInv
<1>9. IsFrame(problem, Own, last)
  <2>1. top \in DOMAIN trail
    BY <1>6
  <2>. QED BY <1>6, <2>1, TrailIsFrames
<1>10. /\ next.need = last.need /\ next.left = last.left \ {c} /\ next.pin = last.pin
       /\ next.pending = last.pending /\ next.chosen = last.chosen
  BY <1>4, <1>9 DEF IsFrame
<1>11. \A k \in 1 .. top : Stage(trail', chosen', k) = Stage(trail, chosen, k) /\ trail'[k].need = trail[k].need
  <2>1. ASSUME NEW k \in 1 .. top
        PROVE  Stage(trail', chosen', k) = Stage(trail, chosen, k) /\ trail'[k].need = trail[k].need
    <3>1. CASE k = top
      BY <1>6, <1>10, <3>1 DEF Stage
    <3>2. CASE k \in 1 .. top - 1
      BY <1>6, <3>2 DEF Stage
    <3>. QED BY <1>6, <3>1, <3>2
  <2>. QED BY <2>1
<1>12. Stage(trail', chosen', top + 1) = chosen' /\ Stage(trail', chosen', top) = last.chosen
       /\ trail'[top].need = last.need
  BY <1>6, <1>10 DEF Stage
<1>13. Taken(trail', chosen', top) = c
  BY <1>2, <1>12 DEF Taken, Extend
<1>14. AreLinked(problem, at, trail', chosen', top + 1)
  <2>1. top \in 0 .. top /\ top \in Nat
    BY <1>6
  <2>2. AreLinked(problem, at, trail', chosen', top)
    BY <1>8, <1>11, <2>1, LinksAlike DEF IsSearched
  <2>3. Stage(trail', chosen', top + 1)
        = Extend(Stage(trail', chosen', top), trail'[top].need.name, Taken(trail', chosen', top))
    BY <1>2, <1>12, <1>13
  <2>4. trail'[top].need.name \notin DOMAIN Stage(trail', chosen', top)
    BY <1>9, <1>12 DEF IsFrame
  <2>. QED BY <1>6, <2>2, <2>3, <2>4, LinksGrow
<1>15. ASSUME NEW S, IsChoice(problem, fetched, at, S), NEW k \in DOMAIN trail'
       PROVE  IsTried(trail', chosen', top + 1, k, S)
  <2>1. IsTried(trail, chosen, top, k, S)
    BY <1>6, <1>8, <1>15 DEF IsSearched, AreTried
  <2>2. CASE k = top
    BY <1>6, <1>10, <1>13, <2>1, <2>2 DEF IsTried
  <2>3. CASE k \in 1 .. top - 1
    <3>1. k + 1 \in 1 .. top /\ k \in 1 .. top
      BY <1>6, <2>3
    <3>2. Taken(trail', chosen', k) = Taken(trail, chosen, k)
      BY <1>11, <3>1 DEF Taken
    <3>. QED BY <1>6, <2>1, <2>3, <3>2 DEF IsTried
  <2>. QED BY <1>6, <2>2, <2>3
<1>16. \A k \in DOMAIN trail' : /\ trail'[k].need = trail[k].need /\ trail'[k].pin = trail[k].pin
                                /\ trail'[k].pending = trail[k].pending /\ trail'[k].chosen = trail[k].chosen
  <2>1. ASSUME NEW k \in DOMAIN trail'
        PROVE  /\ trail'[k].need = trail[k].need /\ trail'[k].pin = trail[k].pin
               /\ trail'[k].pending = trail[k].pending /\ trail'[k].chosen = trail[k].chosen
    <3>1. CASE k = top
      BY <1>6, <1>10, <3>1
    <3>2. CASE k \in 1 .. top - 1
      BY <1>6, <3>2
    <3>. QED BY <1>6, <3>1, <3>2
  <2>. QED BY <2>1
<1>17. AreAskedFor(MemberNeeds(problem, at), trail') /\ ArePinned(problem, trail')
  BY <1>6, <1>8, <1>16 DEF IsSearched, AreAskedFor, ArePinned
<1>18. Range(pending') \subseteq AllNeeds(Own, chosen')
  <2>1. Range(last.pending) \subseteq AllNeeds(Own, last.chosen)
    <3>1. top \in DOMAIN trail
      BY <1>6
    <3>. QED BY <1>6, <1>8, <3>1 DEF IsSearched, AreAskedFor, Own
  <2>2. Range(pending') = Range(last.pending) \cup Range(c.needs)
    <3>1. AreNeeds(last.pending, URLs(problem)) /\ AreNeeds(c.needs, URLs(problem))
      BY <1>9 DEF IsFrame, IsCandidate, IsChosen
    <3>. QED BY <1>2, <3>1, RangeOfJoined DEF AreNeeds
  <2>3. AllNeeds(Own, last.chosen) \cup Range(c.needs) \subseteq AllNeeds(Own, chosen')
    BY <1>2, <1>9, NeedsGrow DEF IsFrame
  <2>. QED BY <2>1, <2>2, <2>3
<1>19. IsSearched(problem, fetched, at, trail', chosen', top + 1)
  BY <1>8, <1>14, <1>15, <1>17 DEF IsSearched, AreTried
<1>. QED BY <1>3, <1>7, <1>18, <1>19 DEF SearchedInv

(* The pin was all that was tried, and all the others are there now. *)
LEMMA LeavePinSearches == ResolverInv /\ SearchedInv /\ LeavePin => SearchedInv'
<1>. SUFFICES ASSUME ResolverInv, SearchedInv, LeavePin, (IsHonest(problem) /\ status \in {"search", "back", "dead"})'
              PROVE  SearchedInv'
  BY DEF SearchedInv
<1>1. PICK last : last = Last(trail)
  OBVIOUS
<1>2. PICK need : need = last.need
  OBVIOUS
<1>3. PICK all : all = Options(problem, need, FALSE, fetched)
  OBVIOUS
<1>4. PICK left : left = Matching(need, {c \in all.all : c.version # last.pin})
  OBVIOUS
<1>5. PICK next : next = [last EXCEPT !.pin = None, !.left = left]
  OBVIOUS
<1>6. /\ status = "back" /\ trail # <<>> /\ last.left = {} /\ last.pin # None
      /\ status' = (IF all.ok THEN "back" ELSE "error") /\ fetched' = fetched \cup all.fetches
      /\ trail' = Append(Front(trail), next)
      /\ UNCHANGED <<problem, at, pending, chosen>>
  BY <1>1, <1>2, <1>3, <1>4, <1>5 DEF LeavePin, Backing
<1>7. all.ok /\ status' = "back"
  BY <1>6
<1>8. PICK top : top = Len(trail)
  OBVIOUS
<1>9. /\ top \in Nat \ {0} /\ DOMAIN trail = 1 .. top /\ last = trail[top]
      /\ Len(trail') = top /\ DOMAIN trail' = 1 .. top /\ trail'[top] = next
      /\ \A k \in 1 .. top - 1 : trail'[k] = trail[k]
  <2>1. trail \in Seq(Range(trail)) /\ trail # <<>>
    BY <1>6, TrailIsFrames
  <2>. QED BY <1>1, <1>6, <1>8, <2>1, LastFrame
<1>10. IsHonest(problem) /\ Way = top /\ Way' = top
  BY <1>6, <1>7, <1>8, <1>9 DEF Way
<1>11. IsSearched(problem, fetched, at, trail, chosen, top)
  BY <1>6, <1>10 DEF SearchedInv
<1>12. top \in DOMAIN trail /\ IsFrame(problem, Own, last)
  <2>1. top \in DOMAIN trail
    BY <1>9
  <2>. QED BY <1>9, <2>1, TrailIsFrames
<1>13. /\ next.need = need /\ next.left = left /\ next.pin = None
       /\ next.pending = last.pending /\ next.chosen = last.chosen
  BY <1>2, <1>5, <1>12 DEF IsFrame
<1>14. \A k \in 1 .. top : /\ trail'[k].need = trail[k].need /\ trail'[k].pending = trail[k].pending
                           /\ trail'[k].chosen = trail[k].chosen
  <2>1. ASSUME NEW k \in 1 .. top
        PROVE  /\ trail'[k].need = trail[k].need /\ trail'[k].pending = trail[k].pending
               /\ trail'[k].chosen = trail[k].chosen
    <3>1. CASE k = top
      BY <1>2, <1>9, <1>13, <3>1
    <3>2. CASE k \in 1 .. top - 1
      BY <1>9, <3>2
    <3>. QED BY <1>9, <3>1, <3>2
  <2>. QED BY <2>1
<1>15. \A k \in 1 .. top : Stage(trail', chosen, k) = Stage(trail, chosen, k)
  BY <1>9, <1>14 DEF Stage
<1>16. AreLinked(problem, at, trail', chosen, top)
  <2>1. top \in 0 .. top /\ top \in Nat
    BY <1>9
  <2>2. \A k \in 1 .. top - 1 : trail'[k].need = trail[k].need
    BY <1>9, <1>14
  <2>3. AreLinked(problem, at, trail, chosen, top)
    BY <1>11 DEF IsSearched
  <2>. QED BY <1>15, <2>1, <2>2, <2>3, LinksAlike
<1>17. AreAskedFor(MemberNeeds(problem, at), trail')
  BY <1>9, <1>11, <1>14 DEF IsSearched, AreAskedFor
<1>18. ArePinned(problem, trail')
  <2>1. ASSUME NEW k \in DOMAIN trail', trail'[k].pin # None
        PROVE  /\ trail'[k].need.name \in DOMAIN problem.pins
               /\ trail'[k].pin = problem.pins[trail'[k].need.name].version
    <3>1. k \in 1 .. top - 1
      <4>1. k # top
        BY <1>9, <1>13, <2>1
      <4>. QED BY <1>9, <4>1
    <3>. QED BY <1>9, <1>11, <2>1, <3>1 DEF IsSearched, ArePinned
  <2>. QED BY <2>1 DEF ArePinned
<1>19. IsNeed(need, URLs(problem)) /\ need.name \notin DOMAIN last.chosen
  BY <1>2, <1>12 DEF IsFrame
<1>20. PICK usePin \in BOOLEAN : usePin = FALSE
  OBVIOUS
<1>21. all = Options(problem, need, usePin, fetched)
  BY <1>3, <1>20
<1>22. IsWorld(problem) /\ AreCommits(problem, fetched) /\ AreUnique(fetched)
  BY <1>11 DEF ResolverInv, FetchedInv, IsSearched
<1>23. AreUnique(fetched') /\ ~all.pinned
  BY <1>6, <1>7, <1>10, <1>19, <1>20, <1>21, <1>22, OffersFind
<1>24. need.name # Root(problem, at)
  <2>1. top \in 1 .. top
    BY <1>9
  <2>2. Root(problem, at) \in DOMAIN Stage(trail, chosen, top)
    BY <1>11, <2>1 DEF IsSearched, AreLinked
  <2>. QED BY <1>9, <1>12, <1>19, <2>2 DEF Stage
<1>25. ASSUME NEW S, IsChoice(problem, fetched', at, S), Agrees(last.chosen, S)
       PROVE  \E c \in left : Same(c, S[need.name])
  <2>1. IsChoice(problem, fetched, at, S)
    BY <1>6, <1>25, FewerChoices
  <2>2. need \in AllNeeds(MemberNeeds(problem, at), last.chosen)
    BY <1>2, <1>9, <1>11, <1>12 DEF IsSearched, AreAskedFor
  <2>3. Met(need, S)
    BY <1>25, <2>1, <2>2, ChoicesMeet
  <2>4. S[need.name].version # last.pin
    <3>1. IsTried(trail, chosen, top, top, S)
      BY <1>11, <1>12, <2>1 DEF IsSearched, AreTried
    <3>. QED BY <1>2, <1>6, <1>9, <1>25, <3>1 DEF IsTried
  <2>5. last.pin = problem.pins[need.name].version
    BY <1>2, <1>6, <1>9, <1>11, <1>12 DEF IsSearched, ArePinned
  <2>6. \/ \E c \in Matching(need, all.all) : Same(c, S[need.name])
        \/ all.pinned /\ S[need.name].version # problem.pins[need.name].version
        \/ ~usePin /\ IsLocked(problem, need.name, S[need.name].source, S[need.name].version)
    BY <1>6, <1>7, <1>10, <1>19, <1>21, <1>22, <1>24, <1>25, <2>3, OfferedAreTried
  <2>7. PICK c \in Matching(need, all.all) : Same(c, S[need.name])
    BY <1>23, <2>4, <2>5, <2>6 DEF IsLocked
  <2>8. c.version # last.pin
    BY <2>4, <2>7 DEF Same
  <2>9. c \in left
    BY <1>4, <2>7, <2>8 DEF Matching
  <2>. QED BY <2>7, <2>9
<1>26. ASSUME NEW S, IsChoice(problem, fetched', at, S), NEW k \in DOMAIN trail'
       PROVE  IsTried(trail', chosen, top, k, S)
  <2>1. CASE k = top
    BY <1>9, <1>13, <1>25, <1>26, <2>1 DEF IsTried
  <2>2. CASE k \in 1 .. top - 1
    <3>1. IsChoice(problem, fetched, at, S)
      BY <1>6, <1>26, FewerChoices
    <3>2. IsTried(trail, chosen, top, k, S)
      BY <1>9, <1>11, <2>2, <3>1 DEF IsSearched, AreTried
    <3>3. k + 1 \in 1 .. top
      BY <1>9, <2>2
    <3>4. Taken(trail', chosen, k) = Taken(trail, chosen, k)
      BY <1>9, <1>15, <2>2, <3>3 DEF Taken
    <3>. QED BY <1>9, <2>2, <3>2, <3>4 DEF IsTried
  <2>. QED BY <1>9, <2>1, <2>2
<1>27. IsSearched(problem, fetched', at, trail', chosen, top)
  BY <1>16, <1>17, <1>18, <1>23, <1>26 DEF IsSearched, AreTried
<1>28. trail' # <<>>
  BY <1>9
<1>. QED BY <1>6, <1>7, <1>10, <1>27, <1>28 DEF SearchedInv

(* Afresh, the member itself is all that is chosen. *)
LEMMA BeginIsMember ==
  ASSUME NEW i, Begin(i).status = "search"
  PROVE  /\ Begin(i).chosen = [n \in {Root(problem, i)} |-> Member(problem, i)]
         /\ Begin(i).pending = MemberNeeds(problem, i)
<1>. DEFINE root == problem.members[i].content
            source == Source("path", problem.members[i].dir, None, None)
<1>1. Lawful(problem, root, source)
  BY DEF Begin
<1>2. Begin(i).pending = NeedsOf(problem, root, source)
  BY <1>1 DEF Begin
<1>3. Begin(i).chosen = [n \in {root.name} |->
                           Package(root.name, root.version, source, root, NeedsOf(problem, root, source), FALSE)]
  BY <1>1 DEF Begin
<1>. QED BY <1>2, <1>3 DEF Root, Member, MemberNeeds

(* Where nothing was tried, nothing was left out. *)
LEMMA AfreshIsSearched ==
  ASSUME NEW P, NEW found, AreUnique(found), NEW i, NEW now,
         now = [n \in {Root(P, i)} |-> Member(P, i)]
  PROVE  /\ IsSearched(P, found, i, <<>>, now, 1)
         /\ Range(MemberNeeds(P, i)) \subseteq AllNeeds(MemberNeeds(P, i), now)
<1>1. DOMAIN <<>> = {}
  OBVIOUS
<1>2. Stage(<<>>, now, 1) = now
  BY <1>1 DEF Stage
<1>3. DOMAIN now = {Root(P, i)} /\ now[Root(P, i)] = Member(P, i)
  OBVIOUS
<1>4. AreLinked(P, i, <<>>, now, 1)
  <2>1. \A k \in 1 .. 1 : k = 1
    OBVIOUS
  <2>2. \A k \in 1 .. 1 - 1 : FALSE
    OBVIOUS
  <2>. QED BY <1>2, <1>3, <2>1, <2>2 DEF AreLinked
<1>. QED BY <1>1, <1>4 DEF IsSearched, AreAskedFor, ArePinned, AreTried, AllNeeds

(* At the start of the first member nothing was tried. *)
LEMMA InitSearches == Init => SearchedInv
<1>. SUFFICES ASSUME Init, status = "search" PROVE SearchedInv
  <2>1. ASSUME Init PROVE status \in {"search", "error"}
    BY <2>1 DEF Init, Begin
  <2>. QED BY <2>1 DEF SearchedInv
<1>1. /\ at = 1 /\ Begin(1).status = "search" /\ pending = Begin(1).pending /\ chosen = Begin(1).chosen
      /\ trail = <<>> /\ fetched = {}
  BY DEF Init
<1>2. Way = 1
  BY <1>1 DEF Way
<1>3. AreUnique(fetched)
  BY <1>1 DEF AreUnique
<1>4. pending = Own /\ chosen = [n \in {Root(problem, at)} |-> Member(problem, at)]
  BY <1>1, BeginIsMember DEF Own
<1>5. IsSearched(problem, fetched, at, trail, chosen, Way) /\ Range(pending) \subseteq AllNeeds(Own, chosen)
  BY <1>1, <1>2, <1>3, <1>4, AfreshIsSearched DEF Own
<1>. QED BY <1>1, <1>5 DEF SearchedInv

(* ... nor at the start of the next. *)
LEMMA FinishSearches == ResolverInv /\ SearchedInv /\ Finish => SearchedInv'
<1>. SUFFICES ASSUME ResolverInv, SearchedInv, Finish, (IsHonest(problem) /\ status \in {"search", "back", "dead"})'
              PROVE  SearchedInv'
  BY DEF SearchedInv
<1>1. status = "search" /\ UNCHANGED <<problem, fetched>>
  BY DEF Finish
<1>2. /\ at' = at + 1 /\ status' = Begin(at + 1).status
      /\ pending' = Begin(at + 1).pending /\ chosen' = Begin(at + 1).chosen /\ trail' = <<>>
  BY DEF Finish
<1>3. Begin(at + 1).status = "search"
  <2>1. Begin(at + 1).status \in {"search", "error"}
    BY DEF Begin
  <2>. QED BY <1>2, <2>1
<1>4. Way' = 1 /\ status' = "search"
  BY <1>2, <1>3 DEF Way
<1>5. AreUnique(fetched)
  BY <1>1 DEF SearchedInv, IsSearched
<1>6. pending' = Own' /\ chosen' = [n \in {Root(problem, at')} |-> Member(problem, at')]
  BY <1>1, <1>2, <1>3, BeginIsMember DEF Own
<1>7. IsSearched(problem, fetched, at', <<>>, chosen', 1) /\ Range(pending') \subseteq AllNeeds(Own', chosen')
  BY <1>1, <1>5, <1>6, AfreshIsSearched DEF Own
<1>. QED BY <1>1, <1>2, <1>4, <1>7 DEF SearchedInv

(* The world of another run: what it has is what it had, but for the lock, what can
   be read, and what was yanked. *)
LEMMA AgainIsFresh == ResolverInv /\ SearchedInv /\ Again => SearchedInv'
<1>. SUFFICES ASSUME ResolverInv, SearchedInv, Again, (IsHonest(problem) /\ status \in {"search", "back", "dead"})'
              PROVE  SearchedInv'
  BY DEF SearchedInv
<1>1. /\ at' = 1 /\ status' = Begin(1).status /\ pending' = Begin(1).pending /\ chosen' = Begin(1).chosen
      /\ trail' = <<>> /\ fetched' = {}
  BY DEF Again
<1>2. problem'.members = problem.members /\ problem'.configured = problem.configured
  <2>1. PICK vendors \in BOOLEAN :
          problem' = [problem EXCEPT !.pins = LockOf(merged), !.readable = {}, !.reachable = {},
                        !.locked = TRUE, !.offline = TRUE, !.precise = <<>>, !.pushes = <<>>,
                        !.held = IF vendors THEN {} ELSE {merged[n].content : n \in Fetchable(merged)},
                        !.vendored = IF vendors THEN Vendored(merged) ELSE @,
                        !.registries = [i \in DOMAIN @ |-> [n \in DOMAIN @[i] |->
                          {[e EXCEPT !.yanked = TRUE] : e \in problem.registries[i][n]}]]]
    BY Zenon DEF Again
  <2>2. DOMAIN problem = {"members", "directories", "toolchain", "repositories", "databases", "registries",
                          "configured", "readable", "reachable", "held", "vendored", "pins", "precise",
                          "locked", "offline", "pushes"}
    BY DEF ResolverInv, IsWorld
  <2>3. problem'.members = problem.members
    BY <2>1, <2>2
  <2>4. problem'.configured = problem.configured
    BY <2>1, <2>2
  <2>. QED BY <2>3, <2>4
<1>3. Begin(1).status = "search"
  <2>1. Begin(1).status \in {"search", "error"}
    BY DEF Begin
  <2>. QED BY <1>1, <2>1
<1>4. /\ MemberNeeds(problem', 1) = MemberNeeds(problem, 1) /\ Root(problem', 1) = Root(problem, 1)
      /\ Member(problem', 1) = Member(problem, 1)
  <2>1. PICK Q : Q = problem'
    OBVIOUS
  <2>2. MemberNeeds(Q, 1) = MemberNeeds(problem, 1)
    BY <1>2, <2>1, NeedsAlike
  <2>3. Root(Q, 1) = Root(problem, 1) /\ Member(Q, 1) = Member(problem, 1)
    BY <1>2, <2>1, <2>2 DEF Root, Member
  <2>. QED BY <2>1, <2>2, <2>3
<1>5. Way' = 1 /\ status' = "search"
  BY <1>1, <1>3 DEF Way
<1>6. pending' = Own' /\ chosen' = [n \in {Root(problem', 1)} |-> Member(problem', 1)]
  <2>1. pending' = MemberNeeds(problem, 1) /\ chosen' = [n \in {Root(problem, 1)} |-> Member(problem, 1)]
    BY <1>1, <1>3, BeginIsMember
  <2>. QED BY <1>1, <1>4, <2>1 DEF Own
<1>7. AreUnique({})
  BY DEF AreUnique
<1>8. IsSearched(problem', {}, 1, <<>>, chosen', 1) /\ Range(pending') \subseteq AllNeeds(Own', chosen')
  BY <1>1, <1>6, <1>7, AfreshIsSearched DEF Own
<1>. QED BY <1>1, <1>5, <1>8 DEF SearchedInv

(* Where two worlds differ in nothing but the heads of their repositories and in who
   can be asked, the same is possible. *)
LEMMA PossibleAlike ==
  ASSUME NEW P, NEW Q, URLs(P) = URLs(Q), P.members = Q.members, P.directories = Q.directories,
         P.toolchain = Q.toolchain, P.configured = Q.configured, P.registries = Q.registries,
         P.pins = Q.pins, P.precise = Q.precise,
         \A u \in URLs(P) : P.repositories[u].commits = Q.repositories[u].commits
  PROVE  /\ \A n, p : IsSomewhere(P, n, p) => IsSomewhere(Q, n, p)
         /\ \A found, n, p : IsPossible(P, found, n, p) => IsPossible(Q, found, n, p)
         /\ IsHonest(P) => IsHonest(Q)
<1>1. /\ \A c, from : Lawful(P, c, from) <=> Lawful(Q, c, from)
      /\ \A c, from : NeedsOf(P, c, from) = NeedsOf(Q, c, from)
  <2>1. \A d, from : MayWant(P, d, from) <=> MayWant(Q, d, from)
    BY DEF MayWant
  <2>2. \A d, from : Want(P, d, from) = Want(Q, d, from)
    BY DEF Want
  <2>. QED BY <2>1, <2>2 DEF Lawful, NeedsOf
<1>2. \A dir : At(P, dir) = At(Q, dir)
  BY DEF At
<1>3. \A n, source, v : IsLocked(P, n, source, v) <=> IsLocked(Q, n, source, v)
  BY DEF IsLocked
<1>4. \A n, source : IsPinned(P, n, source) <=> IsPinned(Q, n, source)
  BY DEF IsPinned
<1>5. ASSUME NEW n, NEW p, IsSomewhere(P, n, p) PROVE IsSomewhere(Q, n, p)
  <2>1. IsPublished(P, n, p) => IsPublished(Q, n, p)
    BY <1>3 DEF IsPublished
  <2>2. IsCommit(P, n, p) => IsCommit(Q, n, p)
    BY <1>4 DEF IsCommit
  <2>. QED BY <1>1, <1>2, <1>5, <2>1, <2>2 DEF IsSomewhere
<1>6. ASSUME NEW found, NEW n, NEW p, IsPossible(P, found, n, p) PROVE IsPossible(Q, found, n, p)
  BY <1>4, <1>5, <1>6 DEF IsPossible
<1>7. IsHonest(P) => IsHonest(Q)
  <2>1. \A n, from, e : IsTrue(P, n, from, e) => IsTrue(Q, n, from, e)
    BY <1>1, <1>3 DEF IsTrue
  <2>2. \A pin : IsCommitOf(P, pin) => IsCommitOf(Q, pin)
    BY DEF IsCommitOf, URLs
  <2>. QED BY <2>1, <2>2 DEF IsHonest
<1>. QED BY <1>5, <1>6, <1>7

(* Pushing moves the heads of a repository, and nothing else. *)
LEMMA PushMovesHeads ==
  ASSUME ResolverInv, Push, NEW Q, Q = problem'
  PROVE  /\ URLs(Q) = URLs(problem) /\ Q.members = problem.members /\ Q.directories = problem.directories
         /\ Q.toolchain = problem.toolchain /\ Q.configured = problem.configured
         /\ Q.registries = problem.registries /\ Q.pins = problem.pins /\ Q.precise = problem.precise
         /\ \A u \in URLs(problem) : Q.repositories[u].commits = problem.repositories[u].commits
<1>1. IsWorld(problem)
  BY DEF ResolverInv
<1>2. PICK url \in DOMAIN problem.pushes :
        problem' = [problem EXCEPT !.repositories[url].heads = problem.pushes[url],
                                   !.pushes = [u \in DOMAIN @ \ {url} |-> @[u]]]
  BY Zenon DEF Push
<1>3. Q.members = problem.members /\ Q.directories = problem.directories
  BY <1>1, <1>2 DEF IsWorld
<1>4. Q.toolchain = problem.toolchain /\ Q.configured = problem.configured
  BY <1>1, <1>2 DEF IsWorld
<1>5. Q.registries = problem.registries /\ Q.pins = problem.pins
  BY <1>1, <1>2 DEF IsWorld
<1>6. Q.precise = problem.precise
  BY <1>1, <1>2 DEF IsWorld
<1>7. Q.repositories = [problem.repositories EXCEPT ![url].heads = problem.pushes[url]]
  BY <1>1, <1>2 DEF IsWorld
<1>8. URLs(Q) = URLs(problem)
  BY <1>7 DEF URLs
<1>9. ASSUME NEW u \in URLs(problem) PROVE Q.repositories[u].commits = problem.repositories[u].commits
  <2>1. IsRepository(problem.repositories[u], URLs(problem))
    BY <1>1 DEF IsWorld, URLs
  <2>2. CASE u = url
    <3>1. Q.repositories[u] = [problem.repositories[u] EXCEPT !.heads = problem.pushes[url]]
      BY <1>7, <2>2 DEF URLs
    <3>2. PICK r : r = problem.repositories[u]
      OBVIOUS
    <3>3. r = [heads |-> r.heads, commits |-> r.commits, gone |-> r.gone]
      BY <2>1, <3>2 DEF IsRepository
    <3>. QED BY <3>1, <3>2, <3>3
  <2>3. CASE u # url
    BY <1>7, <2>3 DEF URLs
  <2>. QED BY <2>2, <2>3
<1>. QED BY <1>3, <1>4, <1>5, <1>6, <1>8, <1>9

(* Whoever pushes, no commit that was possible goes away, and none comes. *)
LEMMA PushSearches == ResolverInv /\ SearchedInv /\ Push => SearchedInv'
<1>. SUFFICES ASSUME ResolverInv, SearchedInv, Push, (IsHonest(problem) /\ status \in {"search", "back", "dead"})'
              PROVE  SearchedInv'
  BY DEF SearchedInv
<1>1. PICK Q : Q = problem'
  OBVIOUS
<1>2. /\ URLs(Q) = URLs(problem) /\ Q.members = problem.members /\ Q.directories = problem.directories
      /\ Q.toolchain = problem.toolchain /\ Q.configured = problem.configured
      /\ Q.registries = problem.registries /\ Q.pins = problem.pins /\ Q.precise = problem.precise
      /\ \A u \in URLs(problem) : Q.repositories[u].commits = problem.repositories[u].commits
  BY <1>1, PushMovesHeads
<1>3. UNCHANGED <<at, status, pending, chosen, trail, fetched>>
  BY DEF Push
<1>4. /\ \A found, n, p : IsPossible(Q, found, n, p) => IsPossible(problem, found, n, p)
      /\ IsHonest(Q) => IsHonest(problem)
  BY <1>2, PossibleAlike
<1>5. \A i : MemberNeeds(Q, i) = MemberNeeds(problem, i)
  BY <1>2, NeedsAlike
<1>6. \A i : Member(Q, i) = Member(problem, i) /\ Root(Q, i) = Root(problem, i)
  BY <1>2, <1>5 DEF Member, Root
<1>7. \A S : IsChoice(Q, fetched, at, S) => IsChoice(problem, fetched, at, S)
  BY <1>4, <1>5, <1>6 DEF IsChoice
<1>8. IsSearched(problem, fetched, at, trail, chosen, Way)
  BY <1>1, <1>3, <1>4 DEF SearchedInv
<1>9. IsSearched(Q, fetched, at, trail, chosen, Way)
  BY <1>2, <1>5, <1>6, <1>7, <1>8 DEF IsSearched, AreLinked, ArePinned, AreTried
<1>10. Way' = Way /\ Own' = Own
  BY <1>1, <1>3, <1>5 DEF Way, Own
<1>. QED BY <1>1, <1>3, <1>4, <1>7, <1>9, <1>10 DEF SearchedInv

(* No step leaves a choice out. *)
LEMMA NextSearches == ResolverInv /\ SearchedInv /\ [Next]_vars => SearchedInv'
<1>1. ASSUME SearchedInv, UNCHANGED vars PROVE SearchedInv'
  BY <1>1 DEF SearchedInv, vars, Way, Own
<1>. QED BY <1>1, AgreeSearches, DisagreeSearches, ChooseSearches, TryNextSearches, LeavePinSearches,
            ExhaustSearches, GiveUpSearches, FinishSearches, AgainIsFresh, PushSearches DEF Next, Resolve

-----------------------------------------------------------------------------
(* Solutions are choices *)

(* Where a manifest says its dependencies come from. *)
LEMMA WantsAreSources ==
  ASSUME NEW P, IsWorld(P), NEW w \in Wants(P)
  PROVE  IsSource(w) /\ w.rev = None /\ (w.kind = "git" => w.place \in URLs(P))
<1>1. PICK c : /\ w \in {d.source : d \in Range(c.dependencies)}
               /\ \/ c \in {P.members[i].content : i \in DOMAIN P.members}
                  \/ c \in Range(P.directories)
                  \/ c \in Range(P.toolchain)
                  \/ \E u \in DOMAIN P.repositories : c \in Range(P.repositories[u].commits) \ {None}
  BY DEF Wants
<1>2. IsContent(c, URLs(P))
  <2>1. CASE c \in {P.members[i].content : i \in DOMAIN P.members}
    BY <2>1 DEF IsWorld, URLs
  <2>2. CASE c \in Range(P.directories)
    BY <2>2 DEF IsWorld, URLs, Range
  <2>3. CASE c \in Range(P.toolchain)
    BY <2>3 DEF IsWorld, URLs, Range
  <2>4. CASE \E u \in DOMAIN P.repositories : c \in Range(P.repositories[u].commits) \ {None}
    <3>1. PICK u \in DOMAIN P.repositories : c \in Range(P.repositories[u].commits) \ {None}
      BY <2>4
    <3>2. IsRepository(P.repositories[u], URLs(P))
      BY <3>1 DEF IsWorld, URLs
    <3>. QED BY <3>1, <3>2 DEF IsRepository, Range
  <2>. QED BY <1>1, <2>1, <2>2, <2>3, <2>4
<1>3. PICK d \in Range(c.dependencies) : w = d.source
  BY <1>1
<1>4. IsDependency(d, URLs(P))
  BY <1>2, <1>3 DEF IsContent, AreDependencies
<1>. QED BY <1>3, <1>4 DEF IsDependency

(* Of a directory there is its content, and of two members each is at its own. *)
LEMMA MembersAreThere ==
  ASSUME NEW P, IsWorld(P)
  PROVE  /\ \A i \in DOMAIN P.members : At(P, P.members[i].dir) = P.members[i].content
         /\ \A d \in DOMAIN P.directories : At(P, d) = P.directories[d]
<1>1. ASSUME NEW i \in DOMAIN P.members PROVE At(P, P.members[i].dir) = P.members[i].content
  <2>. DEFINE members == {P.members[k].content : k \in {j \in DOMAIN P.members : P.members[j].dir = P.members[i].dir}}
  <2>1. members = {P.members[i].content}
    BY DEF IsWorld
  <2>2. At(P, P.members[i].dir) = CHOOSE c \in members : TRUE
    BY <2>1 DEF At
  <2>. QED BY <2>1, <2>2
<1>2. ASSUME NEW d \in DOMAIN P.directories PROVE At(P, d) = P.directories[d]
  <2>. DEFINE members == {P.members[k].content : k \in {j \in DOMAIN P.members : P.members[j].dir = d}}
  <2>1. members = {}
    BY DEF IsWorld
  <2>. QED BY <2>1 DEF At
<1>. QED BY <1>1, <1>2

(* A source less its commit. *)
LEMMA NamedIs ==
  ASSUME NEW s, IsSource(s)
  PROVE  Named(s) = Source(s.kind, s.place, s.reference, None)
BY Without DEF Named

(* A commit there may be for a reference is the one git found, if it found one. *)
LEMMA CommitsAreFound ==
  ASSUME NEW P, IsWorld(P), IsHonest(P), AreCommits(P, fetched), AreUnique(fetched), NEW n,
         NEW w \in Wants(P), w.kind = "git", NEW c \in Commits(P, n, w), NEW p,
         p.source = Source(w.kind, w.place, w.reference, c), p.content = P.repositories[w.place].commits[c], p.content # None
  PROVE  /\ IsCommit(P, n, p) /\ p.source.kind = "git" /\ IsSource(p.source)
         /\ ~IsPinned(P, n, p.source) => \A f \in Asked(fetched, p.source) : f.rev = p.source.rev
<1>1. IsSource(w) /\ w.rev = None /\ w.place \in URLs(P)
  BY WantsAreSources
<1>2. p.source = Source(w.kind, w.place, w.reference, c)
  OBVIOUS
<1>3. /\ p.source.kind = "git" /\ p.source.place = w.place /\ p.source.reference = w.reference
      /\ p.source.rev = c
  BY <1>2 DEF Source
<1>4. IsSource(p.source) /\ Named(p.source) = w
  <2>1. IsSource(p.source)
    BY <1>1, <1>2, <1>3 DEF IsSource
  <2>2. Named(p.source) = Source(w.kind, w.place, w.reference, None)
    <3>1. Named(p.source) = Source(p.source.kind, p.source.place, p.source.reference, None)
      BY <2>1, NamedIs
    <3>. QED BY <1>3, <3>1
  <2>. QED BY <1>1, <2>1, <2>2 DEF IsSource
<1>5. IsPinned(P, n, p.source) <=> n \in DOMAIN P.pins /\ WantMatches(w, P.pins[n].source)
  BY <1>4 DEF IsPinned, WantMatches, Named
<1>6. CASE n \in DOMAIN P.pins /\ WantMatches(w, P.pins[n].source)
  <2>1. PICK pin : pin = P.pins[n]
    OBVIOUS
  <2>2. c = pin.source.rev
    <3>1. Commits(P, n, w) = {P.pins[n].source.rev}
      BY <1>6 DEF Commits
    <3>. QED BY <2>1, <3>1
  <2>3. IsSource(pin.source) /\ Named(pin.source) = w
    BY <1>6, <2>1 DEF IsWorld, IsPin, WantMatches, Named
  <2>4. w = Source(pin.source.kind, pin.source.place, pin.source.reference, None)
    BY <2>3, Without DEF Named
  <2>5. pin.source.kind = "git" /\ pin.source.place = w.place /\ pin.source.reference = w.reference
    BY <2>4 DEF Source
  <2>6. pin.source = p.source
    BY <1>3, <1>4, <2>2, <2>3, <2>5 DEF IsSource
  <2>7. IsCommitOf(P, pin)
    BY <1>6, <2>1, <2>5 DEF IsHonest
  <2>8. p.content = pin.content
    BY <2>2, <2>5, <2>7 DEF IsCommitOf
  <2>. QED BY <1>1, <1>3, <1>4, <1>5, <1>6, <2>1, <2>6, <2>8 DEF IsCommit
<1>7. CASE ~(n \in DOMAIN P.pins /\ WantMatches(w, P.pins[n].source))
  <2>1. PICK asked : asked = {g \in fetched : g.url = w.place /\ g.reference = w.reference}
    OBVIOUS
  <2>2. asked = Asked(fetched, p.source)
    BY <1>3, <2>1 DEF Asked
  <2>3. c \in DOMAIN P.repositories[w.place].commits /\ \A f \in asked : f.rev = c
    <3>1. CASE asked # {}
      <4>1. FoundFor(w) = {f.rev : f \in asked}
        BY <2>1 DEF FoundFor
      <4>2. FoundFor(w) # {}
        <5>1. PICK f : f \in asked
          BY <3>1
        <5>2. f.rev \in FoundFor(w)
          BY <4>1, <5>1
        <5>. QED BY <5>2
      <4>3. c \in {f.rev : f \in asked}
        BY <1>7, <4>1, <4>2 DEF Commits
      <4>4. PICK f \in asked : f.rev = c
        BY <4>3
      <4>5. f \in fetched /\ f.url = w.place /\ f.reference = w.reference
        BY <2>1, <4>4
      <4>6. c \in DOMAIN P.repositories[w.place].commits
        BY <4>4, <4>5 DEF AreCommits
      <4>7. \A g \in asked : g.rev = f.rev
        BY <2>1, <4>5 DEF AreUnique
      <4>. QED BY <4>4, <4>6, <4>7
    <3>2. CASE asked = {}
      <4>1. PICK repository : repository = P.repositories[w.place]
        OBVIOUS
      <4>2. IsRepository(repository, URLs(P))
        BY <1>1, <4>1 DEF IsWorld, URLs
      <4>3. c \in IF w.reference \in DOMAIN repository.heads THEN {repository.heads[w.reference]}
                  ELSE {w.reference} \cap DOMAIN repository.commits
        <5>1. FoundFor(w) = {}
          BY <2>1, <3>2 DEF FoundFor
        <5>. QED BY <1>7, <4>1, <5>1 DEF Commits, Tip
      <4>4. c \in DOMAIN repository.commits
        BY <4>2, <4>3 DEF IsRepository, Range
      <4>. QED BY <3>2, <4>1, <4>4
    <3>. QED BY <3>1, <3>2
  <2>4. IsCommit(P, n, p)
    BY <1>1, <1>3, <1>5, <1>7, <2>3 DEF IsCommit
  <2>. QED BY <1>3, <1>4, <2>2, <2>3, <2>4
<1>. QED BY <1>6, <1>7

(* What may be chosen for a name is possible. *)
LEMMA CandidatesArePossible ==
  ASSUME NEW P, IsWorld(P), IsHonest(P), AreCommits(P, fetched), AreUnique(fetched),
         NEW n, NEW p \in Candidates(P, n)
  PROVE  /\ IsPossible(P, fetched, n, p) /\ AreNeeds(p.needs, URLs(P)) /\ p.name = n
<1>1. PICK o \in Contents(P, n) :
        /\ n \in DOMAIN P.precise => o.content.version = P.precise[n]
        /\ p = Package(n, o.content.version, o.source, o.content, NeedsOf(P, o.content, o.source), FALSE)
  BY DEF Candidates
<1>2. /\ p.name = n /\ p.version = o.content.version /\ p.source = o.source /\ p.content = o.content
      /\ p.needs = NeedsOf(P, o.content, o.source)
  BY <1>1 DEF Package
<1>3. o.content # None /\ o.content.name = n /\ Lawful(P, o.content, o.source)
  BY DEF Contents
<1>4. ASSUME IsSource(p.source), p.source.kind # "git" => p.source.rev = None,
             p.source.kind = "path" => p.content # None /\ p.content = At(P, p.source.place),
             p.source.kind = "toolchain" =>
               p.source = Toolchain /\ n \in DOMAIN P.toolchain /\ p.content = P.toolchain[n],
             p.source.kind = "registry" =>
               p.source = Source("registry", p.source.place, None, None) /\ IsPublished(P, n, p),
             p.source.kind = "git" =>
               /\ IsCommit(P, n, p)
               /\ ~IsPinned(P, n, p.source) => \A f \in Asked(fetched, p.source) : f.rev = p.source.rev
      PROVE  IsPossible(P, fetched, n, p) /\ AreNeeds(p.needs, URLs(P))
  <2>1. IsSomewhere(P, n, p)
    BY <1>1, <1>2, <1>3, <1>4 DEF IsSomewhere
  <2>2. IsContent(p.content, URLs(P))
    BY <2>1, SomewhereIsContent
  <2>3. AreNeeds(NeedsOf(P, p.content, p.source), URLs(P))
    BY <1>2, <1>3, <2>2, DeclaredAreNeeds
  <2>. QED BY <1>2, <1>4, <2>1, <2>3 DEF IsPossible
<1>5. \/ \E i \in DOMAIN P.registries : /\ n \in DOMAIN P.registries[i]
           /\ \E e \in P.registries[i][n] :
                /\ ~e.yanked \/ IsLocked(P, n, Source("registry", i, None, None), e.version)
                /\ o.source = Source("registry", i, None, None) /\ o.content = e.content
      \/ \E d \in DOMAIN P.directories : o.source = Source("path", d, None, None) /\ o.content = P.directories[d]
      \/ \E i \in DOMAIN P.members :
           o.source = Source("path", P.members[i].dir, None, None) /\ o.content = P.members[i].content
      \/ \E t \in DOMAIN P.toolchain : o.source = Toolchain /\ o.content = P.toolchain[t]
      \/ \E w \in Wants(P) : w.kind = "git" /\ \E c \in Commits(P, n, w) :
           o.source = [w EXCEPT !.rev = c] /\ o.content = P.repositories[w.place].commits[c]
  <2>1. ASSUME o \in Published(P, n)
        PROVE  \E i \in DOMAIN P.registries : /\ n \in DOMAIN P.registries[i]
                 /\ \E e \in P.registries[i][n] :
                      /\ ~e.yanked \/ IsLocked(P, n, Source("registry", i, None, None), e.version)
                      /\ o.source = Source("registry", i, None, None) /\ o.content = e.content
    BY <2>1 DEF Published, Of
  <2>2. ASSUME o \in InDirectories(P)
        PROVE  \/ \E d \in DOMAIN P.directories : o.source = Source("path", d, None, None) /\ o.content = P.directories[d]
               \/ \E i \in DOMAIN P.members :
                    o.source = Source("path", P.members[i].dir, None, None) /\ o.content = P.members[i].content
    BY <2>2 DEF InDirectories, Of
  <2>3. ASSUME o \in InRepositories(P, n)
        PROVE  \E w \in Wants(P) : w.kind = "git" /\ \E c \in Commits(P, n, w) :
                 o.source = [w EXCEPT !.rev = c] /\ o.content = P.repositories[w.place].commits[c]
    BY <2>3 DEF InRepositories, AtCommits, Of
  <2>4. ASSUME o \in {Of(Toolchain, P.toolchain[t]) : t \in DOMAIN P.toolchain}
        PROVE  \E t \in DOMAIN P.toolchain : o.source = Toolchain /\ o.content = P.toolchain[t]
    BY <2>4 DEF Of
  <2>5. \/ o \in Published(P, n) \/ o \in InDirectories(P) \/ o \in InRepositories(P, n)
        \/ o \in {Of(Toolchain, P.toolchain[t]) : t \in DOMAIN P.toolchain}
    BY DEF Contents
  <2>. QED BY <2>1, <2>2, <2>3, <2>4, <2>5
<1>6. CASE \E i \in DOMAIN P.registries : /\ n \in DOMAIN P.registries[i]
           /\ \E e \in P.registries[i][n] :
                /\ ~e.yanked \/ IsLocked(P, n, Source("registry", i, None, None), e.version)
                /\ o.source = Source("registry", i, None, None) /\ o.content = e.content
  <2>1. PICK i \in DOMAIN P.registries : /\ n \in DOMAIN P.registries[i]
           /\ \E e \in P.registries[i][n] :
                /\ ~e.yanked \/ IsLocked(P, n, Source("registry", i, None, None), e.version)
                /\ o.source = Source("registry", i, None, None) /\ o.content = e.content
    BY <1>6
  <2>2. PICK e \in P.registries[i][n] :
                /\ ~e.yanked \/ IsLocked(P, n, Source("registry", i, None, None), e.version)
                /\ o.source = Source("registry", i, None, None) /\ o.content = e.content
    BY <2>1
  <2>3. IsTrue(P, n, Source("registry", i, None, None), e)
    BY <2>1, <2>2 DEF IsHonest
  <2>4. p.version = e.version
    BY <1>2, <2>2, <2>3 DEF IsTrue
  <2>5. p.source.kind = "registry" /\ p.source.place = i /\ p.source.rev = None /\ IsSource(p.source)
    BY <1>2, <2>2 DEF Source, IsSource
  <2>6. IsPublished(P, n, p)
    BY <1>2, <2>1, <2>2, <2>3, <2>4, <2>5 DEF IsPublished, IsTrue
  <2>7. p.source = Source("registry", p.source.place, None, None)
    BY <1>2, <2>2, <2>5
  <2>. QED BY <1>2, <1>4, <2>5, <2>6, <2>7
<1>7. CASE \/ \E d \in DOMAIN P.directories : o.source = Source("path", d, None, None) /\ o.content = P.directories[d]
           \/ \E i \in DOMAIN P.members :
                o.source = Source("path", P.members[i].dir, None, None) /\ o.content = P.members[i].content
  <2>1. PICK d : o.source = Source("path", d, None, None) /\ o.content = At(P, d)
    BY <1>7, MembersAreThere
  <2>2. p.source.kind = "path" /\ p.source.place = d /\ p.source.rev = None /\ IsSource(p.source)
    BY <1>2, <2>1 DEF Source, IsSource
  <2>. QED BY <1>2, <1>3, <1>4, <2>1, <2>2
<1>8. CASE \E t \in DOMAIN P.toolchain : o.source = Toolchain /\ o.content = P.toolchain[t]
  <2>1. PICK t \in DOMAIN P.toolchain : o.source = Toolchain /\ o.content = P.toolchain[t]
    BY <1>8
  <2>2. t = n
    BY <1>3, <2>1 DEF IsWorld
  <2>3. p.source.kind = "toolchain" /\ p.source.rev = None /\ IsSource(p.source)
    BY <1>2, <2>1 DEF Toolchain, Source, IsSource
  <2>. QED BY <1>2, <1>4, <2>1, <2>2, <2>3
<1>9. CASE \E w \in Wants(P) : w.kind = "git" /\ \E c \in Commits(P, n, w) :
             o.source = [w EXCEPT !.rev = c] /\ o.content = P.repositories[w.place].commits[c]
  <2>1. PICK w \in Wants(P) : w.kind = "git" /\ \E c \in Commits(P, n, w) :
             o.source = [w EXCEPT !.rev = c] /\ o.content = P.repositories[w.place].commits[c]
    BY <1>9
  <2>2. PICK c \in Commits(P, n, w) :
             o.source = [w EXCEPT !.rev = c] /\ o.content = P.repositories[w.place].commits[c]
    BY <2>1
  <2>3. /\ IsCommit(P, n, p) /\ p.source.kind = "git" /\ IsSource(p.source)
        /\ ~IsPinned(P, n, p.source) => \A f \in Asked(fetched, p.source) : f.rev = p.source.rev
    <3>1. w \in Wants(P) /\ w.kind = "git" /\ c \in Commits(P, n, w)
      BY <2>1, <2>2
    <3>2. p.source = Source(w.kind, w.place, w.reference, c)
      BY <1>2, <2>2, <3>1, WantsAreSources, Without
    <3>3. p.content = P.repositories[w.place].commits[c] /\ p.content # None
      BY <1>2, <1>3, <2>2
    <3>. QED BY <3>1, <3>2, <3>3, CommitsAreFound
  <2>4. p.source.kind # "path" /\ p.source.kind # "toolchain" /\ p.source.kind # "registry"
    BY <2>3
  <2>5. IsSource(p.source)
    BY <2>3
  <2>6. (p.source.kind # "git" => p.source.rev = None)
    BY <2>3
  <2>7. IsPossible(P, fetched, n, p) /\ AreNeeds(p.needs, URLs(P))
    <3>1. IsCommit(P, n, p)
      BY <2>3
    <3>2. ~IsPinned(P, n, p.source) => \A f \in Asked(fetched, p.source) : f.rev = p.source.rev
      BY <2>3
    <3>. QED BY <1>4, <2>4, <2>5, <2>6, <3>1, <3>2
  <2>. QED BY <1>2, <2>7
<1>. QED BY <1>2, <1>5, <1>6, <1>7, <1>8, <1>9

(* What is satisfied is met. *)
LEMMA SatisfiedIsMet ==
  ASSUME NEW urls, NEW need, IsNeed(need, urls), NEW packages, Satisfied(packages, need),
         IsVersion(packages[need.name].version), IsSource(packages[need.name].source)
  PROVE  Met(need, packages)
<1>1. Matches(need.requirement, packages[need.name].version)
  BY AcceptedAreMatched DEF IsNeed, Satisfied
<1>2. WantMatches(need.want, packages[need.name].source)
  BY DEF IsNeed, Satisfied, WantMatches
<1>. QED BY <1>1, <1>2 DEF Met, Satisfied

(* What is possible needs what its archive declares. *)
LEMMA PossibleAreNeeds ==
  ASSUME NEW P, IsWorld(P), NEW found, NEW n, NEW p, IsPossible(P, found, n, p)
  PROVE  /\ \A need \in Range(p.needs) : IsNeed(need, URLs(P))
         /\ IsVersion(p.version) /\ IsSource(p.source)
<1>1. IsSomewhere(P, n, p)
  BY DEF IsPossible
<1>2. IsContent(p.content, URLs(P)) /\ IsVersion(p.version)
  BY <1>1, SomewhereIsContent
<1>3. AreNeeds(NeedsOf(P, p.content, p.source), URLs(P))
  BY <1>1, <1>2, DeclaredAreNeeds DEF IsSomewhere
<1>. QED BY <1>1, <1>2, <1>3 DEF IsSomewhere, AreNeeds

(* The member is of a version and a source. *)
LEMMA MemberIs ==
  ASSUME NEW P, IsWorld(P), NEW i \in DOMAIN P.members
  PROVE  /\ Member(P, i).needs = MemberNeeds(P, i) /\ Member(P, i).name = Root(P, i)
         /\ IsVersion(Member(P, i).version) /\ IsSource(Member(P, i).source)
<1>1. IsVersion(P.members[i].content.version)
  BY DEF IsWorld, IsContent
<1>. QED BY <1>1 DEF Member, Package, Root, IsSource, Source

(* A closed choice of what is possible, is one. *)
LEMMA ClosedAreChoices ==
  ASSUME NEW P, IsWorld(P), NEW found, NEW i \in DOMAIN P.members, AreNeeds(MemberNeeds(P, i), URLs(P)),
         NEW S, Root(P, i) \in DOMAIN S, Same(Member(P, i), S[Root(P, i)]),
         \A n \in DOMAIN S \ {Root(P, i)} : IsPossible(P, found, n, S[n]),
         IsClosed(S, MemberNeeds(P, i))
  PROVE  IsChoice(P, found, i, S)
<1>1. ASSUME NEW n \in DOMAIN S
      PROVE  /\ \A need \in Range(S[n].needs) : IsNeed(need, URLs(P))
             /\ IsVersion(S[n].version) /\ IsSource(S[n].source)
  <2>1. CASE n = Root(P, i)
    BY <2>1, MemberIs DEF Same, AreNeeds
  <2>2. CASE n # Root(P, i)
    BY <2>2, PossibleAreNeeds
  <2>. QED BY <2>1, <2>2
<1>2. ASSUME NEW need \in AllNeeds(MemberNeeds(P, i), S)
      PROVE  Met(need, S)
  <2>1. IsNeed(need, URLs(P)) /\ Satisfied(S, need)
    <3>1. CASE need \in Range(MemberNeeds(P, i))
      BY <3>1 DEF AreNeeds, IsClosed
    <3>2. CASE \E n \in DOMAIN S : need \in Range(S[n].needs)
      BY <3>2, <1>1 DEF IsClosed
    <3>. QED BY <3>1, <3>2 DEF AllNeeds
  <2>2. need.name \in DOMAIN S
    BY <2>1 DEF Satisfied
  <2>. QED BY <1>1, <2>1, <2>2, SatisfiedIsMet
<1>. QED BY <1>2 DEF IsChoice

(* A solution, as ResolverCheck enumerates them, is a choice of what is possible. *)
LEMMA SolutionsAreChoices ==
  ASSUME NEW P, IsWorld(P), IsHonest(P), AreCommits(P, fetched), AreUnique(fetched),
         NEW i \in DOMAIN P.members, AreNeeds(MemberNeeds(P, i), URLs(P)), NEW S \in Solutions(P, i)
  PROVE  /\ IsChoice(P, fetched, i, S)
         /\ S[Root(P, i)] = Member(P, i)
<1>. DEFINE root == Member(P, i)
            Chosen(names) == {f \in [names -> UNION {Candidates(P, n) : n \in names}] :
                                \A n \in names : f[n] \in Candidates(P, n)}
<1>1. PICK names \in SUBSET (AllNames(P) \ {root.name}) :
        S \in {f \in {Extend(g, root.name, root) : g \in Chosen(names)} : IsClosed(f, root.needs)}
  BY DEF Solutions
<1>2. PICK g \in Chosen(names) : S = Extend(g, root.name, root) /\ IsClosed(S, root.needs)
  BY <1>1
<1>3. root.name = Root(P, i) /\ root.needs = MemberNeeds(P, i)
  BY MemberIs
<1>4. DOMAIN g = names /\ \A n \in names : g[n] \in Candidates(P, n)
  OBVIOUS
<1>5. /\ Root(P, i) \in DOMAIN S /\ S[Root(P, i)] = root
      /\ \A n \in DOMAIN S \ {Root(P, i)} : n \in names /\ S[n] = g[n]
  BY <1>2, <1>3, <1>4 DEF Extend
<1>6. ASSUME NEW n \in DOMAIN S \ {Root(P, i)} PROVE IsPossible(P, fetched, n, S[n])
  BY <1>4, <1>5, CandidatesArePossible
<1>7. Same(root, S[Root(P, i)])
  BY <1>5 DEF Same
<1>. QED BY <1>2, <1>3, <1>5, <1>6, <1>7, ClosedAreChoices

-----------------------------------------------------------------------------

(* The half of FailsOnlyIfUnsolvable about selection: a member is refused for want
   of versions only when no choice of versions works. *)
DeadIfUnsolvable == Ended("dead") /\ IsHonest(problem) => Solutions(problem, at) = {}

(* Where every choice was left out for a reason, a dead end has none. *)
LEMMA InvFailsOnlyIfUnsolvable == ResolverInv /\ SearchedInv => DeadIfUnsolvable
<1>. SUFFICES ASSUME ResolverInv, SearchedInv, status = "dead", IsHonest(problem),
                     NEW S \in Solutions(problem, at)
              PROVE  FALSE
  BY DEF DeadIfUnsolvable, Ended
<1>1. /\ IsWorld(problem) /\ at \in DOMAIN problem.members /\ AreCommits(problem, fetched)
      /\ AreNeeds(MemberNeeds(problem, at), URLs(problem))
  BY DEF ResolverInv, SearchInv, FetchedInv, Own
<1>2. AreUnique(fetched) /\ \A T : ~IsChoice(problem, fetched, at, T)
  BY DEF SearchedInv, IsSearched
<1>. QED BY <1>1, <1>2, SolutionsAreChoices

(* `no versions of ... satisfy all requirements' (resolve.rs) is said only where it is
   so: when backtracking ends without an answer, no choice of versions, directories
   and commits gives every package what its archive asks for. *)
THEOREM DeadEndsAreUnsolvable == Spec => []DeadIfUnsolvable
<1>1. Init => ResolverInv /\ SearchedInv
  BY InitHolds, InitSearches
<1>2. ResolverInv /\ SearchedInv /\ [Next]_vars => (ResolverInv /\ SearchedInv)'
  BY NextSearches, NextHolds
<1>3. ResolverInv /\ SearchedInv => DeadIfUnsolvable
  BY InvFailsOnlyIfUnsolvable
<1>. QED BY <1>1, <1>2, <1>3, PTL DEF Spec

-----------------------------------------------------------------------------
(* What was taken *)

(* What a frame has of what there is, and of a pin that answers has alone or has
   not. *)
IsOffered(P, found, frame, c) ==
  /\ IsFound(P, found, frame.need.name, c) /\ WantMatches(frame.need.want, c.source)
  /\ frame.need.want.kind = "registry" /\ ApplicablePin(P, frame.need) =>
       (frame.pin # None <=> c.version = P.pins[frame.need.name].version)

AreOffered(P, found, frames) ==
  \A k \in DOMAIN frames : \A c \in frames[k].left : IsOffered(P, found, frames[k], c)

(* What was taken was offered, and nothing that is left is newer. *)
AreTaken(P, found, frames, now, top) ==
  \A k \in 1 .. top - 1 :
    /\ IsOffered(P, found, frames[k], Taken(frames, now, k))
    /\ \A c \in frames[k].left : ~Below(Taken(frames, now, k).version, c.version)

(* What was chosen stays, and each of it but the member was taken on the way. *)
AreNested(P, i, frames, now, top) ==
  \A k \in 1 .. top :
    /\ \A j \in 1 .. k : \A n \in DOMAIN Stage(frames, now, j) :
         n \in DOMAIN Stage(frames, now, k) /\ Stage(frames, now, k)[n] = Stage(frames, now, j)[n]
    /\ \A n \in DOMAIN Stage(frames, now, k) \ {Root(P, i)} : \E j \in 1 .. k - 1 : frames[j].need.name = n

TakenInv ==
  IsHonest(problem) /\ status \in {"search", "back", "dead"} =>
    /\ AreOffered(problem, fetched, trail)
    /\ AreTaken(problem, fetched, trail, chosen, Way)
    /\ AreNested(problem, at, trail, chosen, Way)

(* What was found, is found however often git is run. *)
LEMMA FoundStays ==
  ASSUME NEW P, NEW found, NEW after, found \subseteq after, AreUnique(after)
  PROVE  /\ \A n, p : IsFound(P, found, n, p) => IsFound(P, after, n, p)
         /\ \A frame, c : IsOffered(P, found, frame, c) => IsOffered(P, after, frame, c)
<1>1. ASSUME NEW n, NEW p, IsFound(P, found, n, p) PROVE IsFound(P, after, n, p)
  <2>1. CASE p.source.kind = "git" /\ ~IsPinned(P, n, p.source)
    <3>1. PICK f \in Asked(found, p.source) : f.rev = p.source.rev
      BY <1>1, <2>1 DEF IsFound, IsPossible
    <3>2. f \in Asked(after, p.source)
      BY <3>1 DEF Asked
    <3>3. \A g \in Asked(after, p.source) : g.rev = p.source.rev
      BY <3>1, <3>2 DEF Asked, AreUnique
    <3>. QED BY <1>1, <3>2, <3>3 DEF IsFound, IsPossible
  <2>2. CASE ~(p.source.kind = "git" /\ ~IsPinned(P, n, p.source))
    BY <1>1, <2>2 DEF IsFound, IsPossible
  <2>. QED BY <2>1, <2>2
<1>. QED BY <1>1 DEF IsOffered

(* Where the frames are the same, but perhaps the last. *)
LEMMA TakenAlike ==
  ASSUME NEW P, NEW found, NEW i, NEW frames, NEW now, NEW top \in Nat,
         AreTaken(P, found, frames, now, top), AreNested(P, i, frames, now, top),
         NEW after, found \subseteq after, AreUnique(after),
         NEW others, NEW then, NEW upto \in 0 .. top,
         \A k \in 1 .. upto : Stage(others, then, k) = Stage(frames, now, k),
         \A k \in 1 .. upto - 1 : others[k] = frames[k]
  PROVE  AreTaken(P, after, others, then, upto) /\ AreNested(P, i, others, then, upto)
<1>1. ASSUME NEW k \in 1 .. upto - 1
      PROVE  /\ IsOffered(P, after, others[k], Taken(others, then, k))
             /\ \A c \in others[k].left : ~Below(Taken(others, then, k).version, c.version)
  <2>1. k + 1 \in 1 .. upto /\ k \in 1 .. top - 1
    OBVIOUS
  <2>2. Taken(others, then, k) = Taken(frames, now, k)
    BY <2>1 DEF Taken
  <2>3. IsOffered(P, found, frames[k], Taken(frames, now, k))
        /\ \A c \in frames[k].left : ~Below(Taken(frames, now, k).version, c.version)
    BY <2>1 DEF AreTaken
  <2>. QED BY <2>2, <2>3, FoundStays
<1>2. ASSUME NEW k \in 1 .. upto
      PROVE  /\ \A j \in 1 .. k : \A n \in DOMAIN Stage(others, then, j) :
                  n \in DOMAIN Stage(others, then, k) /\ Stage(others, then, k)[n] = Stage(others, then, j)[n]
             /\ \A n \in DOMAIN Stage(others, then, k) \ {Root(P, i)} : \E j \in 1 .. k - 1 : others[j].need.name = n
  <2>1. k \in 1 .. top /\ \A j \in 1 .. k : j \in 1 .. upto
    OBVIOUS
  <2>2. \A j \in 1 .. k - 1 : j \in 1 .. upto - 1
    OBVIOUS
  <2>. QED BY <2>1, <2>2 DEF AreNested
<1>. QED BY <1>1, <1>2 DEF AreTaken, AreNested

(* One more was taken. *)
LEMMA NestedGrows ==
  ASSUME NEW P, NEW i, NEW frames, NEW now, NEW top \in Nat \ {0}, AreNested(P, i, frames, now, top),
         AreLinked(P, i, frames, now, top + 1), frames[top].need.name \notin DOMAIN Stage(frames, now, top)
  PROVE  AreNested(P, i, frames, now, top + 1)
<1>1. Stage(frames, now, top + 1) = Extend(Stage(frames, now, top), frames[top].need.name, Taken(frames, now, top))
  <2>1. top \in 1 .. top + 1 - 1
    OBVIOUS
  <2>. QED BY <2>1 DEF AreLinked
<1>2. /\ DOMAIN Stage(frames, now, top + 1) = DOMAIN Stage(frames, now, top) \cup {frames[top].need.name}
      /\ \A n \in DOMAIN Stage(frames, now, top) : Stage(frames, now, top + 1)[n] = Stage(frames, now, top)[n]
  BY <1>1 DEF Extend
<1>3. ASSUME NEW j \in 1 .. top + 1, NEW n \in DOMAIN Stage(frames, now, j)
      PROVE  n \in DOMAIN Stage(frames, now, top + 1) /\ Stage(frames, now, top + 1)[n] = Stage(frames, now, j)[n]
  <2>1. CASE j = top + 1
    BY <2>1
  <2>2. CASE j \in 1 .. top
    <3>1. top \in 1 .. top
      OBVIOUS
    <3>2. n \in DOMAIN Stage(frames, now, top) /\ Stage(frames, now, top)[n] = Stage(frames, now, j)[n]
      BY <2>2, <3>1 DEF AreNested
    <3>. QED BY <1>2, <3>2
  <2>. QED BY <2>1, <2>2
<1>4. ASSUME NEW n \in DOMAIN Stage(frames, now, top + 1) \ {Root(P, i)}
      PROVE  \E j \in 1 .. top + 1 - 1 : frames[j].need.name = n
  <2>1. CASE n = frames[top].need.name
    <3>1. top \in 1 .. top + 1 - 1
      OBVIOUS
    <3>. QED BY <2>1, <3>1
  <2>2. CASE n # frames[top].need.name
    <3>1. n \in DOMAIN Stage(frames, now, top) /\ top \in 1 .. top
      BY <1>2, <2>2
    <3>2. PICK j \in 1 .. top - 1 : frames[j].need.name = n
      BY <3>1 DEF AreNested
    <3>3. j \in 1 .. top + 1 - 1
      OBVIOUS
    <3>. QED BY <3>2, <3>3
  <2>. QED BY <2>1, <2>2
<1>5. ASSUME NEW k \in 1 .. top + 1
      PROVE  /\ \A j \in 1 .. k : \A n \in DOMAIN Stage(frames, now, j) :
                  n \in DOMAIN Stage(frames, now, k) /\ Stage(frames, now, k)[n] = Stage(frames, now, j)[n]
             /\ \A n \in DOMAIN Stage(frames, now, k) \ {Root(P, i)} : \E j \in 1 .. k - 1 : frames[j].need.name = n
  <2>1. CASE k = top + 1
    BY <1>3, <1>4, <2>1
  <2>2. CASE k \in 1 .. top
    BY <2>2 DEF AreNested
  <2>. QED BY <2>1, <2>2
<1>. QED BY <1>5 DEF AreNested

(* What is chosen but the member itself, was taken. *)
LEMMA ChosenWereTaken ==
  ASSUME NEW P, NEW i, NEW found, NEW frames, NEW now, NEW top \in Nat \ {0}, AreNested(P, i, frames, now, top),
         AreTaken(P, found, frames, now, top), AreLinked(P, i, frames, now, top),
         NEW n \in DOMAIN Stage(frames, now, top) \ {Root(P, i)}
  PROVE  \E k \in 1 .. top - 1 : /\ frames[k].need.name = n
                                 /\ Taken(frames, now, k) = Stage(frames, now, top)[n]
                                 /\ IsFound(P, found, n, Stage(frames, now, top)[n])
<1>1. PICK k \in 1 .. top - 1 : frames[k].need.name = n
  <2>1. top \in 1 .. top
    OBVIOUS
  <2>. QED BY <2>1 DEF AreNested
<1>2. k + 1 \in 1 .. top /\ top \in 1 .. top
  OBVIOUS
<1>3. n \in DOMAIN Stage(frames, now, k + 1)
  <2>1. Stage(frames, now, k + 1) = Extend(Stage(frames, now, k), n, Taken(frames, now, k))
    BY <1>1 DEF AreLinked
  <2>2. DOMAIN Extend(Stage(frames, now, k), n, Taken(frames, now, k)) = DOMAIN Stage(frames, now, k) \cup {n}
    BY DEF Extend
  <2>. QED BY <2>1, <2>2
<1>4. Taken(frames, now, k) = Stage(frames, now, top)[n]
  <2>1. Stage(frames, now, top)[n] = Stage(frames, now, k + 1)[n]
    BY <1>2, <1>3 DEF AreNested
  <2>. QED BY <1>1, <2>1 DEF Taken
<1>5. IsFound(P, found, n, Taken(frames, now, k))
  BY <1>1 DEF AreTaken, IsOffered
<1>. QED BY <1>1, <1>4, <1>5

(* What is offered was found, and is what is wanted. *)
LEMMA OfferedWereFound ==
  ASSUME ResolverInv, IsHonest(problem), NEW need, IsNeed(need, URLs(problem)), NEW usePin \in BOOLEAN,
         AreUnique(fetched), NEW offer, offer = Options(problem, need, usePin, fetched), offer.ok,
         NEW after, after = fetched \cup offer.fetches, NEW c \in Matching(need, offer.all)
  PROVE  /\ IsFound(problem, after, need.name, c) /\ WantMatches(need.want, c.source)
         /\ offer.pinned => c.version = problem.pins[need.name].version
<1>1. IsWorld(problem) /\ AreCommits(problem, fetched)
  BY DEF ResolverInv, FetchedInv
<1>2. c \in offer.all /\ (need.name \in DOMAIN problem.precise => c.version = problem.precise[need.name])
  BY DEF Matching
<1>3. WantMatches(need.want, c.source)
  <2>1. Serves(problem, need, Options(problem, need, usePin, fetched))
    BY <1>1, OffersServe
  <2>. QED BY <1>2, <2>1 DEF Serves
<1>4. IsFound(problem, after, need.name, c)
  BY <1>1, <1>2, OffersFind
<1>5. offer.pinned => c.version = problem.pins[need.name].version
  BY <1>1, <1>2, OffersFind
<1>. QED BY <1>3, <1>4, <1>5

(* A need that is met already. *)
LEMMA AgreeTakes == TakenInv /\ Agree => TakenInv'
<1>. SUFFICES ASSUME TakenInv, Agree PROVE TakenInv'
  OBVIOUS
<1>1. UNCHANGED <<problem, at, status, chosen, trail, fetched>>
  BY DEF Agree
<1>2. Way' = Way
  BY <1>1 DEF Way
<1>. QED BY <1>1, <1>2 DEF TakenInv

(* One that will not do leads back. *)
LEMMA DisagreeTakes == ResolverInv /\ SearchedInv /\ SearchedInv' /\ TakenInv /\ Disagree => TakenInv'
<1>. SUFFICES ASSUME ResolverInv, SearchedInv, SearchedInv', TakenInv, Disagree,
                     (IsHonest(problem) /\ status \in {"search", "back", "dead"})'
              PROVE  TakenInv'
  BY DEF TakenInv
<1>1. /\ status = "search" /\ status' \in {"back", "error"} /\ fetched \subseteq fetched'
      /\ UNCHANGED <<problem, at, chosen, trail>>
  BY DEF Disagree, Searching
<1>2. status' = "back"
  BY <1>1
<1>3. IsHonest(problem) /\ Way = Len(trail) + 1 /\ Way' = Len(trail)
  BY <1>1, <1>2 DEF Way
<1>4. /\ AreOffered(problem, fetched, trail)
      /\ AreTaken(problem, fetched, trail, chosen, Way) /\ AreNested(problem, at, trail, chosen, Way)
  BY <1>1, <1>3 DEF TakenInv
<1>5. AreUnique(fetched')
  BY <1>2 DEF SearchedInv, IsSearched
<1>6. AreOffered(problem, fetched', trail)
  BY <1>1, <1>4, <1>5, FoundStays DEF AreOffered
<1>7. Way \in Nat /\ Way' \in 0 .. Way
  BY <1>3, TrailIsFrames
<1>8. AreTaken(problem, fetched', trail, chosen, Way') /\ AreNested(problem, at, trail, chosen, Way')
  BY <1>1, <1>4, <1>5, <1>7, TakenAlike
<1>. QED BY <1>1, <1>6, <1>8 DEF TakenInv

(* A name nothing was chosen for. *)
LEMMA ChooseTakes == ResolverInv /\ SearchedInv /\ SearchedInv' /\ TakenInv /\ Choose => TakenInv'
<1>. SUFFICES ASSUME ResolverInv, SearchedInv, SearchedInv', TakenInv, Choose,
                     (IsHonest(problem) /\ status \in {"search", "back", "dead"})'
              PROVE  TakenInv'
  BY DEF TakenInv
<1>1. PICK need : need = Head(pending)
  OBVIOUS
<1>2. PICK offer : offer = Options(problem, need, TRUE, fetched)
  OBVIOUS
<1>3. PICK frame : frame = Frame(Matching(need, offer.all), IF offer.pinned THEN problem.pins[need.name].version ELSE None)
  OBVIOUS
<1>4. /\ status = "search" /\ pending # <<>>
      /\ status' = (IF offer.ok THEN "back" ELSE "error") /\ fetched' = fetched \cup offer.fetches
      /\ trail' = (IF ~offer.ok THEN trail ELSE Append(trail, frame))
      /\ UNCHANGED <<problem, at, pending, chosen>>
  BY <1>1, <1>2, <1>3 DEF Choose, Searching
<1>5. offer.ok /\ status' = "back" /\ trail' = Append(trail, frame)
  BY <1>4
<1>6. PICK top : top = Len(trail) + 1
  OBVIOUS
<1>7. /\ frame.need = need /\ frame.left = Matching(need, offer.all) /\ frame.chosen = chosen
      /\ frame.pin = IF offer.pinned THEN problem.pins[need.name].version ELSE None
  BY <1>1, <1>3 DEF Frame
<1>8. /\ top \in Nat \ {0} /\ DOMAIN trail = 1 .. top - 1 /\ Len(trail') = top /\ DOMAIN trail' = 1 .. top
      /\ trail'[top] = frame /\ \A k \in 1 .. top - 1 : trail'[k] = trail[k]
  BY <1>5, <1>6, FrameMore, TrailIsFrames
<1>9. IsHonest(problem) /\ Way = top /\ Way' = top
  BY <1>4, <1>5, <1>6, <1>8 DEF Way
<1>10. /\ AreOffered(problem, fetched, trail)
       /\ AreTaken(problem, fetched, trail, chosen, top) /\ AreNested(problem, at, trail, chosen, top)
  BY <1>4, <1>9 DEF TakenInv
<1>11. AreUnique(fetched) /\ AreUnique(fetched')
  BY <1>4, <1>5, <1>9 DEF SearchedInv, IsSearched
<1>12. IsNeed(need, URLs(problem))
  BY <1>1, <1>4, HeadIsNeed DEF ResolverInv, SearchInv
<1>13. PICK usePin \in BOOLEAN : usePin = TRUE
  OBVIOUS
<1>14. offer = Options(problem, need, usePin, fetched)
  BY <1>2, <1>13
<1>15. IsWorld(problem) /\ AreCommits(problem, fetched)
  BY DEF ResolverInv, FetchedInv
<1>16. /\ offer.pinned <=> usePin /\ need.want.kind = "registry" /\ ApplicablePin(problem, need)
       /\ offer.pinned => IsVersion(problem.pins[need.name].version)
  <2>1. offer.pinned <=> usePin /\ need.want.kind = "registry" /\ ApplicablePin(problem, need)
    BY <1>4, <1>5, <1>9, <1>11, <1>12, <1>14, <1>15, OffersFind
  <2>2. offer.pinned => IsVersion(problem.pins[need.name].version)
    BY <1>4, <1>5, <1>9, <1>11, <1>12, <1>14, <1>15, OffersFind
  <2>. QED BY <2>1, <2>2
<1>17. ASSUME NEW c \in frame.left PROVE IsOffered(problem, fetched', frame, c)
  <2>1. c \in Matching(need, offer.all)
    BY <1>7
  <2>2. IsFound(problem, fetched', need.name, c) /\ WantMatches(need.want, c.source)
    BY <1>4, <1>5, <1>9, <1>11, <1>12, <1>14, <2>1, OfferedWereFound
  <2>3. offer.pinned => c.version = problem.pins[need.name].version
    BY <1>4, <1>5, <1>9, <1>11, <1>12, <1>14, <2>1, OfferedWereFound
  <2>4. need.want.kind = "registry" /\ ApplicablePin(problem, need) =>
          frame.pin # None /\ c.version = problem.pins[need.name].version
    BY <1>7, <1>13, <1>16, <2>3, NoneAssumption
  <2>. QED BY <1>7, <2>2, <2>4 DEF IsOffered
<1>18. AreOffered(problem, fetched', trail')
  <2>1. ASSUME NEW k \in DOMAIN trail', NEW c \in trail'[k].left PROVE IsOffered(problem, fetched', trail'[k], c)
    <3>1. CASE k = top
      BY <1>8, <1>17, <2>1, <3>1
    <3>2. CASE k \in 1 .. top - 1
      <4>1. IsOffered(problem, fetched, trail[k], c)
        BY <1>8, <1>10, <2>1, <3>2 DEF AreOffered
      <4>. QED BY <1>4, <1>8, <1>11, <3>2, <4>1, FoundStays
    <3>. QED BY <1>8, <3>1, <3>2
  <2>. QED BY <2>1 DEF AreOffered
<1>19. \A k \in 1 .. top : Stage(trail', chosen, k) = Stage(trail, chosen, k)
  <2>1. ASSUME NEW k \in 1 .. top PROVE Stage(trail', chosen, k) = Stage(trail, chosen, k)
    <3>1. CASE k = top
      BY <1>7, <1>8, <3>1 DEF Stage
    <3>2. CASE k \in 1 .. top - 1
      BY <1>8, <3>2 DEF Stage
    <3>. QED BY <1>8, <3>1, <3>2
  <2>. QED BY <2>1
<1>20. AreTaken(problem, fetched', trail', chosen, top) /\ AreNested(problem, at, trail', chosen, top)
  <2>1. top \in 0 .. top /\ top \in Nat /\ fetched \subseteq fetched'
    BY <1>4, <1>8
  <2>. QED BY <1>8, <1>10, <1>11, <1>19, <2>1, TakenAlike
<1>. QED BY <1>4, <1>9, <1>18, <1>20 DEF TakenInv

(* The newest of what is left. *)
LEMMA TryNextTakes == ResolverInv /\ SearchedInv' /\ SearchedInv /\ TakenInv /\ TryNext => TakenInv'
<1>. SUFFICES ASSUME ResolverInv, SearchedInv', SearchedInv, TakenInv, TryNext,
                     (IsHonest(problem) /\ status \in {"search", "back", "dead"})'
              PROVE  TakenInv'
  BY DEF TakenInv
<1>1. PICK last : last = Last(trail)
  OBVIOUS
<1>2. PICK c \in last.left : /\ IsNewest(c, last.left)
                             /\ trail' = Append(Front(trail), [last EXCEPT !.left = @ \ {c}])
                             /\ chosen' = Extend(last.chosen, last.need.name, c)
  BY <1>1 DEF TryNext
<1>3. status = "back" /\ trail # <<>> /\ status' = "search" /\ UNCHANGED <<problem, at, fetched>>
  BY DEF TryNext, Backing
<1>4. PICK next : next = [last EXCEPT !.left = @ \ {c}]
  OBVIOUS
<1>5. PICK top : top = Len(trail)
  OBVIOUS
<1>6. /\ top \in Nat \ {0} /\ DOMAIN trail = 1 .. top /\ last = trail[top]
      /\ Len(trail') = top /\ DOMAIN trail' = 1 .. top /\ trail'[top] = next
      /\ \A k \in 1 .. top - 1 : trail'[k] = trail[k]
  <2>1. trail' = Append(Front(trail), next)
    BY <1>2, <1>4
  <2>2. trail \in Seq(Range(trail)) /\ trail # <<>>
    BY <1>3, TrailIsFrames
  <2>. QED BY <1>1, <1>5, <2>1, <2>2, LastFrame
<1>7. IsHonest(problem) /\ Way = top /\ Way' = top + 1
  BY <1>3, <1>5, <1>6 DEF Way
<1>8. /\ AreOffered(problem, fetched, trail)
      /\ AreTaken(problem, fetched, trail, chosen, top) /\ AreNested(problem, at, trail, chosen, top)
  BY <1>3, <1>7 DEF TakenInv
<1>9. top \in DOMAIN trail /\ IsFrame(problem, Own, last)
  <2>1. top \in DOMAIN trail
    BY <1>6
  <2>. QED BY <1>6, <2>1, TrailIsFrames
<1>10. /\ next.need = last.need /\ next.left = last.left \ {c} /\ next.pin = last.pin /\ next.chosen = last.chosen
  BY <1>4, <1>9 DEF IsFrame
<1>11. \A k \in 1 .. top : Stage(trail', chosen', k) = Stage(trail, chosen, k)
  <2>1. ASSUME NEW k \in 1 .. top PROVE Stage(trail', chosen', k) = Stage(trail, chosen, k)
    <3>1. CASE k = top
      BY <1>6, <1>10, <3>1 DEF Stage
    <3>2. CASE k \in 1 .. top - 1
      BY <1>6, <3>2 DEF Stage
    <3>. QED BY <1>6, <3>1, <3>2
  <2>. QED BY <2>1
<1>12. AreUnique(fetched) /\ AreLinked(problem, at, trail', chosen', top + 1)
  BY <1>3, <1>7 DEF SearchedInv, IsSearched
<1>13. AreTaken(problem, fetched, trail', chosen', top) /\ AreNested(problem, at, trail', chosen', top)
  <2>1. top \in 0 .. top /\ top \in Nat /\ fetched \subseteq fetched
    BY <1>6
  <2>. QED BY <1>6, <1>8, <1>11, <1>12, <2>1, TakenAlike
<1>14. Taken(trail', chosen', top) = c
  <2>1. Stage(trail', chosen', top + 1) = chosen' /\ trail'[top].need = last.need
    BY <1>6, <1>10 DEF Stage
  <2>2. chosen'[last.need.name] = c
    BY <1>2 DEF Extend
  <2>. QED BY <2>1, <2>2 DEF Taken
<1>15. \A o \in last.left : IsOffered(problem, fetched, next, o)
  <2>1. \A o \in last.left : IsOffered(problem, fetched, last, o)
    BY <1>6, <1>8, <1>9 DEF AreOffered
  <2>. QED BY <1>10, <2>1 DEF IsOffered
<1>16. AreTaken(problem, fetched, trail', chosen', top + 1)
  <2>1. ASSUME NEW k \in 1 .. top
        PROVE  /\ IsOffered(problem, fetched, trail'[k], Taken(trail', chosen', k))
               /\ \A o \in trail'[k].left : ~Below(Taken(trail', chosen', k).version, o.version)
    <3>1. CASE k = top
      <4>1. IsOffered(problem, fetched, next, c)
        BY <1>2, <1>15
      <4>2. \A o \in next.left : ~Below(c.version, o.version)
        BY <1>2, <1>10 DEF IsNewest
      <4>. QED BY <1>6, <1>14, <3>1, <4>1, <4>2
    <3>2. CASE k \in 1 .. top - 1
      BY <1>13, <3>2 DEF AreTaken
    <3>. QED BY <1>6, <3>1, <3>2
  <2>2. 1 .. top + 1 - 1 = 1 .. top
    BY <1>6
  <2>3. \A k \in 1 .. top : IsOffered(problem, fetched, trail'[k], Taken(trail', chosen', k))
    BY <2>1
  <2>4. \A k \in 1 .. top : \A o \in trail'[k].left : ~Below(Taken(trail', chosen', k).version, o.version)
    BY <2>1
  <2>5. top \in Nat
    BY <1>6
  <2>. QED BY <2>3, <2>4, <2>5 DEF AreTaken
<1>17. AreNested(problem, at, trail', chosen', top + 1)
  <2>1. trail'[top].need.name \notin DOMAIN Stage(trail', chosen', top)
    <3>1. Stage(trail', chosen', top) = last.chosen /\ trail'[top].need = last.need
      BY <1>6, <1>10 DEF Stage
    <3>2. last.need.name \notin DOMAIN last.chosen
      BY <1>9 DEF IsFrame
    <3>. QED BY <3>1, <3>2
  <2>2. AreNested(problem, at, trail', chosen', top) /\ AreLinked(problem, at, trail', chosen', top + 1)
    BY <1>12, <1>13
  <2>. QED BY <1>6, <2>1, <2>2, NestedGrows
<1>18. AreOffered(problem, fetched, trail')
  <2>1. ASSUME NEW k \in DOMAIN trail', NEW o \in trail'[k].left PROVE IsOffered(problem, fetched, trail'[k], o)
    <3>1. CASE k = top
      BY <1>6, <1>10, <1>15, <2>1, <3>1
    <3>2. CASE k \in 1 .. top - 1
      BY <1>6, <1>8, <2>1, <3>2 DEF AreOffered
    <3>. QED BY <1>6, <3>1, <3>2
  <2>. QED BY <2>1 DEF AreOffered
<1>. QED BY <1>3, <1>7, <1>16, <1>17, <1>18 DEF TakenInv

(* The pin did not do. *)
LEMMA LeavePinTakes == ResolverInv /\ SearchedInv /\ SearchedInv' /\ TakenInv /\ LeavePin => TakenInv'
<1>. SUFFICES ASSUME ResolverInv, SearchedInv, SearchedInv', TakenInv, LeavePin,
                     (IsHonest(problem) /\ status \in {"search", "back", "dead"})'
              PROVE  TakenInv'
  BY DEF TakenInv
<1>1. PICK last : last = Last(trail)
  OBVIOUS
<1>2. PICK need : need = last.need
  OBVIOUS
<1>3. PICK all : all = Options(problem, need, FALSE, fetched)
  OBVIOUS
<1>4. PICK left : left = Matching(need, {c \in all.all : c.version # last.pin})
  OBVIOUS
<1>5. PICK next : next = [last EXCEPT !.pin = None, !.left = left]
  OBVIOUS
<1>6. /\ status = "back" /\ trail # <<>> /\ last.pin # None
      /\ status' = (IF all.ok THEN "back" ELSE "error") /\ fetched' = fetched \cup all.fetches
      /\ trail' = Append(Front(trail), next)
      /\ UNCHANGED <<problem, at, pending, chosen>>
  BY <1>1, <1>2, <1>3, <1>4, <1>5 DEF LeavePin, Backing
<1>7. all.ok /\ status' = "back"
  BY <1>6
<1>8. PICK top : top = Len(trail)
  OBVIOUS
<1>9. /\ top \in Nat \ {0} /\ DOMAIN trail = 1 .. top /\ last = trail[top]
      /\ Len(trail') = top /\ DOMAIN trail' = 1 .. top /\ trail'[top] = next
      /\ \A k \in 1 .. top - 1 : trail'[k] = trail[k]
  <2>1. trail \in Seq(Range(trail)) /\ trail # <<>>
    BY <1>6, TrailIsFrames
  <2>. QED BY <1>1, <1>6, <1>8, <2>1, LastFrame
<1>10. IsHonest(problem) /\ Way = top /\ Way' = top
  BY <1>6, <1>7, <1>8, <1>9 DEF Way
<1>11. /\ AreOffered(problem, fetched, trail)
       /\ AreTaken(problem, fetched, trail, chosen, top) /\ AreNested(problem, at, trail, chosen, top)
  BY <1>6, <1>10 DEF TakenInv
<1>12. top \in DOMAIN trail /\ IsFrame(problem, Own, last)
  <2>1. top \in DOMAIN trail
    BY <1>9
  <2>. QED BY <1>9, <2>1, TrailIsFrames
<1>13. next.need = need /\ next.left = left /\ next.pin = None /\ next.chosen = last.chosen
  BY <1>2, <1>5, <1>12 DEF IsFrame
<1>14. \A k \in 1 .. top : Stage(trail', chosen, k) = Stage(trail, chosen, k)
  <2>1. ASSUME NEW k \in 1 .. top PROVE Stage(trail', chosen, k) = Stage(trail, chosen, k)
    <3>1. CASE k = top
      BY <1>9, <1>13, <3>1 DEF Stage
    <3>2. CASE k \in 1 .. top - 1
      BY <1>9, <3>2 DEF Stage
    <3>. QED BY <1>9, <3>1, <3>2
  <2>. QED BY <2>1
<1>15. AreUnique(fetched) /\ AreUnique(fetched') /\ ArePinned(problem, trail)
  BY <1>6, <1>7, <1>10 DEF SearchedInv, IsSearched
<1>16. AreTaken(problem, fetched', trail', chosen, top) /\ AreNested(problem, at, trail', chosen, top)
  <2>1. top \in 0 .. top /\ top \in Nat /\ fetched \subseteq fetched'
    BY <1>6, <1>9
  <2>. QED BY <1>9, <1>11, <1>14, <1>15, <2>1, TakenAlike
<1>17. IsNeed(need, URLs(problem)) /\ last.pin = problem.pins[need.name].version
  BY <1>2, <1>6, <1>9, <1>12, <1>15 DEF IsFrame, ArePinned
<1>18. PICK usePin \in BOOLEAN : usePin = FALSE
  OBVIOUS
<1>19. all = Options(problem, need, usePin, fetched)
  BY <1>3, <1>18
<1>20. ASSUME NEW c \in left PROVE IsOffered(problem, fetched', next, c)
  <2>1. c \in Matching(need, all.all) /\ c.version # last.pin
    BY <1>4 DEF Matching
  <2>2. IsFound(problem, fetched', need.name, c) /\ WantMatches(need.want, c.source)
    BY <1>6, <1>7, <1>10, <1>15, <1>17, <1>19, <2>1, OfferedWereFound
  <2>. QED BY <1>13, <1>17, <2>1, <2>2 DEF IsOffered
<1>21. AreOffered(problem, fetched', trail')
  <2>1. ASSUME NEW k \in DOMAIN trail', NEW c \in trail'[k].left PROVE IsOffered(problem, fetched', trail'[k], c)
    <3>1. CASE k = top
      BY <1>9, <1>13, <1>20, <2>1, <3>1
    <3>2. CASE k \in 1 .. top - 1
      <4>1. IsOffered(problem, fetched, trail[k], c)
        BY <1>9, <1>11, <2>1, <3>2 DEF AreOffered
      <4>. QED BY <1>6, <1>9, <1>15, <3>2, <4>1, FoundStays
    <3>. QED BY <1>9, <3>1, <3>2
  <2>. QED BY <2>1 DEF AreOffered
<1>. QED BY <1>6, <1>10, <1>16, <1>21 DEF TakenInv

(* Nothing is left to be tried. *)
LEMMA ExhaustTakes == ResolverInv /\ SearchedInv /\ TakenInv /\ (Exhaust \/ GiveUp) => TakenInv'
<1>. SUFFICES ASSUME ResolverInv, SearchedInv, TakenInv, Exhaust \/ GiveUp, IsHonest(problem)
              PROVE  TakenInv'
  BY DEF TakenInv, Exhaust, GiveUp
<1>1. CASE GiveUp
  <2>1. /\ status = "back" /\ status' = "dead" /\ UNCHANGED <<problem, at, chosen, trail, fetched>>
    BY <1>1 DEF GiveUp
  <2>2. Way' = Way
    BY <2>1 DEF Way
  <2>. QED BY <2>1, <2>2 DEF TakenInv
<1>2. CASE Exhaust
  <2>1. /\ status = "back" /\ trail # <<>> /\ trail' = Front(trail)
        /\ UNCHANGED <<problem, at, status, chosen, fetched>>
    BY <1>2 DEF Exhaust, Backing
  <2>2. PICK top : top = Len(trail)
    OBVIOUS
  <2>3. /\ top \in Nat \ {0} /\ DOMAIN trail = 1 .. top /\ Len(trail') = top - 1 /\ DOMAIN trail' = 1 .. top - 1
        /\ \A k \in 1 .. top - 1 : trail'[k] = trail[k]
    BY <2>1, <2>2, TrailIsFrames, LastFrame
  <2>4. Way = top /\ Way' = top - 1
    BY <2>1, <2>2, <2>3 DEF Way
  <2>5. /\ AreOffered(problem, fetched, trail)
        /\ AreTaken(problem, fetched, trail, chosen, top) /\ AreNested(problem, at, trail, chosen, top)
    BY <2>1, <2>4 DEF TakenInv
  <2>6. AreUnique(fetched)
    BY <2>1 DEF SearchedInv, IsSearched
  <2>7. AreOffered(problem, fetched, trail')
    BY <2>3, <2>5 DEF AreOffered
  <2>8. \A k \in 1 .. top - 1 : Stage(trail', chosen, k) = Stage(trail, chosen, k)
    BY <2>3 DEF Stage
  <2>9. AreTaken(problem, fetched, trail', chosen, top - 1) /\ AreNested(problem, at, trail', chosen, top - 1)
    <3>1. top - 1 \in 0 .. top /\ top \in Nat /\ fetched \subseteq fetched
      BY <2>3
    <3>2. \A k \in 1 .. top - 1 - 1 : trail'[k] = trail[k]
      BY <2>3
    <3>. QED BY <2>5, <2>6, <2>8, <3>1, <3>2, TakenAlike
  <2>. QED BY <2>1, <2>4, <2>7, <2>9 DEF TakenInv
<1>. QED BY <1>1, <1>2

(* At the start nothing was taken. *)
LEMMA AfreshIsTaken ==
  ASSUME NEW P, NEW found, NEW i, NEW now, DOMAIN now = {Root(P, i)}
  PROVE  AreOffered(P, found, <<>>) /\ AreTaken(P, found, <<>>, now, 1) /\ AreNested(P, i, <<>>, now, 1)
<1>1. DOMAIN <<>> = {} /\ \A k \in 1 .. 1 - 1 : FALSE
  OBVIOUS
<1>2. \A k \in 1 .. 1 : k = 1 /\ \A j \in 1 .. k : j = k
  OBVIOUS
<1>3. Stage(<<>>, now, 1) = now
  BY <1>1 DEF Stage
<1>4. AreNested(P, i, <<>>, now, 1)
  BY <1>2, <1>3 DEF AreNested
<1>. QED BY <1>1, <1>4 DEF AreOffered, AreTaken

(* ... of a first member. *)
LEMMA InitTakes == Init => TakenInv
<1>. SUFFICES ASSUME Init, status = "search" PROVE TakenInv
  <2>1. ASSUME Init PROVE status \in {"search", "error"}
    BY <2>1 DEF Init, Begin
  <2>. QED BY <2>1 DEF TakenInv
<1>1. at = 1 /\ Begin(1).status = "search" /\ chosen = Begin(1).chosen /\ trail = <<>>
  BY DEF Init
<1>2. Way = 1
  BY <1>1 DEF Way
<1>3. chosen = [n \in {Root(problem, at)} |-> Member(problem, at)]
  BY <1>1, BeginIsMember
<1>. QED BY <1>1, <1>2, <1>3, AfreshIsTaken DEF TakenInv

(* ... of the next, and of another run. *)
LEMMA BeginTakes == ResolverInv /\ SearchedInv /\ SearchedInv' /\ (Finish \/ Again) => TakenInv'
<1>. SUFFICES ASSUME ResolverInv, SearchedInv, SearchedInv', Finish \/ Again,
                     (IsHonest(problem) /\ status \in {"search", "back", "dead"})'
              PROVE  TakenInv'
  BY DEF TakenInv
<1>1. trail' = <<>> /\ status' \in {"search", "error"}
  BY DEF Finish, Again, Begin
<1>2. Way' = 1 /\ status' = "search"
  BY <1>1 DEF Way
<1>3. IsSearched(problem', fetched', at', trail', chosen', 1)
  BY <1>2 DEF SearchedInv
<1>4. AreLinked(problem', at', <<>>, chosen', 1)
  BY <1>1, <1>3 DEF IsSearched
<1>5. Stage(<<>>, chosen', 1) = chosen'
  <2>1. DOMAIN <<>> = {}
    OBVIOUS
  <2>. QED BY <2>1 DEF Stage
<1>6. DOMAIN chosen' = {Root(problem', at')}
  BY <1>4, <1>5 DEF AreLinked
<1>7. AreOffered(problem', fetched', <<>>) /\ AreTaken(problem', fetched', <<>>, chosen', 1)
      /\ AreNested(problem', at', <<>>, chosen', 1)
  BY <1>6, AfreshIsTaken
<1>. QED BY <1>1, <1>2, <1>7 DEF TakenInv

(* Whoever pushes, what was found stays found. *)
LEMMA PushTakes == ResolverInv /\ TakenInv /\ Push => TakenInv'
<1>. SUFFICES ASSUME ResolverInv, TakenInv, Push, (IsHonest(problem) /\ status \in {"search", "back", "dead"})'
              PROVE  TakenInv'
  BY DEF TakenInv
<1>1. PICK Q : Q = problem'
  OBVIOUS
<1>2. /\ URLs(Q) = URLs(problem) /\ Q.members = problem.members /\ Q.directories = problem.directories
      /\ Q.toolchain = problem.toolchain /\ Q.configured = problem.configured
      /\ Q.registries = problem.registries /\ Q.pins = problem.pins /\ Q.precise = problem.precise
      /\ \A u \in URLs(problem) : Q.repositories[u].commits = problem.repositories[u].commits
  BY <1>1, PushMovesHeads
<1>3. UNCHANGED <<at, status, chosen, trail, fetched>>
  BY DEF Push
<1>4. \A found, n, p : IsPossible(problem, found, n, p) => IsPossible(Q, found, n, p)
  BY <1>2, PossibleAlike
<1>5. IsHonest(Q) => IsHonest(problem)
  BY <1>2, PossibleAlike
<1>6. \A i : Root(Q, i) = Root(problem, i)
  BY <1>2 DEF Root
<1>7. \A found, n, p : IsFound(problem, found, n, p) => IsFound(Q, found, n, p)
  <2>1. \A n, source : IsPinned(problem, n, source) <=> IsPinned(Q, n, source)
    BY <1>2 DEF IsPinned
  <2>. QED BY <1>4, <2>1 DEF IsFound
<1>8. \A found, frame, c : IsOffered(problem, found, frame, c) => IsOffered(Q, found, frame, c)
  <2>1. \A need : ApplicablePin(Q, need) <=> ApplicablePin(problem, need)
    BY <1>2 DEF ApplicablePin
  <2>. QED BY <1>2, <1>7, <2>1 DEF IsOffered
<1>9. /\ AreOffered(problem, fetched, trail)
      /\ AreTaken(problem, fetched, trail, chosen, Way) /\ AreNested(problem, at, trail, chosen, Way)
  BY <1>1, <1>3, <1>5 DEF TakenInv
<1>10. AreOffered(Q, fetched, trail)
  BY <1>8, <1>9 DEF AreOffered
<1>11. AreTaken(Q, fetched, trail, chosen, Way)
  BY <1>8, <1>9 DEF AreTaken
<1>12. AreNested(Q, at, trail, chosen, Way)
  BY <1>6, <1>9 DEF AreNested
<1>13. Way' = Way
  BY <1>3 DEF Way
<1>. QED BY <1>1, <1>3, <1>10, <1>11, <1>12, <1>13 DEF TakenInv

(* No step leaves it. *)
LEMMA NextTakes == ResolverInv /\ SearchedInv /\ SearchedInv' /\ TakenInv /\ [Next]_vars => TakenInv'
<1>1. ASSUME TakenInv, UNCHANGED vars PROVE TakenInv'
  BY <1>1 DEF TakenInv, vars, Way
<1>. QED BY <1>1, AgreeTakes, DisagreeTakes, ChooseTakes, TryNextTakes, LeavePinTakes,
            ExhaustTakes, BeginTakes, PushTakes DEF Next, Resolve

-----------------------------------------------------------------------------
(* The answer of a workspace of one *)

(* Nothing is agreed on before the first member is resolved. *)
FreshInv == at = 1 /\ status # "solved" => merged = <<>>

(* Members are agreed on one after the other. *)
LEMMA NextIsFresh == ResolverInv /\ FreshInv /\ [Next]_vars => FreshInv'
<1>. SUFFICES ASSUME ResolverInv, FreshInv, [Next]_vars PROVE FreshInv'
  OBVIOUS
<1>1. CASE Agree \/ Disagree \/ Choose \/ TryNext \/ LeavePin \/ Exhaust \/ GiveUp
  <2>1. UNCHANGED <<at, merged>> /\ status # "solved"
    BY <1>1 DEF Agree, Disagree, Choose, TryNext, LeavePin, Exhaust, GiveUp, Searching, Backing
  <2>. QED BY <2>1 DEF FreshInv
<1>2. CASE Finish
  <2>1. status = "search"
    BY <1>2 DEF Finish
  <2>2. CASE Stands
    <3>1. status' = "solved" \/ at' = at + 1
      BY <1>2, <2>2 DEF Finish
    <3>2. at \in DOMAIN problem.members /\ problem.members \in Seq(Range(problem.members))
      BY DEF ResolverInv, IsWorld
    <3>3. at \in Nat /\ at >= 1
      BY <3>2
    <3>. QED BY <3>1, <3>3 DEF FreshInv
  <2>3. CASE ~Stands
    <3>1. UNCHANGED <<at, merged>>
      BY <1>2, <2>3 DEF Finish
    <3>. QED BY <2>1, <3>1 DEF FreshInv
  <2>. QED BY <2>2, <2>3
<1>3. CASE Again
  BY <1>3 DEF Again, FreshInv
<1>4. CASE Push
  BY <1>4 DEF Push, FreshInv
<1>5. CASE UNCHANGED vars
  BY <1>5 DEF vars, FreshInv
<1>. QED BY <1>1, <1>2, <1>3, <1>4, <1>5 DEF Next, Resolve

(* Nothing of the world, and nothing git was run for: the same candidates. *)
LEMMA CandidatesStay ==
  ASSUME UNCHANGED <<problem, fetched>>
  PROVE  /\ \A n : Candidates(problem, n)' = Candidates(problem, n)
         /\ \A i : Solutions(problem, i)' = Solutions(problem, i)
<1>1. \A w : FoundFor(w)' = FoundFor(w)
  BY DEF FoundFor
<1>2. \A n, w : Commits(problem, n, w)' = Commits(problem, n, w)
  BY <1>1 DEF Commits
<1>3. \A n : InRepositories(problem, n)' = InRepositories(problem, n)
  <2>1. \A n, w : AtCommits(problem, n, w)' = AtCommits(problem, n, w)
    BY <1>2 DEF AtCommits
  <2>. QED BY <2>1 DEF InRepositories
<1>4. \A n : Contents(problem, n)' = Contents(problem, n)
  BY <1>3 DEF Contents
<1>5. \A n : Candidates(problem, n)' = Candidates(problem, n)
  BY <1>4 DEF Candidates
<1>6. \A i : Solutions(problem, i)' = Solutions(problem, i)
  BY <1>5 DEF Solutions
<1>. QED BY <1>5, <1>6

(* What is the same, is possible as well. *)
LEMMA SameIsPossible ==
  ASSUME NEW P, NEW found, NEW n, NEW p, IsPossible(P, found, n, p), NEW q, Same(p, q)
  PROVE  IsPossible(P, found, n, q)
<1>1. q.version = p.version /\ q.source = p.source /\ q.content = p.content /\ Range(q.needs) = Range(p.needs)
  BY DEF Same
<1>2. IsSomewhere(P, n, p)
  BY DEF IsPossible
<1>3. IsPublished(P, n, q) <=> IsPublished(P, n, p)
  BY <1>1 DEF IsPublished
<1>4. IsCommit(P, n, q) <=> IsCommit(P, n, p)
  BY <1>1 DEF IsCommit
<1>5. IsSomewhere(P, n, q)
  BY <1>1, <1>2, <1>3, <1>4 DEF IsSomewhere
<1>. QED BY <1>1, <1>5 DEF IsPossible

(* The answer of a workspace of one member: the member itself, and of every other
   name what was taken for it, as its archive has it. *)
LEMMA AnswerWasTaken ==
  ASSUME ResolverInv, SearchedInv, TakenInv, FreshInv, Finish, status' = "solved",
         Len(problem.members) = 1, IsHonest(problem)
  PROVE  /\ at = 1 /\ UNCHANGED <<problem, fetched>> /\ DOMAIN merged' = DOMAIN chosen
         /\ Root(problem, 1) \in DOMAIN chosen /\ chosen[Root(problem, 1)] = Member(problem, 1)
         /\ \A n \in DOMAIN chosen : Same(chosen[n], merged'[n])
         /\ \A n \in DOMAIN chosen \ {Root(problem, 1)} : IsPossible(problem, fetched, n, merged'[n])
         /\ IsSearched(problem, fetched, 1, trail, chosen, Len(trail) + 1)
         /\ AreOffered(problem, fetched, trail)
         /\ AreTaken(problem, fetched, trail, chosen, Len(trail) + 1)
         /\ AreNested(problem, 1, trail, chosen, Len(trail) + 1)
         /\ Len(trail) + 1 \in Nat \ {0} /\ Stage(trail, chosen, Len(trail) + 1) = chosen
<1>1. status = "search" /\ pending = <<>> /\ UNCHANGED <<problem, fetched>>
  BY DEF Finish
<1>2. at = 1
  <2>1. at \in DOMAIN problem.members /\ problem.members \in Seq(Range(problem.members))
    BY DEF ResolverInv, IsWorld
  <2>. QED BY <2>1
<1>3. merged = <<>>
  BY <1>1, <1>2 DEF FreshInv
<1>4. Stands /\ merged' = [n \in DOMAIN merged \cup DOMAIN chosen |->
                              IF n \in DOMAIN merged THEN merged[n] ELSE Settled[n]]
  BY DEF Finish
<1>5. DOMAIN merged' = DOMAIN chosen /\ \A n \in DOMAIN chosen : merged'[n] = Settled[n]
  BY <1>3, <1>4
<1>6. Way = Len(trail) + 1
  BY <1>1 DEF Way
<1>7. /\ IsSearched(problem, fetched, 1, trail, chosen, Len(trail) + 1)
      /\ AreOffered(problem, fetched, trail)
      /\ AreTaken(problem, fetched, trail, chosen, Len(trail) + 1)
      /\ AreNested(problem, 1, trail, chosen, Len(trail) + 1)
  BY <1>1, <1>2, <1>6 DEF SearchedInv, TakenInv
<1>8. Len(trail) + 1 \in Nat \ {0} /\ Stage(trail, chosen, Len(trail) + 1) = chosen
  BY TrailIsFrames DEF Stage
<1>9. Root(problem, 1) \in DOMAIN chosen /\ chosen[Root(problem, 1)] = Member(problem, 1)
  <2>1. Len(trail) + 1 \in 1 .. Len(trail) + 1
    BY <1>8
  <2>. QED BY <1>7, <1>8, <2>1 DEF IsSearched, AreLinked
<1>10. ASSUME NEW n \in DOMAIN chosen
       PROVE  /\ Settled[n].version = chosen[n].version /\ Settled[n].source = chosen[n].source
              /\ Settled[n].content = chosen[n].content
              /\ chosen[n].indexed => Settled[n].needs = NeedsOf(problem, chosen[n].content, chosen[n].source)
              /\ ~chosen[n].indexed => Settled[n] = chosen[n]
  <2>1. PICK p : p = chosen[n]
    OBVIOUS
  <2>2. p = Package(p.name, p.version, p.source, p.content, p.needs, p.indexed)
    BY <2>1 DEF ResolverInv, SearchInv, Branch, IsChosen
  <2>3. Settled[n] = IF p.indexed THEN [p EXCEPT !.needs = NeedsOf(problem, p.content, p.source)] ELSE p
    BY <2>1 DEF Settled
  <2>. QED BY <2>1, <2>2, <2>3 DEF Package
<1>11. ~chosen[Root(problem, 1)].indexed
  BY <1>9 DEF Member, Package
<1>12. Same(chosen[Root(problem, 1)], merged'[Root(problem, 1)])
  BY <1>5, <1>9, <1>10, <1>11 DEF Same
<1>13. ASSUME NEW n \in DOMAIN chosen \ {Root(problem, 1)}
       PROVE  Same(chosen[n], merged'[n]) /\ IsPossible(problem, fetched, n, merged'[n])
  <2>1. IsPossible(problem, fetched, n, chosen[n])
    <3>1. PICK top : top = Len(trail) + 1
      OBVIOUS
    <3>2. IsFound(problem, fetched, n, Stage(trail, chosen, top)[n])
      <4>1. /\ AreLinked(problem, 1, trail, chosen, top)
            /\ AreTaken(problem, fetched, trail, chosen, top) /\ AreNested(problem, 1, trail, chosen, top)
        BY <1>7, <3>1 DEF IsSearched
      <4>2. top \in Nat \ {0} /\ n \in DOMAIN Stage(trail, chosen, top) \ {Root(problem, 1)}
        BY <1>8, <3>1
      <4>. QED BY <4>1, <4>2, ChosenWereTaken
    <3>. QED BY <1>8, <3>1, <3>2 DEF IsFound
  <2>2. Range(chosen[n].needs) = Range(NeedsOf(problem, chosen[n].content, chosen[n].source))
    BY <2>1 DEF IsPossible, IsSomewhere
  <2>3. Range(Settled[n].needs) = Range(chosen[n].needs)
    BY <1>10, <2>2
  <2>4. Same(chosen[n], merged'[n])
    BY <1>5, <1>10, <2>3 DEF Same
  <2>. QED BY <2>1, <2>4, SameIsPossible
<1>. QED BY <1>1, <1>2, <1>5, <1>7, <1>8, <1>9, <1>12, <1>13

(* What would be newer was there to be tried first, or was tried. *)
LEMMA FinishIsNewest ==
  ResolverInv /\ SearchedInv /\ TakenInv /\ FreshInv /\ Finish /\ status' = "solved" => NothingNewerFits'
<1>. DEFINE own == Root(problem, 1)
<1>. SUFFICES ASSUME ResolverInv, SearchedInv, TakenInv, FreshInv, Finish, status' = "solved",
                     IsHonest(problem), DOMAIN problem.pins = {}, Len(problem.members) = 1,
                     NEW n \in DOMAIN merged' \ {own}, NEW c \in Candidates(problem, n),
                     Precedes(merged'[n].version, c.version),
                     IsClosed(Extend(merged', n, c), MemberNeeds(problem, 1))
              PROVE  FALSE
  <2>1. ASSUME Finish PROVE UNCHANGED <<problem, fetched>>
    BY <2>1 DEF Finish
  <2>. QED BY <2>1, CandidatesStay DEF NothingNewerFits, Ended, Root
<1>. HIDE DEF own
<1>1. PICK S : S = Extend(merged', n, c)
  OBVIOUS
<1>2. PICK top : top = Len(trail) + 1
  OBVIOUS
<1>3. /\ at = 1 /\ DOMAIN merged' = DOMAIN chosen /\ own \in DOMAIN chosen /\ chosen[own] = Member(problem, 1)
      /\ \A m \in DOMAIN chosen : Same(chosen[m], merged'[m])
      /\ \A m \in DOMAIN chosen \ {own} : IsPossible(problem, fetched, m, merged'[m])
  BY AnswerWasTaken DEF own
<1>4. /\ IsSearched(problem, fetched, 1, trail, chosen, top)
      /\ AreTaken(problem, fetched, trail, chosen, top) /\ AreNested(problem, 1, trail, chosen, top)
      /\ top \in Nat \ {0} /\ Stage(trail, chosen, top) = chosen
  BY <1>2, AnswerWasTaken
<1>5. /\ IsWorld(problem) /\ 1 \in DOMAIN problem.members /\ AreCommits(problem, fetched)
      /\ AreNeeds(MemberNeeds(problem, 1), URLs(problem))
  BY <1>3 DEF ResolverInv, SearchInv, FetchedInv, Own, Finish
<1>6. IsPossible(problem, fetched, n, c)
  BY <1>4, <1>5, CandidatesArePossible DEF IsSearched
<1>7. /\ DOMAIN S = DOMAIN chosen /\ S[n] = c /\ \A m \in DOMAIN chosen \ {n} : S[m] = merged'[m]
  BY <1>1, <1>3 DEF Extend
<1>8. IsChoice(problem, fetched, 1, S)
  <2>1. own \in DOMAIN S /\ Same(Member(problem, 1), S[own])
    BY <1>3, <1>7
  <2>2. \A m \in DOMAIN S \ {own} : IsPossible(problem, fetched, m, S[m])
    BY <1>3, <1>6, <1>7
  <2>3. IsClosed(S, MemberNeeds(problem, 1))
    BY <1>1
  <2>. QED BY <1>5, <2>1, <2>2, <2>3, ClosedAreChoices DEF own
<1>9. PICK k \in 1 .. top - 1 : trail[k].need.name = n /\ Taken(trail, chosen, k) = chosen[n]
  <2>1. n \in DOMAIN Stage(trail, chosen, top) \ {Root(problem, 1)}
    BY <1>3, <1>4 DEF own
  <2>2. AreLinked(problem, 1, trail, chosen, top)
    BY <1>4 DEF IsSearched
  <2>. QED BY <1>4, <2>1, <2>2, ChosenWereTaken
<1>10. k \in DOMAIN trail /\ IsFrame(problem, Own, trail[k])
  <2>1. k \in DOMAIN trail
    BY <1>2, TrailIsFrames
  <2>. QED BY <2>1, TrailIsFrames
<1>11. Agrees(trail[k].chosen, S)
  <2>1. ASSUME NEW m \in DOMAIN trail[k].chosen
        PROVE  m \in DOMAIN S /\ Same(trail[k].chosen[m], S[m])
    <3>1. Stage(trail, chosen, k) = trail[k].chosen
      BY <1>10 DEF Stage
    <3>2. k \in 1 .. top /\ top \in 1 .. top
      BY <1>4
    <3>3. m \in DOMAIN chosen /\ chosen[m] = trail[k].chosen[m]
      BY <1>4, <3>1, <3>2 DEF AreNested
    <3>4. m # n
      BY <1>9, <1>10 DEF IsFrame
    <3>. QED BY <1>3, <1>7, <3>3, <3>4
  <2>. QED BY <2>1 DEF Agrees
<1>12. IsTried(trail, chosen, top, k, S)
  BY <1>4, <1>8, <1>10 DEF IsSearched, AreTried
<1>13. merged'[n].version = chosen[n].version /\ IsVersion(merged'[n].version) /\ IsVersion(c.version)
  <2>1. merged'[n].version = chosen[n].version
    BY <1>3 DEF Same
  <2>2. IsVersion(merged'[n].version)
    BY <1>3, <1>5, PossibleAreNeeds
  <2>3. IsVersion(c.version)
    BY <1>5, <1>6, PossibleAreNeeds
  <2>. QED BY <2>1, <2>2, <2>3
<1>14. CASE \E o \in trail[k].left : Same(o, S[n])
  <2>1. PICK o \in trail[k].left : Same(o, c)
    BY <1>7, <1>14
  <2>2. ~Below(chosen[n].version, o.version)
    BY <1>4, <1>9 DEF AreTaken
  <2>3. Below(merged'[n].version, c.version)
    BY <1>13, PrecedesIsBelow
  <2>. QED BY <1>13, <2>1, <2>2, <2>3 DEF Same
<1>15. CASE trail[k].pin # None
  <2>1. n \in DOMAIN problem.pins
    BY <1>4, <1>9, <1>10, <1>15 DEF IsSearched, ArePinned
  <2>. QED BY <2>1
<1>16. CASE Same(Taken(trail, chosen, k), S[n])
  <2>1. merged'[n].version = c.version
    BY <1>7, <1>9, <1>13, <1>16 DEF Same
  <2>. QED BY <1>13, <2>1, NotBothFirst
<1>. QED BY <1>9, <1>11, <1>12, <1>14, <1>15, <1>16 DEF IsTried

(* Another answer in which every pin stands, and whatever is not pinned is what it
   is, would have been tried before. *)
LEMMA FinishMovesNoPin ==
  ResolverInv /\ SearchedInv /\ TakenInv /\ FreshInv /\ Finish /\ status' = "solved" => PinsMoveOnlyIfTheyMust'
<1>. DEFINE own == Root(problem, 1)
<1>. SUFFICES ASSUME ResolverInv, SearchedInv, TakenInv, FreshInv, Finish, status' = "solved",
                     IsHonest(problem), Len(problem.members) = 1, NEW S \in Solutions(problem, 1),
                     \A n \in DOMAIN S \ {own} :
                       IF n \in DOMAIN problem.pins THEN IsLocked(problem, n, S[n].source, S[n].version)
                       ELSE n \in DOMAIN merged' => S[n].version = merged'[n].version
              PROVE  \A n \in (DOMAIN problem.pins \cap DOMAIN merged') \ {own} :
                       IsLocked(problem, n, merged'[n].source, merged'[n].version)
  <2>1. ASSUME Finish PROVE UNCHANGED <<problem, fetched>>
    BY <2>1 DEF Finish
  <2>2. ASSUME Finish PROVE \A n, source, v : IsLocked(problem, n, source, v)' <=> IsLocked(problem, n, source, v)
    BY <2>1, <2>2 DEF IsLocked
  <2>. QED BY <2>1, <2>2, CandidatesStay DEF PinsMoveOnlyIfTheyMust, Ended, Root
<1>. HIDE DEF own
<1>2. PICK top : top = Len(trail) + 1
  OBVIOUS
<1>3. /\ at = 1 /\ DOMAIN merged' = DOMAIN chosen /\ own \in DOMAIN chosen /\ chosen[own] = Member(problem, 1)
      /\ \A m \in DOMAIN chosen : Same(chosen[m], merged'[m])
      /\ \A m \in DOMAIN chosen \ {own} : IsPossible(problem, fetched, m, merged'[m])
  BY AnswerWasTaken DEF own
<1>4. /\ IsSearched(problem, fetched, 1, trail, chosen, top)
      /\ AreOffered(problem, fetched, trail)
      /\ AreTaken(problem, fetched, trail, chosen, top) /\ AreNested(problem, 1, trail, chosen, top)
      /\ top \in Nat \ {0} /\ Stage(trail, chosen, top) = chosen
  BY <1>2, AnswerWasTaken
<1>5. /\ IsWorld(problem) /\ 1 \in DOMAIN problem.members /\ AreCommits(problem, fetched)
      /\ AreNeeds(MemberNeeds(problem, 1), URLs(problem))
  BY <1>3 DEF ResolverInv, SearchInv, FetchedInv, Own, Finish
<1>6. IsChoice(problem, fetched, 1, S)
  BY <1>4, <1>5, SolutionsAreChoices DEF IsSearched
<1>7. Agrees(Stage(trail, chosen, 1), S)
  <2>1. 1 \in 1 .. top /\ top >= 1
    BY <1>4
  <2>2. DOMAIN Stage(trail, chosen, 1) = {own} /\ Stage(trail, chosen, 1)[own] = Member(problem, 1)
    BY <1>4, <2>1 DEF IsSearched, AreLinked, own
  <2>. QED BY <1>6, <2>2 DEF IsChoice, Agrees, own
<1>8. ASSUME NEW k \in 1 .. top - 1, Agrees(Stage(trail, chosen, k), S)
      PROVE  Agrees(Stage(trail, chosen, k + 1), S)
  <2>1. PICK need : need = trail[k].need
    OBVIOUS
  <2>2. PICK n : n = need.name
    OBVIOUS
  <2>3. PICK p : p = Taken(trail, chosen, k)
    OBVIOUS
  <2>4. k \in DOMAIN trail /\ IsFrame(problem, Own, trail[k])
    <3>1. k \in DOMAIN trail
      BY <1>2, TrailIsFrames
    <3>. QED BY <3>1, TrailIsFrames
  <2>5. Stage(trail, chosen, k) = trail[k].chosen
    BY <2>4 DEF Stage
  <2>6. Met(need, S)
    BY <1>4, <1>6, <1>8, <2>1, <2>4, <2>5, ChoicesMeet DEF IsSearched, AreAskedFor
  <2>7. n \in DOMAIN S /\ Matches(need.requirement, S[n].version) /\ WantMatches(need.want, S[n].source)
    BY <2>2, <2>6 DEF Met
  <2>8. IsTried(trail, chosen, top, k, S)
    BY <1>4, <1>6, <2>4 DEF IsSearched, AreTried
  <2>9. IsOffered(problem, fetched, trail[k], p)
    BY <1>4, <2>3 DEF AreTaken
  <2>10. n # own /\ n \in DOMAIN chosen /\ p.version = merged'[n].version
    <3>1. own \in DOMAIN Stage(trail, chosen, k)
      <4>1. k \in 1 .. top
        BY <1>4
      <4>. QED BY <1>4, <4>1 DEF IsSearched, AreLinked, own
    <3>2. n \notin DOMAIN Stage(trail, chosen, k)
      BY <2>1, <2>2, <2>4, <2>5 DEF IsFrame
    <3>3. Stage(trail, chosen, k + 1) = Extend(Stage(trail, chosen, k), n, p)
      BY <1>4, <2>1, <2>2, <2>3 DEF IsSearched, AreLinked
    <3>4. n \in DOMAIN Stage(trail, chosen, k + 1) /\ Stage(trail, chosen, k + 1)[n] = p
      BY <3>3 DEF Extend
    <3>5. k + 1 \in 1 .. top /\ top \in 1 .. top
      BY <1>4
    <3>6. n \in DOMAIN chosen /\ chosen[n] = p
      BY <1>4, <3>4, <3>5 DEF AreNested
    <3>. QED BY <1>3, <3>1, <3>2, <3>6 DEF Same
  <2>11. IsPossible(problem, fetched, n, S[n])
    BY <1>6, <2>7, <2>10 DEF IsChoice, own
  <2>12. Named(p.source) = Named(S[n].source)
    BY <2>1, <2>7, <2>9 DEF IsOffered, WantMatches, Named
  <2>13. p.source.kind = need.want.kind
    <3>1. IsSource(p.source)
      BY <2>9 DEF IsOffered, IsFound, IsPossible, IsSomewhere
    <3>2. Named(p.source) = need.want
      BY <2>1, <2>9 DEF IsOffered, WantMatches, Named
    <3>3. Named(p.source) = Source(p.source.kind, p.source.place, p.source.reference, None)
      BY <3>1, NamedIs
    <3>4. Named(p.source).kind = p.source.kind
      BY <3>3 DEF Source
    <3>. QED BY <3>2, <3>4
  <2>14. Same(p, S[n])
    <3>1. ASSUME need.want.kind = "registry" PROVE p.version = S[n].version
      <4>1. CASE n \notin DOMAIN problem.pins
        BY <1>3, <2>7, <2>10, <4>1
      <4>2. CASE n \in DOMAIN problem.pins
        <5>1. problem.pins[n].source = S[n].source /\ problem.pins[n].version = S[n].version
          BY <2>7, <2>10, <4>2 DEF IsLocked
        <5>2. ApplicablePin(problem, need)
          <6>1. n \in DOMAIN problem.precise => problem.precise[n] = S[n].version
            BY <2>11 DEF IsPossible, IsSomewhere
          <6>. QED BY <2>2, <2>7, <4>2, <5>1, <6>1 DEF ApplicablePin
        <5>3. CASE \E c \in trail[k].left : Same(c, S[n])
          <6>1. PICK c \in trail[k].left : Same(c, S[n])
            BY <5>3
          <6>2. IsOffered(problem, fetched, trail[k], c)
            BY <1>4, <2>4 DEF AreOffered
          <6>3. c.version = problem.pins[n].version
            BY <5>1, <6>1 DEF Same
          <6>4. trail[k].pin # None
            BY <2>1, <2>2, <3>1, <5>2, <6>2, <6>3 DEF IsOffered
          <6>. QED BY <2>1, <2>2, <2>9, <3>1, <5>1, <5>2, <6>4 DEF IsOffered
        <5>4. CASE trail[k].pin # None /\ S[n].version # trail[k].pin
          <6>1. trail[k].pin = problem.pins[n].version
            BY <1>4, <2>1, <2>2, <2>4, <5>4 DEF IsSearched, ArePinned
          <6>. QED BY <5>1, <5>4, <6>1
        <5>5. CASE Same(p, S[n])
          BY <5>5 DEF Same
        <5>. QED BY <1>8, <2>1, <2>2, <2>3, <2>5, <2>8, <5>3, <5>4, <5>5 DEF IsTried
      <4>. QED BY <4>1, <4>2
    <3>2. IsFound(problem, fetched, n, p)
      BY <2>1, <2>2, <2>9 DEF IsOffered
    <3>. QED BY <1>5, <2>11, <2>12, <2>13, <3>1, <3>2, ThereIsOne
  <2>15. Stage(trail, chosen, k + 1) = Extend(Stage(trail, chosen, k), n, p)
    BY <1>4, <2>1, <2>2, <2>3 DEF IsSearched, AreLinked
  <2>. QED BY <1>8, <2>7, <2>14, <2>15 DEF Agrees, Extend
<1>9. Agrees(chosen, S)
  <2>1. SUFFICES ASSUME ~Agrees(chosen, S) PROVE FALSE
    OBVIOUS
  <2>. DEFINE T == {k \in 1 .. top : ~Agrees(Stage(trail, chosen, k), S)}
  <2>2. T \in SUBSET Nat /\ T # {}
    BY <1>4, <2>1
  <2>3. PICK k \in T : \A j \in T : k <= j
    BY <2>2, Least
  <2>4. k # 1 /\ k \in 1 .. top
    BY <1>7, <2>3
  <2>5. k - 1 \in 1 .. top - 1 /\ k - 1 \in 1 .. top /\ k - 1 < k /\ k - 1 + 1 = k
    BY <1>4, <2>4
  <2>6. k - 1 \notin T
    BY <2>3, <2>5
  <2>7. Agrees(Stage(trail, chosen, k - 1), S)
    BY <2>5, <2>6
  <2>8. Agrees(Stage(trail, chosen, k), S)
    BY <1>8, <2>5, <2>7
  <2>. QED BY <2>3, <2>8
<1>10. ASSUME NEW n \in (DOMAIN problem.pins \cap DOMAIN merged') \ {own}
       PROVE  IsLocked(problem, n, merged'[n].source, merged'[n].version)
  <2>1. n \in DOMAIN S /\ Same(chosen[n], S[n]) /\ Same(chosen[n], merged'[n])
    BY <1>3, <1>9 DEF Agrees
  <2>2. IsLocked(problem, n, S[n].source, S[n].version)
    BY <2>1
  <2>. QED BY <2>1, <2>2 DEF Same
<1>. QED BY <1>10

(* Only the end of a search answers. *)
LEMMA OnlyFinishSolves ==
  ASSUME [Next]_vars, status' = "solved"
  PROVE  Finish \/ UNCHANGED vars
<1>1. CASE Agree \/ Disagree \/ Choose \/ TryNext \/ LeavePin \/ Exhaust \/ GiveUp
  BY <1>1 DEF Agree, Disagree, Choose, TryNext, LeavePin, Exhaust, GiveUp, Searching, Backing
<1>2. CASE Again
  BY <1>2 DEF Again, Begin
<1>3. CASE Push
  BY <1>3 DEF Push
<1>. QED BY <1>1, <1>2, <1>3 DEF Next, Resolve

AnsweredInv == NothingNewerFits /\ PinsMoveOnlyIfTheyMust

(* What was answered stays as good an answer. *)
LEMMA NextAnswers ==
  ResolverInv /\ SearchedInv /\ TakenInv /\ FreshInv /\ AnsweredInv /\ [Next]_vars => AnsweredInv'
<1>. SUFFICES ASSUME ResolverInv, SearchedInv, TakenInv, FreshInv, AnsweredInv, [Next]_vars PROVE AnsweredInv'
  OBVIOUS
<1>1. CASE status' # "solved"
  BY <1>1 DEF AnsweredInv, NothingNewerFits, PinsMoveOnlyIfTheyMust, Ended
<1>2. CASE status' = "solved" /\ Finish
  BY <1>2, FinishIsNewest, FinishMovesNoPin DEF AnsweredInv
<1>3. CASE UNCHANGED vars
  <2>1. UNCHANGED <<problem, fetched, merged, status, first>>
    BY <1>3 DEF vars
  <2>2. /\ \A n : Candidates(problem, n)' = Candidates(problem, n)
        /\ \A i : Solutions(problem, i)' = Solutions(problem, i)
    BY <2>1, CandidatesStay
  <2>3. NothingNewerFits'
    BY <2>1, <2>2 DEF AnsweredInv, NothingNewerFits, Ended
  <2>4. PinsMoveOnlyIfTheyMust'
    BY <2>1, <2>2 DEF AnsweredInv, PinsMoveOnlyIfTheyMust, Ended
  <2>. QED BY <2>3, <2>4 DEF AnsweredInv
<1>. QED BY <1>1, <1>2, <1>3, OnlyFinishSolves

(* At the start nothing was answered. *)
LEMMA InitAnswers == Init => FreshInv /\ AnsweredInv
<1>. SUFFICES ASSUME Init PROVE FreshInv /\ AnsweredInv
  OBVIOUS
<1>1. merged = <<>> /\ status \in {"search", "error"}
  BY DEF Init, Begin
<1>. QED BY <1>1 DEF FreshInv, AnsweredInv, NothingNewerFits, PinsMoveOnlyIfTheyMust, Ended

(* All of it, together. *)
LEMMA SearchIsExact == Spec => [](ResolverInv /\ SearchedInv /\ TakenInv /\ FreshInv /\ AnsweredInv)
<1>. DEFINE Inv == ResolverInv /\ SearchedInv /\ TakenInv /\ FreshInv /\ AnsweredInv
<1>1. Init => Inv
  BY InitHolds, InitSearches, InitTakes, InitAnswers
<1>2. Inv /\ [Next]_vars => Inv'
  BY NextHolds, NextSearches, NextTakes, NextIsFresh, NextAnswers
<1>. QED BY <1>1, <1>2, PTL DEF Spec

(* The newest version that fits is selected: in a workspace of one member that has
   no lock, no package of the answer could be a newer one while the others stay,
   whatever order they were met and backtracked in. *)
THEOREM NewerNeverFits == Spec => []NothingNewerFits
<1>1. AnsweredInv => NothingNewerFits
  BY DEF AnsweredInv
<1>. QED BY <1>1, SearchIsExact, PTL

(* A locked package keeps its version unless no solution keeps it: where a workspace
   of one member could have an answer in which every locked package is the lock's and
   every other the version that was selected, it has it. *)
THEOREM PinsStand == Spec => []PinsMoveOnlyIfTheyMust
<1>1. AnsweredInv => PinsMoveOnlyIfTheyMust
  BY DEF AnsweredInv
<1>. QED BY <1>1, SearchIsExact, PTL

-----------------------------------------------------------------------------
(* Where packages are from *)

(* What a package contains is what its place has of it. *)
IsFrom(P, n, p) ==
  /\ p.source.kind = "path" => p.content # None /\ p.content = At(P, p.source.place)
  /\ p.source.kind = "toolchain" =>
       p.source = Toolchain /\ n \in DOMAIN P.toolchain /\ p.content = P.toolchain[n]
  /\ p.source.kind = "git" =>
       /\ p.source.place \in URLs(P)
       /\ p.content = IF IsPinned(P, n, p.source) THEN P.pins[n].content
                      ELSE P.repositories[p.source.place].commits[p.source.rev]
  /\ p.source.kind = "registry" =>
       IF IsLocked(P, n, p.source, p.version) THEN p.content = P.pins[n].content
       ELSE /\ p.source.place \in DOMAIN P.registries /\ n \in DOMAIN P.registries[p.source.place]
            /\ \E e \in P.registries[p.source.place][n] : e.version = p.version /\ e.content = p.content

(* It is what it is called, and a copy that stands for it is a copy of it. *)
IsItself(P, n, p) ==
  /\ p.content.name = n /\ p.content.version = p.version /\ Lawful(P, p.content, p.source)
  /\ p.needs = NeedsOf(P, p.content, p.source)
  /\ p.source.kind # "path" /\ Replaced(P, p.source.kind) => ReplacementFits(P, n, p.content)

IsHad(P, n, p) ==
  p.name = n /\ IsFrom(P, n, p) /\ (~p.indexed => IsItself(P, n, p))

-----------------------------------------------------------------------------
(* What a member's answer is made of *)

(* What is asked for, by whatever is there. *)
IsAsked(packages, n) == \E m \in DOMAIN packages : n \in Names(packages[m].needs)

(* Of what is in it, a set has all that is needed. *)
HasNeeds(X, packages) == \A n \in X \cap DOMAIN packages : Names(packages[n].needs) \subseteq X

(* Nothing is there but for the roots. *)
IsLeast(roots, packages) ==
  \A X : roots \subseteq X /\ HasNeeds(X, packages) => DOMAIN packages \subseteq X

IsWay(P, i, packages, todo) ==
  /\ Root(P, i) \in DOMAIN packages /\ packages[Root(P, i)] = Member(P, i)
  /\ \A n \in DOMAIN packages : IsHad(P, n, packages[n])
  /\ \A need \in todo : IsAsked(packages, need.name)
  /\ IsLeast({Root(P, i)}, packages)

IsKeptFrame(P, i, f) ==
  /\ IsWay(P, i, f.chosen, Range(f.pending) \cup {f.need})
  /\ \A c \in f.left : IsHad(P, f.need.name, c)
  /\ f.pin # None => f.need.name \in DOMAIN P.pins /\ f.pin = P.pins[f.need.name].version

IsLawfulMember(P, i) == Lawful(P, P.members[i].content, Member(P, i).source)

WayInv ==
  status \in {"search", "back"} =>
    /\ IsLawfulMember(problem, at)
    /\ status = "search" => IsWay(problem, at, chosen, Range(pending))
    /\ \A f \in Range(trail) : IsKeptFrame(problem, at, f)

-----------------------------------------------------------------------------
(* What an answer is made of *)

(* A package whose archive was looked into. *)
Looked(p) == Package(p.name, p.version, p.source, p.content, p.needs, FALSE)

(* A member that was resolved has its own package and one standard library at most. *)
IsResolved(P, packages, i) ==
  /\ IsLawfulMember(P, i)
  /\ Root(P, i) \in DOMAIN packages /\ Looked(packages[Root(P, i)]) = Member(P, i)
  /\ Cardinality({n \in Names(MemberNeeds(P, i)) : packages[n].content.items}) <= 1

Resolved == {i \in DOMAIN problem.members : i < at \/ status = "solved"}

ArePackages(P, packages) ==
  \A n \in DOMAIN packages :
    packages[n].name = n /\ IsFrom(P, n, packages[n]) /\ IsItself(P, n, packages[n])

MadeInv ==
  /\ ArePackages(problem, merged)
  /\ \A i \in Resolved : IsResolved(problem, merged, i)
  /\ IsLeast({Root(problem, i) : i \in Resolved}, merged)

-----------------------------------------------------------------------------
(* What a second run has *)

(* The packages a lock stands for. *)
Written(P, n) ==
  LET pin     == P.pins[n]
      content == IF pin.source.kind = "path" THEN At(P, pin.source.place) ELSE pin.content
  IN Package(n, pin.version, pin.source, content, NeedsOf(P, content, pin.source), FALSE)

Locked(P) == [n \in DOMAIN P.pins |-> Written(P, n)]

(* What is needed and written is offered, and nothing is asked to find it. *)
IsServed(P, need) ==
  LET offer == Options(P, need, TRUE, {}) IN
  /\ offer.ok /\ offer.reads = {} /\ offer.fetches = {}
  /\ offer.all = {Written(P, need.name)}

IsKept(P) ==
  /\ P.precise = <<>> /\ P.pushes = <<>> /\ ~Cyclic(Locked(P))
  /\ \A n \in DOMAIN P.pins : \A need \in Range(Written(P, n).needs) : Met(need, Locked(P))
  /\ \A i \in DOMAIN P.members : /\ IsResolved(P, Locked(P), i)
                                 /\ \A need \in Range(MemberNeeds(P, i)) : Met(need, Locked(P))
  /\ IsLeast({Root(P, i) : i \in DOMAIN P.members}, Locked(P))
  /\ \A need : IsNeed(need, URLs(P)) /\ Met(need, Locked(P)) => IsServed(P, need)

IsPart(P, packages) == \A n \in DOMAIN packages : n \in DOMAIN P.pins /\ packages[n] = Written(P, n)

AreWritten(P, needs) == \A need \in needs : Met(need, Locked(P))

IsAgain(P, f) ==
  /\ AreWritten(P, Range(f.pending) \cup {f.need}) /\ IsPart(P, f.chosen)
  /\ f.left \subseteq {Written(P, f.need.name)}

AgainInv ==
  first # None =>
    /\ first = LockOf(Locked(problem)) /\ IsKept(problem)
    /\ status \in {"search", "back", "solved"} /\ reads = {} /\ fetched = {}
    /\ IsPart(problem, merged)
    /\ status # "solved" => /\ IsPart(problem, chosen) /\ AreWritten(problem, Range(pending))
                            /\ \A f \in Range(trail) : IsAgain(problem, f)
    /\ status = "back" => trail # <<>> /\ Last(trail).left # {}

(* There is one package of a source and a version. *)
LEMMA OneIsFrom ==
  ASSUME NEW P, IsWorld(P), NEW n, NEW p, IsFrom(P, n, p), NEW q, IsFrom(P, n, q), IsSource(p.source),
         p.source = q.source, p.version = q.version
  PROVE  p.content = q.content
<1>1. CASE p.source.kind \in {"path", "toolchain", "git"}
  BY <1>1 DEF IsFrom
<1>2. CASE p.source.kind = "registry"
  <2>1. CASE IsLocked(P, n, p.source, p.version)
    BY <1>2, <2>1 DEF IsFrom
  <2>2. CASE ~IsLocked(P, n, p.source, p.version)
    <3>. DEFINE i == p.source.place
    <3>1. i \in DOMAIN P.registries /\ n \in DOMAIN P.registries[i]
      BY <1>2, <2>2 DEF IsFrom
    <3>2. PICK e \in P.registries[i][n] : e.version = p.version /\ e.content = p.content
      BY <1>2, <2>2 DEF IsFrom
    <3>3. PICK f \in P.registries[i][n] : f.version = q.version /\ f.content = q.content
      BY <1>2, <2>2 DEF IsFrom
    <3>4. e = f
      BY <3>1, <3>2, <3>3 DEF IsWorld, AreRegistries
    <3>. QED BY <3>2, <3>3, <3>4
  <2>. QED BY <2>1, <2>2
<1>. QED BY <1>1, <1>2 DEF IsSource

(* An offer of one package, is that package. *)
LEMMA OneIsItself ==
  ASSUME NEW P, NEW n, NEW v, NEW s, NEW c, NEW found, NEW p \in OfferOne(P, n, v, s, c, found).all
  PROVE  /\ p.name = n /\ p.version = v /\ p.source = s /\ p.content = c /\ ~p.indexed
         /\ c.name = n /\ c.version = v /\ Lawful(P, c, s) /\ p.needs = NeedsOf(P, c, s)
<1>1. Lawful(P, c, s) /\ c.version = v /\ c.name = n
  BY DEF OfferOne, Refused
<1>2. p = Package(n, v, s, c, NeedsOf(P, c, s), FALSE)
  BY DEF OfferOne, Refused, Offer
<1>. QED BY <1>1, <1>2 DEF Package

(* What the lock offers, is what it says. *)
LEMMA LockedIsItself ==
  ASSUME NEW P, NEW need, NEW pinned, NEW pin, pin = P.pins[need.name], NEW p \in FromLock(P, need, pinned).all
  PROVE  /\ p.name = need.name /\ p.version = pin.version /\ p.source = pin.source
         /\ p.content = pin.content /\ ~p.indexed
         /\ pin.content.name = need.name /\ pin.content.version = pin.version
         /\ Lawful(P, pin.content, pin.source) /\ p.needs = NeedsOf(P, pin.content, pin.source)
         /\ Replaced(P, pin.source.kind) => ReplacementFits(P, need.name, pin.content)
<1>. DEFINE offer == OfferOne(P, need.name, pin.version, pin.source, pin.content, {})
<1>1. CanMaterialize(P, need.name, pin.source, pin.content)
  <2>1. CASE ~CanMaterialize(P, need.name, pin.source, pin.content)
    <3>1. FromLock(P, need, pinned) = Refused({})
      BY <2>1 DEF FromLock
    <3>. QED BY <3>1, NothingIsRefused
  <2>. QED BY <2>1
<1>2. FromLock(P, need, pinned) = [offer EXCEPT !.pinned = pinned]
  BY <1>1 DEF FromLock
<1>3. offer = [all |-> offer.all, pinned |-> offer.pinned, reads |-> offer.reads, fetches |-> offer.fetches, ok |-> offer.ok]
  BY DEF OfferOne, Offer, Refused
<1>. HIDE DEF offer
<1>4. FromLock(P, need, pinned).all = offer.all
  BY <1>2, <1>3
<1>5. p \in offer.all
  BY <1>4
<1>6. Replaced(P, pin.source.kind) => ReplacementFits(P, need.name, pin.content)
  BY <1>1 DEF CanMaterialize
<1>7. p \in OfferOne(P, need.name, pin.version, pin.source, pin.content, {}).all
  BY <1>5 DEF offer
<1>8. /\ p.name = need.name /\ p.version = pin.version /\ p.source = pin.source /\ p.content = pin.content
      /\ ~p.indexed /\ pin.content.name = need.name /\ pin.content.version = pin.version
      /\ Lawful(P, pin.content, pin.source) /\ p.needs = NeedsOf(P, pin.content, pin.source)
  BY <1>7, OneIsItself
<1>. QED BY <1>6, <1>8

(* A commit that is offered, is one of the repository's. *)
LEMMA CommitIsHad ==
  ASSUME NEW P, NEW need, IsNeed(need, URLs(P)), need.want.kind = "git", ~PinnedGit(P, need),
         NEW rev, NEW found, NEW p \in OfferCommit(P, need, rev, found).all
  PROVE  IsHad(P, need.name, p)
<1>. DEFINE content == P.repositories[need.want.place].commits[rev]
            source == [need.want EXCEPT !.rev = rev]
<1>1. rev # None /\ (Replaced(P, "git") => ReplacementFits(P, need.name, content))
  <2>1. CASE rev = None \/ (Replaced(P, "git") /\ ~ReplacementFits(P, need.name, content))
    <3>1. OfferCommit(P, need, rev, found) = Refused({})
      BY <2>1 DEF OfferCommit
    <3>. QED BY <3>1, NothingIsRefused
  <2>. QED BY <2>1
<1>2. OfferCommit(P, need, rev, found) = OfferOne(P, need.name, content.version, source, content, found)
  <2>1. CASE content = None
    <3>1. OfferCommit(P, need, rev, found) = Refused({})
      BY <1>1, <2>1 DEF OfferCommit
    <3>. QED BY <3>1, NothingIsRefused
  <2>. QED BY <1>1, <2>1 DEF OfferCommit
<1>3. IsSource(need.want) /\ need.want.rev = None /\ need.want.place \in URLs(P)
  BY DEF IsNeed
<1>4. source = Source("git", need.want.place, need.want.reference, rev)
  BY <1>3, Without
<1>5. source.kind = "git" /\ source.place = need.want.place /\ source.rev = rev /\ IsSource(source)
  BY <1>4 DEF Source, IsSource
<1>6. Named(source) = need.want
  <2>1. Named(source) = Source("git", need.want.place, need.want.reference, None)
    BY <1>4, <1>5, NamedIs DEF Source
  <2>. QED BY <1>3, <2>1 DEF IsSource
<1>. HIDE DEF content, source
<1>7. /\ p.name = need.name /\ p.version = content.version /\ p.source = source /\ p.content = content
      /\ ~p.indexed /\ content.name = need.name /\ Lawful(P, content, source)
      /\ p.needs = NeedsOf(P, content, source)
  <2>1. p \in OfferOne(P, need.name, content.version, source, content, found).all
    BY <1>2
  <2>. QED BY <2>1, OneIsItself
<1>8. ~IsPinned(P, need.name, source)
  BY <1>6 DEF IsPinned, PinnedGit, WantMatches, Named
<1>9. IsFrom(P, need.name, p)
  BY <1>3, <1>5, <1>7, <1>8 DEF IsFrom, content
<1>10. IsItself(P, need.name, p)
  BY <1>1, <1>5, <1>7 DEF IsItself
<1>. QED BY <1>7, <1>9, <1>10 DEF IsHad

(* So is what a directory offers. *)
LEMMA DirectoryIsHad ==
  ASSUME NEW P, NEW need, IsNeed(need, URLs(P)), need.want.kind = "path", NEW p, p \in FromPath(P, need).all
  PROVE  IsHad(P, need.name, p)
<1>. DEFINE content == At(P, need.want.place)
<1>1. content # None
  <2>1. CASE content = None
    <3>1. FromPath(P, need) = Refused({})
      BY <2>1 DEF FromPath
    <3>. QED BY <3>1, NothingIsRefused
  <2>. QED BY <2>1
<1>2. FromPath(P, need) = OfferOne(P, need.name, content.version, need.want, content, {})
  BY <1>1 DEF FromPath
<1>3. p \in OfferOne(P, need.name, content.version, need.want, content, {}).all
  BY <1>2
<1>. HIDE DEF content
<1>4. /\ p.name = need.name /\ p.version = content.version /\ p.source = need.want /\ p.content = content
      /\ ~p.indexed /\ content.name = need.name /\ Lawful(P, content, need.want)
      /\ p.needs = NeedsOf(P, content, need.want)
  BY <1>3, OneIsItself
<1>5. IsFrom(P, need.name, p)
  BY <1>1, <1>4 DEF IsFrom, content
<1>6. IsItself(P, need.name, p)
  BY <1>4 DEF IsItself
<1>. QED BY <1>4, <1>5, <1>6 DEF IsHad

(* ... and what is bundled with the compiler. *)
LEMMA ToolchainIsHad ==
  ASSUME NEW P, NEW need, IsNeed(need, URLs(P)), need.want.kind = "toolchain",
         NEW p, p \in FromToolchain(P, need).all
  PROVE  IsHad(P, need.name, p)
<1>. DEFINE content == P.toolchain[need.name]
<1>1. need.name \in DOMAIN P.toolchain /\ (Replaced(P, "toolchain") => ReplacementFits(P, need.name, content))
  <2>1. CASE ~(need.name \in DOMAIN P.toolchain
               /\ (Replaced(P, "toolchain") => ReplacementFits(P, need.name, content)))
    <3>1. FromToolchain(P, need) = Refused({})
      BY <2>1 DEF FromToolchain
    <3>. QED BY <3>1, NothingIsRefused
  <2>. QED BY <2>1
<1>2. FromToolchain(P, need) = OfferOne(P, need.name, content.version, Toolchain, content, {})
  BY <1>1 DEF FromToolchain
<1>3. p \in OfferOne(P, need.name, content.version, Toolchain, content, {}).all
  BY <1>2
<1>. HIDE DEF content
<1>4. /\ p.name = need.name /\ p.version = content.version /\ p.source = Toolchain /\ p.content = content
      /\ ~p.indexed /\ content.name = need.name /\ Lawful(P, content, Toolchain)
      /\ p.needs = NeedsOf(P, content, Toolchain)
  BY <1>3, OneIsItself
<1>5. Toolchain.kind = "toolchain"
  BY DEF Toolchain, Source
<1>6. IsFrom(P, need.name, p)
  BY <1>1, <1>4, <1>5 DEF IsFrom, content
<1>7. IsItself(P, need.name, p)
  BY <1>1, <1>4, <1>5 DEF IsItself
<1>. QED BY <1>4, <1>6, <1>7 DEF IsHad

(* ... and the lock. *)
LEMMA LockedIsHad ==
  ASSUME NEW P, IsWorld(P), NEW need, IsNeed(need, URLs(P)), need.want.kind \in {"git", "registry"},
         need.name \in DOMAIN P.pins, WantMatches(need.want, P.pins[need.name].source),
         NEW pinned, NEW p, p \in FromLock(P, need, pinned).all
  PROVE  IsHad(P, need.name, p)
<1>1. PICK pin : pin = P.pins[need.name]
  OBVIOUS
<1>2. IsSource(pin.source)
  BY <1>1 DEF IsWorld, IsPin
<1>3. /\ need.want.kind = pin.source.kind /\ need.want.place = pin.source.place
  BY <1>1, <1>2, WantedIsSource
<1>4. /\ p.name = need.name /\ p.version = pin.version /\ p.source = pin.source /\ p.content = pin.content
      /\ ~p.indexed /\ pin.content.name = need.name /\ pin.content.version = pin.version
      /\ Lawful(P, pin.content, pin.source) /\ p.needs = NeedsOf(P, pin.content, pin.source)
      /\ (Replaced(P, pin.source.kind) => ReplacementFits(P, need.name, pin.content))
  BY <1>1, LockedIsItself
<1>5. IsItself(P, need.name, p)
  BY <1>4 DEF IsItself
<1>6. IsPinned(P, need.name, p.source)
  BY <1>1, <1>4 DEF IsPinned
<1>7. IsLocked(P, need.name, p.source, p.version)
  BY <1>1, <1>4 DEF IsLocked
<1>8. pin.source.kind = "git" => pin.source.place \in URLs(P)
  BY <1>3 DEF IsNeed
<1>9. IsFrom(P, need.name, p)
  BY <1>1, <1>3, <1>4, <1>6, <1>7, <1>8 DEF IsFrom
<1>. QED BY <1>4, <1>5, <1>9 DEF IsHad

(* ... and git. *)
LEMMA RepositoryIsHad ==
  ASSUME NEW P, NEW need, IsNeed(need, URLs(P)), need.want.kind = "git", ~PinnedGit(P, need),
         NEW found, NEW p, p \in FromGit(P, need, found).all
  PROVE  IsHad(P, need.name, p)
<1>1. PICK offer : offer = FromGit(P, need, found)
  OBVIOUS
<1>2. offer = Refused({}) \/ \E rev, more : offer = OfferCommit(P, need, rev, more)
  BY <1>1 DEF FromGit
<1>3. offer # Refused({})
  BY <1>1, NothingIsRefused
<1>4. PICK rev, more : offer = OfferCommit(P, need, rev, more)
  BY <1>2, <1>3
<1>5. p \in OfferCommit(P, need, rev, more).all
  BY <1>1, <1>4
<1>. QED BY <1>5, CommitIsHad

(* ... and an index, of what is not the lock's. *)
LEMMA PublishedIsHad ==
  ASSUME NEW P, IsWorld(P), NEW need, IsNeed(need, URLs(P)), need.want.kind = "registry",
         MayReadIndex(P, need), NEW p, p \in FromIndex(P, need),
         ~IsLocked(P, need.name, need.want, p.version)
  PROVE  IsHad(P, need.name, p)
<1>1. PICK e \in P.registries[need.want.place][need.name] : p = Indexed(need, e)
  BY DEF FromIndex
<1>2. /\ p.name = need.name /\ p.version = e.version /\ p.source = need.want
      /\ p.content = e.content /\ p.indexed
  BY <1>1 DEF Indexed, Package
<1>3. need.want.place \in DOMAIN P.registries /\ need.name \in DOMAIN P.registries[need.want.place]
  BY DEF MayReadIndex, IsConfigured, IsWorld, AreRegistries, Range
<1>4. IsFrom(P, need.name, p)
  BY <1>1, <1>2, <1>3 DEF IsFrom
<1>. QED BY <1>2, <1>4 DEF IsHad

(* What is offered and tried is from where it says it is, and itself once it was
   looked into. *)
LEMMA OffersHad ==
  ASSUME NEW P, IsWorld(P), NEW need, IsNeed(need, URLs(P)), NEW usePin \in BOOLEAN, NEW found,
         NEW c, c \in Options(P, need, usePin, found).all, Matches(need.requirement, c.version),
         need.name \in DOMAIN P.precise => c.version = P.precise[need.name],
         ~usePin /\ need.name \in DOMAIN P.pins => c.version # P.pins[need.name].version
  PROVE  IsHad(P, need.name, c)
<1>1. PICK offer : offer = Options(P, need, usePin, found)
  OBVIOUS
<1>2. CASE need.want.kind = "path"
  <2>1. offer = FromPath(P, need)
    BY <1>1, <1>2, Zenon DEF Options
  <2>2. c \in FromPath(P, need).all
    BY <1>1, <2>1
  <2>. QED BY <1>2, <2>2, DirectoryIsHad
<1>3. CASE need.want.kind = "toolchain"
  <2>1. offer = FromToolchain(P, need)
    BY <1>1, <1>3 DEF Options
  <2>2. c \in FromToolchain(P, need).all
    BY <1>1, <2>1
  <2>. QED BY <1>3, <2>2, ToolchainIsHad
<1>4. CASE need.want.kind = "git"
  <2>1. offer = IF PinnedGit(P, need) THEN FromLock(P, need, FALSE) ELSE FromGit(P, need, found)
    BY <1>1, <1>4 DEF Options
  <2>2. CASE PinnedGit(P, need)
    <3>1. PICK pinned : offer = FromLock(P, need, pinned)
      BY <2>1, <2>2
    <3>2. c \in FromLock(P, need, pinned).all
      BY <1>1, <3>1
    <3>3. need.name \in DOMAIN P.pins /\ WantMatches(need.want, P.pins[need.name].source)
      BY <2>2 DEF PinnedGit
    <3>. QED BY <1>4, <3>2, <3>3, LockedIsHad
  <2>3. CASE ~PinnedGit(P, need)
    <3>1. c \in FromGit(P, need, found).all
      BY <1>1, <2>1, <2>3
    <3>. QED BY <1>4, <2>3, <3>1, RepositoryIsHad
  <2>. QED BY <2>2, <2>3
<1>5. CASE need.want.kind = "registry"
  <2>1. CASE usePin /\ ApplicablePin(P, need)
    <3>1. PICK pinned : offer = FromLock(P, need, pinned)
      BY <1>1, <1>5, <2>1 DEF Options
    <3>2. c \in FromLock(P, need, pinned).all
      BY <1>1, <3>1
    <3>3. need.name \in DOMAIN P.pins /\ WantMatches(need.want, P.pins[need.name].source)
      BY <2>1 DEF ApplicablePin
    <3>. QED BY <1>5, <3>2, <3>3, LockedIsHad
  <2>2. CASE ~(usePin /\ ApplicablePin(P, need)) /\ MayReadIndex(P, need)
    <3>1. \E any, reads_ : offer = Offer(FromIndex(P, need), any, reads_, {})
      BY <1>1, <1>5, <2>2 DEF Options
    <3>2. c \in FromIndex(P, need)
      BY <1>1, <3>1 DEF Offer
    <3>3. IsSource(need.want) /\ need.want.rev = None
      BY DEF IsNeed
    <3>4. Named(need.want) = need.want
      <4>1. Named(need.want) = Source(need.want.kind, need.want.place, need.want.reference, None)
        BY <3>3, NamedIs
      <4>. QED BY <3>3, <4>1 DEF IsSource
    <3>5. ASSUME IsLocked(P, need.name, need.want, c.version)
          PROVE  FALSE
      <4>1. /\ need.name \in DOMAIN P.pins /\ P.pins[need.name].source = need.want
            /\ P.pins[need.name].version = c.version
        BY <3>5 DEF IsLocked
      <4>2. usePin
        BY <4>1
      <4>3. WantMatches(need.want, P.pins[need.name].source)
        BY <3>4, <4>1 DEF WantMatches, Named
      <4>4. ApplicablePin(P, need)
        BY <4>1, <4>3 DEF ApplicablePin
      <4>. QED BY <2>2, <4>2, <4>4
    <3>. QED BY <1>5, <2>2, <3>2, <3>5, PublishedIsHad
  <2>3. CASE ~(usePin /\ ApplicablePin(P, need)) /\ ~MayReadIndex(P, need)
    <3>1. offer = Refused({need.name})
      BY <1>1, <1>5, <2>3 DEF Options
    <3>. QED BY <1>1, <3>1, NothingIsRefused
  <2>. QED BY <2>1, <2>2, <2>3
<1>. QED BY <1>2, <1>3, <1>4, <1>5 DEF IsNeed, IsSource

(* Only the lock's version is pinned. *)
LEMMA OneIsNotPinned ==
  /\ \A r : ~Refused(r).pinned
  /\ \A P, n, v, s, c, found : ~OfferOne(P, n, v, s, c, found).pinned
<1>1. \A r : ~Refused(r).pinned
  BY DEF Refused
<1>2. ASSUME NEW P, NEW n, NEW v, NEW s, NEW c, NEW found
      PROVE  ~OfferOne(P, n, v, s, c, found).pinned
  <2>1. PICK o : o = OfferOne(P, n, v, s, c, found)
    OBVIOUS
  <2>2. o = Refused({}) \/ \E all : o = Offer(all, FALSE, {}, found)
    BY <2>1 DEF OfferOne
  <2>. QED BY <1>1, <2>1, <2>2 DEF Offer
<1>. QED BY <1>1, <1>2

(* What is offered as the lock's, the lock names. *)
LEMMA PinnedIsLocked ==
  ASSUME NEW P, NEW need, IsNeed(need, URLs(P)), NEW usePin, NEW found,
         Options(P, need, usePin, found).pinned
  PROVE  need.name \in DOMAIN P.pins
<1>1. PICK offer : offer = Options(P, need, usePin, found)
  OBVIOUS
<1>2. CASE need.want.kind = "path"
  <2>1. offer = FromPath(P, need)
    BY <1>1, <1>2, Zenon DEF Options
  <2>2. offer = Refused({}) \/ \E n, v, s, c : offer = OfferOne(P, n, v, s, c, {})
    BY <2>1 DEF FromPath
  <2>. QED BY <1>1, <2>2, OneIsNotPinned
<1>3. CASE need.want.kind = "toolchain"
  <2>1. offer = FromToolchain(P, need)
    BY <1>1, <1>3 DEF Options
  <2>2. offer = Refused({}) \/ \E n, v, s, c : offer = OfferOne(P, n, v, s, c, {})
    BY <2>1 DEF FromToolchain
  <2>. QED BY <1>1, <2>2, OneIsNotPinned
<1>4. CASE need.want.kind = "git"
  <2>1. offer = IF PinnedGit(P, need) THEN FromLock(P, need, FALSE) ELSE FromGit(P, need, found)
    BY <1>1, <1>4 DEF Options
  <2>2. CASE PinnedGit(P, need)
    BY <2>2 DEF PinnedGit
  <2>3. CASE ~PinnedGit(P, need)
    <3>1. offer = FromGit(P, need, found)
      BY <2>1, <2>3
    <3>2. offer = Refused({}) \/ \E rev, more : offer = OfferCommit(P, need, rev, more)
      BY <3>1 DEF FromGit
    <3>3. offer = Refused({}) \/ \E n, v, s, c, more : offer = OfferOne(P, n, v, s, c, more)
      BY <3>2 DEF OfferCommit
    <3>. QED BY <1>1, <3>3, OneIsNotPinned
  <2>. QED BY <2>2, <2>3
<1>5. CASE need.want.kind = "registry"
  <2>1. CASE usePin /\ ApplicablePin(P, need)
    BY <2>1 DEF ApplicablePin
  <2>2. CASE ~(usePin /\ ApplicablePin(P, need)) /\ MayReadIndex(P, need)
    <3>1. offer = Offer(FromIndex(P, need), FALSE, {need.name}, {})
      BY <1>1, <1>5, <2>2 DEF Options
    <3>. QED BY <1>1, <3>1 DEF Offer
  <2>3. CASE ~(usePin /\ ApplicablePin(P, need)) /\ ~MayReadIndex(P, need)
    <3>1. offer = Refused({need.name})
      BY <1>1, <1>5, <2>3 DEF Options
    <3>. QED BY <1>1, <3>1, OneIsNotPinned
  <2>. QED BY <2>1, <2>2, <2>3
<1>. QED BY <1>2, <1>3, <1>4, <1>5 DEF IsNeed, IsSource

(* Where worlds differ in nothing but the heads of their repositories and in who can
   be asked, the same was had. *)
LEMMA HadAlike ==
  ASSUME NEW P, NEW Q, URLs(P) = URLs(Q), P.members = Q.members, P.directories = Q.directories,
         P.toolchain = Q.toolchain, P.configured = Q.configured, P.registries = Q.registries,
         P.pins = Q.pins, P.vendored = Q.vendored,
         \A u \in URLs(P) : P.repositories[u].commits = Q.repositories[u].commits
  PROVE  /\ \A n, p : IsFrom(P, n, p) => IsFrom(Q, n, p)
         /\ \A n, p : IsItself(P, n, p) => IsItself(Q, n, p)
         /\ \A n, p : IsHad(P, n, p) => IsHad(Q, n, p)
<1>1. \A dir : At(P, dir) = At(Q, dir)
  BY DEF At
<1>2. \A c, s : Lawful(P, c, s) => Lawful(Q, c, s)
  BY DEF Lawful, MayWant
<1>3. \A c, s : NeedsOf(P, c, s) = NeedsOf(Q, c, s)
  BY DEF NeedsOf, Want
<1>4. \A n, s, v : IsLocked(P, n, s, v) <=> IsLocked(Q, n, s, v)
  BY DEF IsLocked
<1>5. \A n, s : IsPinned(P, n, s) <=> IsPinned(Q, n, s)
  BY DEF IsPinned
<1>6. ASSUME NEW n, NEW p, IsFrom(P, n, p)
      PROVE  IsFrom(Q, n, p)
  <2>1. /\ p.source.kind = "path" => p.content # None /\ p.content = At(Q, p.source.place)
        /\ p.source.kind = "toolchain" =>
             p.source = Toolchain /\ n \in DOMAIN Q.toolchain /\ p.content = Q.toolchain[n]
    BY <1>1, <1>6 DEF IsFrom
  <2>2. p.source.kind = "git" =>
          /\ p.source.place \in URLs(Q)
          /\ p.content = IF IsPinned(Q, n, p.source) THEN Q.pins[n].content
                         ELSE Q.repositories[p.source.place].commits[p.source.rev]
    BY <1>5, <1>6 DEF IsFrom
  <2>3. p.source.kind = "registry" =>
          IF IsLocked(Q, n, p.source, p.version) THEN p.content = Q.pins[n].content
          ELSE /\ p.source.place \in DOMAIN Q.registries /\ n \in DOMAIN Q.registries[p.source.place]
               /\ \E e \in Q.registries[p.source.place][n] : e.version = p.version /\ e.content = p.content
    BY <1>4, <1>6 DEF IsFrom
  <2>. QED BY <2>1, <2>2, <2>3 DEF IsFrom
<1>7. ASSUME NEW n, NEW p, IsItself(P, n, p)
      PROVE  IsItself(Q, n, p)
  BY <1>2, <1>3, <1>7 DEF IsItself, Replaced, ReplacementFits
<1>. QED BY <1>6, <1>7 DEF IsHad

-----------------------------------------------------------------------------
(* The way to a member's answer *)

(* A name that is asked for may be added. *)
LEMMA LeastGrows ==
  ASSUME NEW root, NEW packages, IsLeast({root}, packages), NEW n, IsAsked(packages, n),
         n \notin DOMAIN packages, NEW p
  PROVE  IsLeast({root}, Extend(packages, n, p))
<1>. DEFINE more == Extend(packages, n, p)
<1>1. DOMAIN more = DOMAIN packages \cup {n} /\ \A m \in DOMAIN packages : more[m] = packages[m]
  BY DEF Extend
<1>. HIDE DEF more
<1>2. ASSUME NEW X, {root} \subseteq X, HasNeeds(X, more)
      PROVE  DOMAIN more \subseteq X
  <2>1. HasNeeds(X, packages)
    BY <1>1, <1>2 DEF HasNeeds
  <2>2. DOMAIN packages \subseteq X
    BY <1>2, <2>1 DEF IsLeast
  <2>3. n \in X
    BY <2>1, <2>2 DEF IsAsked, HasNeeds
  <2>. QED BY <1>1, <2>2, <2>3
<1>3. IsLeast({root}, more)
  BY <1>2 DEF IsLeast
<1>. QED BY <1>3 DEF more

(* What is left of a frame leads on. *)
LEMMA WayGoesOn ==
  ASSUME NEW P, NEW i, NEW f, IsKeptFrame(P, i, f), f.need.name \notin DOMAIN f.chosen,
         NEW c, c \in f.left, f.pending \in Seq(Range(f.pending)), c.needs \in Seq(Range(c.needs))
  PROVE  IsWay(P, i, Extend(f.chosen, f.need.name, c), Range(f.pending \o c.needs))
<1>1. /\ IsWay(P, i, f.chosen, Range(f.pending) \cup {f.need}) /\ IsHad(P, f.need.name, c)
  BY DEF IsKeptFrame
<1>2. PICK n, packages : n = f.need.name /\ packages = f.chosen
  OBVIOUS
<1>. DEFINE more == Extend(packages, n, c)
<1>3. DOMAIN more = DOMAIN packages \cup {n} /\ more[n] = c /\ \A m \in DOMAIN packages : more[m] = packages[m]
  BY <1>2 DEF Extend
<1>4. /\ Root(P, i) \in DOMAIN packages /\ packages[Root(P, i)] = Member(P, i)
      /\ \A m \in DOMAIN packages : IsHad(P, m, packages[m])
      /\ \A need \in Range(f.pending) \cup {f.need} : IsAsked(packages, need.name)
      /\ IsLeast({Root(P, i)}, packages)
  BY <1>1, <1>2 DEF IsWay
<1>5. IsLeast({Root(P, i)}, more)
  BY <1>2, <1>4, LeastGrows
<1>. HIDE DEF more
<1>6. Range(f.pending \o c.needs) = Range(f.pending) \cup Range(c.needs)
  BY RangeOfJoined
<1>7. \A x : IsAsked(packages, x) => IsAsked(more, x)
  BY <1>3 DEF IsAsked
<1>8. \A need \in Range(c.needs) : IsAsked(more, need.name)
  BY <1>3 DEF IsAsked, Names
<1>9. \A need \in Range(f.pending \o c.needs) : IsAsked(more, need.name)
  BY <1>4, <1>6, <1>7, <1>8
<1>10. Root(P, i) \in DOMAIN more /\ more[Root(P, i)] = Member(P, i)
  BY <1>3, <1>4
<1>11. \A m \in DOMAIN more : IsHad(P, m, more[m])
  BY <1>1, <1>2, <1>3, <1>4
<1>12. IsWay(P, i, more, Range(f.pending \o c.needs))
  BY <1>5, <1>9, <1>10, <1>11 DEF IsWay
<1>. QED BY <1>2, <1>12 DEF more

(* A member is had. *)
LEMMA MemberIsHad ==
  ASSUME NEW P, IsWorld(P), NEW i \in DOMAIN P.members, IsLawfulMember(P, i)
  PROVE  /\ IsHad(P, Root(P, i), Member(P, i)) /\ ~Member(P, i).indexed
         /\ Member(P, i).source = Source("path", P.members[i].dir, None, None)
         /\ Member(P, i).content = P.members[i].content
<1>1. PICK c, dir : c = P.members[i].content /\ dir = P.members[i].dir
  OBVIOUS
<1>2. Member(P, i) = Package(c.name, c.version, Source("path", dir, None, None), c, MemberNeeds(P, i), FALSE)
  BY <1>1 DEF Member
<1>3. PICK m : m = Member(P, i)
  OBVIOUS
<1>4. /\ m.name = c.name /\ m.version = c.version /\ m.source = Source("path", dir, None, None)
      /\ m.content = c /\ m.needs = MemberNeeds(P, i)
  BY <1>2, <1>3 DEF Package
<1>5. ~m.indexed
  BY <1>2, <1>3 DEF Package
<1>6. m.source.kind = "path" /\ m.source.place = dir
  BY <1>4 DEF Source
<1>7. c # None /\ At(P, dir) = c
  BY <1>1, MembersAreThere DEF IsWorld, IsContent
<1>8. Root(P, i) = c.name
  BY <1>1 DEF Root
<1>9. Lawful(P, c, m.source)
  BY <1>1, <1>3 DEF IsLawfulMember
<1>10. m.needs = NeedsOf(P, c, m.source)
  BY <1>1, <1>4 DEF MemberNeeds
<1>11. IsFrom(P, c.name, m)
  BY <1>4, <1>6, <1>7 DEF IsFrom
<1>12. IsItself(P, c.name, m)
  BY <1>4, <1>6, <1>9, <1>10 DEF IsItself
<1>13. IsHad(P, c.name, m)
  BY <1>4, <1>11, <1>12 DEF IsHad
<1>. QED BY <1>1, <1>3, <1>4, <1>5, <1>8, <1>13

(* Alone it is where its way begins. *)
LEMMA AfreshIsWay ==
  ASSUME NEW P, IsWorld(P), NEW i \in DOMAIN P.members, IsLawfulMember(P, i), NEW now,
         now = [n \in {Root(P, i)} |-> Member(P, i)]
  PROVE  IsWay(P, i, now, Range(MemberNeeds(P, i)))
<1>1. DOMAIN now = {Root(P, i)} /\ now[Root(P, i)] = Member(P, i)
  OBVIOUS
<1>2. Member(P, i).needs = MemberNeeds(P, i)
  BY MemberIs
<1>3. \A need \in Range(MemberNeeds(P, i)) : IsAsked(now, need.name)
  BY <1>1, <1>2 DEF IsAsked, Names
<1>4. IsLeast({Root(P, i)}, now)
  BY <1>1 DEF IsLeast
<1>. QED BY <1>1, <1>3, <1>4, MemberIsHad DEF IsWay

(* So it is with the first, and with every other. *)
LEMMA BeginIsWay ==
  ASSUME IsWorld(problem), NEW i \in DOMAIN problem.members, Begin(i).status = "search"
  PROVE  /\ IsLawfulMember(problem, i) /\ Begin(i).pending = MemberNeeds(problem, i)
         /\ IsWay(problem, i, Begin(i).chosen, Range(Begin(i).pending))
<1>1. Lawful(problem, problem.members[i].content, Source("path", problem.members[i].dir, None, None))
  BY DEF Begin
<1>2. Member(problem, i).source = Source("path", problem.members[i].dir, None, None)
  BY DEF Member, Package
<1>3. IsLawfulMember(problem, i)
  BY <1>1, <1>2 DEF IsLawfulMember
<1>. QED BY <1>3, BeginIsMember, AfreshIsWay

(* At the start of the first member. *)
LEMMA InitIsWay == Init => WayInv
<1>. SUFFICES ASSUME Init, status \in {"search", "back"} PROVE WayInv
  BY DEF WayInv
<1>1. /\ problem \in Problems /\ at = 1 /\ status = Begin(1).status /\ pending = Begin(1).pending
      /\ chosen = Begin(1).chosen /\ trail = <<>>
  BY DEF Init
<1>2. IsWorld(problem) /\ 1 \in DOMAIN problem.members
  BY InitHolds, <1>1 DEF ResolverInv
<1>3. Begin(1).status = "search"
  <2>1. Begin(1).status \in {"search", "error"}
    BY <1>2, BeginIsCovered
  <2>. QED BY <1>1, <2>1
<1>4. Range(trail) = {}
  BY <1>1, RangeOfNone
<1>. QED BY <1>1, <1>2, <1>3, <1>4, BeginIsWay DEF WayInv

(* A need that is met already is no detour. *)
LEMMA AgreeIsWay == ResolverInv /\ WayInv /\ Agree => WayInv'
<1>. SUFFICES ASSUME ResolverInv, WayInv, Agree PROVE WayInv'
  OBVIOUS
<1>1. /\ pending # <<>> /\ status = "search" /\ pending' = Tail(pending)
      /\ UNCHANGED <<problem, at, status, chosen, trail>>
  BY DEF Agree, Searching
<1>2. AreNeeds(pending, URLs(problem))
  BY DEF ResolverInv, SearchInv
<1>3. Range(pending') \subseteq Range(pending)
  BY <1>1, <1>2, HeadIsNeed
<1>4. /\ IsLawfulMember(problem, at) /\ IsWay(problem, at, chosen, Range(pending))
      /\ \A f \in Range(trail) : IsKeptFrame(problem, at, f)
  BY <1>1 DEF WayInv
<1>5. IsWay(problem, at, chosen, Range(pending'))
  BY <1>3, <1>4 DEF IsWay
<1>. QED BY <1>1, <1>4, <1>5 DEF WayInv

(* Nor is a dead end. *)
LEMMA BackIsWay == WayInv /\ (Disagree \/ GiveUp) => WayInv'
<1>. SUFFICES ASSUME WayInv, Disagree \/ GiveUp PROVE WayInv'
  OBVIOUS
<1>1. /\ status \in {"search", "back"} /\ status' \in {"back", "error", "dead"} /\ UNCHANGED <<problem, at, trail>>
  BY DEF Disagree, GiveUp, Searching
<1>. QED BY <1>1 DEF WayInv

(* What matches, was offered. *)
LEMMA MatchingAreHad ==
  ASSUME IsWorld(problem), NEW need, IsNeed(need, URLs(problem)), NEW usePin \in BOOLEAN, NEW all,
         all \subseteq Options(problem, need, usePin, fetched).all,
         \A c \in all : ~usePin /\ need.name \in DOMAIN problem.pins => c.version # problem.pins[need.name].version,
         NEW c, c \in Matching(need, all)
  PROVE  IsHad(problem, need.name, c)
<1>1. /\ c \in all /\ Matches(need.requirement, c.version)
      /\ need.name \in DOMAIN problem.precise => c.version = problem.precise[need.name]
  BY DEF Matching
<1>. QED BY <1>1, OffersHad

(* What is offered for a name was asked for, and is had. *)
LEMMA ChooseIsWay == ResolverInv /\ WayInv /\ Choose => WayInv'
<1>. SUFFICES ASSUME ResolverInv, WayInv, Choose, status' \in {"search", "back"} PROVE WayInv'
  BY DEF WayInv
<1>. DEFINE need == Head(pending)
            offered == Options(problem, need, TRUE, fetched)
            left == Matching(need, offered.all)
            pin == IF offered.pinned THEN problem.pins[need.name].version ELSE None
<1>1. /\ pending # <<>> /\ status = "search" /\ UNCHANGED <<problem, at, pending, chosen>>
      /\ status' = IF offered.ok THEN "back" ELSE "error"
      /\ trail' = IF ~offered.ok THEN trail ELSE Append(trail, Frame(left, pin))
  BY DEF Choose, Searching
<1>2. status' = "back" /\ trail' = Append(trail, Frame(left, pin))
  BY <1>1
<1>3. /\ IsNeed(need, URLs(problem)) /\ Range(pending) = {need} \cup Range(Tail(pending))
  BY <1>1, HeadIsNeed DEF ResolverInv, SearchInv
<1>4. /\ IsLawfulMember(problem, at) /\ IsWay(problem, at, chosen, Range(pending))
      /\ \A f \in Range(trail) : IsKeptFrame(problem, at, f)
  BY <1>1 DEF WayInv
<1>5. IsWorld(problem) /\ trail \in Seq(Range(trail))
  BY DEF ResolverInv, TrailInv, IsTrail
<1>6. \A c \in left : IsHad(problem, need.name, c)
  <2>1. PICK usePin \in BOOLEAN : usePin
    OBVIOUS
  <2>2. offered = Options(problem, need, usePin, fetched)
    BY <2>1
  <2>. HIDE DEF need, offered
  <2>. QED BY <1>3, <1>5, <2>1, <2>2, MatchingAreHad
<1>7. pin # None => need.name \in DOMAIN problem.pins /\ pin = problem.pins[need.name].version
  <2>. HIDE DEF need
  <2>. QED BY <1>3, PinnedIsLocked
<1>8. /\ Frame(left, pin).need = need /\ Frame(left, pin).left = left /\ Frame(left, pin).pin = pin
      /\ Frame(left, pin).pending = Tail(pending) /\ Frame(left, pin).chosen = chosen
  BY DEF Frame
<1>. HIDE DEF left, pin, need
<1>9. IsKeptFrame(problem, at, Frame(left, pin))
  <2>1. Range(Tail(pending)) \cup {need} = Range(pending)
    BY <1>3
  <2>. QED BY <1>4, <1>6, <1>7, <1>8, <2>1 DEF IsKeptFrame
<1>10. Range(trail') = Range(trail) \cup {Frame(left, pin)}
  BY <1>2, <1>5, RangeOfAppend
<1>11. \A f \in Range(trail') : IsKeptFrame(problem, at, f)
  BY <1>4, <1>9, <1>10
<1>. QED BY <1>1, <1>2, <1>4, <1>11 DEF WayInv

(* A frame, less what was tried of it. *)
LEMMA TryNextIsWay == ResolverInv /\ WayInv /\ TryNext => WayInv'
<1>. SUFFICES ASSUME ResolverInv, WayInv, TryNext PROVE WayInv'
  OBVIOUS
<1>1. PICK top : top = Last(trail)
  OBVIOUS
<1>2. trail # <<>> /\ status = "back" /\ UNCHANGED <<problem, at>>
  BY DEF TryNext, Backing
<1>3. PICK c \in top.left :
        /\ status' = "search" /\ trail' = Append(Front(trail), [top EXCEPT !.left = @ \ {c}])
        /\ pending' = top.pending \o c.needs /\ chosen' = Extend(top.chosen, top.need.name, c)
  BY <1>1 DEF TryNext
<1>4. IsTrail(problem, Own, Front(trail)) /\ IsFrame(problem, Own, top) /\ IsTrail(problem, Own, trail)
  BY <1>1, <1>2, LastIsFrame DEF ResolverInv, TrailInv
<1>5. PICK rest : rest = [top EXCEPT !.left = @ \ {c}]
  OBVIOUS
<1>6. /\ rest.need = top.need /\ rest.left \subseteq top.left /\ rest.pin = top.pin
      /\ rest.pending = top.pending /\ rest.chosen = top.chosen
  <2>1. PICK need, l, pin, todo, packages :
          top = [need |-> need, left |-> l, pin |-> pin, pending |-> todo, chosen |-> packages]
    BY <1>4 DEF IsFrame
  <2>2. rest = [need |-> need, left |-> l \ {c}, pin |-> pin, pending |-> todo, chosen |-> packages]
    BY <1>5, <2>1
  <2>. QED BY <2>1, <2>2
<1>7. /\ IsLawfulMember(problem, at) /\ \A f \in Range(trail) : IsKeptFrame(problem, at, f)
  BY <1>2 DEF WayInv
<1>8. /\ Range(trail) = Range(Front(trail)) \cup {top} /\ Front(trail) \in Seq(Range(Front(trail)))
  BY <1>1, <1>2, <1>4, RangeOfFront DEF IsTrail
<1>9. IsKeptFrame(problem, at, top)
  BY <1>7, <1>8
<1>10. IsKeptFrame(problem, at, rest)
  BY <1>6, <1>9 DEF IsKeptFrame
<1>11. Range(trail') = Range(Front(trail)) \cup {rest}
  BY <1>3, <1>5, <1>8, RangeOfAppend
<1>12. \A f \in Range(trail') : IsKeptFrame(problem, at, f)
  BY <1>7, <1>8, <1>10, <1>11
<1>13. /\ top.need.name \notin DOMAIN top.chosen /\ top.pending \in Seq(Range(top.pending))
       /\ c.needs \in Seq(Range(c.needs))
  BY <1>4 DEF IsFrame, AreNeeds, IsCandidate, IsChosen
<1>14. IsWay(problem, at, chosen', Range(pending'))
  BY <1>3, <1>9, <1>13, WayGoesOn
<1>. QED BY <1>2, <1>3, <1>7, <1>12, <1>14 DEF WayInv

(* ... or with what is published instead of the pin. *)
LEMMA LeavePinIsWay == ResolverInv /\ WayInv /\ LeavePin => WayInv'
<1>. SUFFICES ASSUME ResolverInv, WayInv, LeavePin PROVE WayInv'
  OBVIOUS
<1>1. PICK top : top = Last(trail)
  OBVIOUS
<1>. DEFINE all == Options(problem, top.need, FALSE, fetched)
            others == {c \in all.all : c.version # top.pin}
            left == Matching(top.need, others)
<1>2. /\ trail # <<>> /\ status = "back" /\ status' \in {"back", "error"} /\ UNCHANGED <<problem, at>>
      /\ top.pin # None /\ trail' = Append(Front(trail), [top EXCEPT !.pin = None, !.left = left])
  BY <1>1 DEF LeavePin, Backing
<1>3. IsTrail(problem, Own, Front(trail)) /\ IsFrame(problem, Own, top) /\ IsTrail(problem, Own, trail)
  BY <1>1, <1>2, LastIsFrame DEF ResolverInv, TrailInv
<1>. HIDE DEF left
<1>4. PICK rest : rest = [top EXCEPT !.pin = None, !.left = left]
  OBVIOUS
<1>5. /\ rest.need = top.need /\ rest.left = left /\ rest.pin = None
      /\ rest.pending = top.pending /\ rest.chosen = top.chosen
  <2>1. PICK need, l, pin, todo, packages :
          top = [need |-> need, left |-> l, pin |-> pin, pending |-> todo, chosen |-> packages]
    BY <1>3 DEF IsFrame
  <2>2. rest = [need |-> need, left |-> left, pin |-> None, pending |-> todo, chosen |-> packages]
    BY <1>4, <2>1
  <2>. QED BY <2>1, <2>2
<1>6. /\ IsLawfulMember(problem, at) /\ \A f \in Range(trail) : IsKeptFrame(problem, at, f)
  BY <1>2 DEF WayInv
<1>7. /\ Range(trail) = Range(Front(trail)) \cup {top} /\ Front(trail) \in Seq(Range(Front(trail)))
  BY <1>1, <1>2, <1>3, RangeOfFront DEF IsTrail
<1>8. IsKeptFrame(problem, at, top)
  BY <1>6, <1>7
<1>9. \A c \in left : IsHad(problem, top.need.name, c)
  <2>1. PICK usePin \in BOOLEAN : ~usePin
    OBVIOUS
  <2>2. all = Options(problem, top.need, usePin, fetched)
    BY <2>1
  <2>3. others \subseteq Options(problem, top.need, usePin, fetched).all
    BY <2>2
  <2>4. top.pin = problem.pins[top.need.name].version
    BY <1>2, <1>8 DEF IsKeptFrame
  <2>5. \A c \in others : c.version # problem.pins[top.need.name].version
    BY <2>4
  <2>6. IsNeed(top.need, URLs(problem)) /\ IsWorld(problem)
    BY <1>3 DEF IsFrame, ResolverInv
  <2>. HIDE DEF all, others
  <2>. QED BY <2>3, <2>5, <2>6, MatchingAreHad DEF left
<1>10. IsKeptFrame(problem, at, rest)
  BY <1>5, <1>8, <1>9 DEF IsKeptFrame
<1>11. Range(trail') = Range(Front(trail)) \cup {rest}
  BY <1>2, <1>4, <1>7, RangeOfAppend
<1>12. \A f \in Range(trail') : IsKeptFrame(problem, at, f)
  BY <1>6, <1>7, <1>10, <1>11
<1>. QED BY <1>2, <1>6, <1>12 DEF WayInv

(* A frame that is done with leaves the others. *)
LEMMA ExhaustIsWay == ResolverInv /\ WayInv /\ Exhaust => WayInv'
<1>. SUFFICES ASSUME ResolverInv, WayInv, Exhaust PROVE WayInv'
  OBVIOUS
<1>1. /\ trail # <<>> /\ status = "back" /\ trail' = Front(trail) /\ UNCHANGED <<problem, at, status>>
  BY DEF Exhaust, Backing
<1>2. trail \in Seq(Range(trail))
  BY DEF ResolverInv, TrailInv, IsTrail
<1>3. Range(trail') \subseteq Range(trail)
  BY <1>1, <1>2, RangeOfFront
<1>. QED BY <1>1, <1>3 DEF WayInv

(* The next member is begun with. *)
LEMMA FinishIsWay == ResolverInv /\ WayInv /\ Finish => WayInv'
<1>. SUFFICES ASSUME ResolverInv, WayInv, Finish, status' \in {"search", "back"} PROVE WayInv'
  BY DEF WayInv
<1>1. /\ UNCHANGED problem /\ trail' = <<>> /\ at # Len(problem.members) /\ at' = at + 1
      /\ status' = Begin(at + 1).status /\ pending' = Begin(at + 1).pending /\ chosen' = Begin(at + 1).chosen
  BY DEF Finish
<1>2. PICK i \in DOMAIN problem.members : i = at + 1
  <2>1. /\ problem.members \in Seq(Range(problem.members)) /\ at \in 1 .. Len(problem.members)
        /\ Len(problem.members) \in Nat
    BY DEF ResolverInv, IsWorld
  <2>. QED BY <1>1, <2>1
<1>3. IsWorld(problem)
  BY DEF ResolverInv
<1>4. Begin(i).status = "search"
  BY <1>1, <1>2, <1>3, BeginIsCovered
<1>5. IsLawfulMember(problem, i) /\ IsWay(problem, i, chosen', Range(pending'))
  BY <1>1, <1>2, <1>3, <1>4, BeginIsWay
<1>6. Range(trail') = {}
  BY <1>1, RangeOfNone
<1>. QED BY <1>1, <1>2, <1>5, <1>6 DEF WayInv

(* Whoever pushes, the copies stay where they are. *)
LEMMA PushKeepsCopies ==
  ASSUME ResolverInv, Push
  PROVE  problem'.vendored = problem.vendored
<1>1. IsWorld(problem)
  BY DEF ResolverInv
<1>2. PICK url \in DOMAIN problem.pushes :
        problem' = [problem EXCEPT !.repositories[url].heads = problem.pushes[url],
                                   !.pushes = [u \in DOMAIN @ \ {url} |-> @[u]]]
  BY Zenon DEF Push
<1>. QED BY <1>1, <1>2 DEF IsWorld

(* ... and what was had is had. *)
LEMMA PushHad ==
  ASSUME ResolverInv, Push, NEW Q, Q = problem'
  PROVE  /\ \A n, p : IsFrom(problem, n, p) => IsFrom(Q, n, p)
         /\ \A n, p : IsItself(problem, n, p) => IsItself(Q, n, p)
         /\ \A n, p : IsHad(problem, n, p) => IsHad(Q, n, p)
         /\ \A i : /\ Root(Q, i) = Root(problem, i) /\ Member(Q, i) = Member(problem, i)
                   /\ MemberNeeds(Q, i) = MemberNeeds(problem, i)
                   /\ IsLawfulMember(problem, i) => IsLawfulMember(Q, i)
<1>1. /\ URLs(Q) = URLs(problem) /\ Q.members = problem.members /\ Q.directories = problem.directories
      /\ Q.toolchain = problem.toolchain /\ Q.configured = problem.configured
      /\ Q.registries = problem.registries /\ Q.pins = problem.pins
      /\ \A u \in URLs(problem) : Q.repositories[u].commits = problem.repositories[u].commits
  BY PushMovesHeads
<1>2. Q.vendored = problem.vendored
  BY PushKeepsCopies
<1>3. /\ \A n, p : IsFrom(problem, n, p) => IsFrom(Q, n, p)
      /\ \A n, p : IsItself(problem, n, p) => IsItself(Q, n, p)
      /\ \A n, p : IsHad(problem, n, p) => IsHad(Q, n, p)
  BY <1>1, <1>2, HadAlike
<1>4. \A i : MemberNeeds(Q, i) = MemberNeeds(problem, i)
  BY <1>1, NeedsAlike
<1>5. \A i : Root(Q, i) = Root(problem, i) /\ Member(Q, i) = Member(problem, i)
  BY <1>1, <1>4 DEF Root, Member
<1>6. \A i : IsLawfulMember(problem, i) => IsLawfulMember(Q, i)
  <2>1. \A c, from : Lawful(problem, c, from) => Lawful(Q, c, from)
    BY <1>1 DEF Lawful, MayWant
  <2>. QED BY <1>1, <1>5, <2>1 DEF IsLawfulMember
<1>. QED BY <1>3, <1>4, <1>5, <1>6

(* Whoever pushes, the way is the same. *)
LEMMA PushIsWay == ResolverInv /\ WayInv /\ Push => WayInv'
<1>. SUFFICES ASSUME ResolverInv, WayInv, Push, status \in {"search", "back"} PROVE WayInv'
  BY DEF Push
<1>1. PICK Q : Q = problem'
  OBVIOUS
<1>2. UNCHANGED <<at, status, pending, chosen, trail>>
  BY DEF Push
<1>3. /\ \A n, p : IsHad(problem, n, p) => IsHad(Q, n, p)
      /\ \A i : /\ Root(Q, i) = Root(problem, i) /\ Member(Q, i) = Member(problem, i)
                /\ IsLawfulMember(problem, i) => IsLawfulMember(Q, i)
  BY <1>1, PushHad
<1>4. Q.pins = problem.pins
  BY <1>1, PushMovesHeads
<1>5. \A i, packages, todo : IsWay(problem, i, packages, todo) => IsWay(Q, i, packages, todo)
  BY <1>3 DEF IsWay
<1>6. \A i, f : IsKeptFrame(problem, i, f) => IsKeptFrame(Q, i, f)
  BY <1>3, <1>4, <1>5 DEF IsKeptFrame
<1>. QED BY <1>1, <1>2, <1>3, <1>5, <1>6 DEF WayInv

(* The world of another run: with the lock that was written, and with the packages in
   the store or copies of them. *)
LEMMA AgainIsWorld ==
  ASSUME ResolverInv, Again, NEW Q, Q = problem'
  PROVE  /\ IsWorld(Q) /\ URLs(Q) = URLs(problem) /\ Q.members = problem.members
         /\ Q.directories = problem.directories /\ Q.toolchain = problem.toolchain
         /\ Q.configured = problem.configured
         /\ Q.pins = LockOf(merged) /\ Q.precise = <<>> /\ Q.pushes = <<>>
         /\ \/ Q.held = {merged[n].content : n \in Fetchable(merged)} /\ Q.vendored = problem.vendored
            \/ Q.vendored = Vendored(merged)
<1>1. IsWorld(Q)
  BY AgainHolds DEF ResolverInv
<1>2. PICK vendors \in BOOLEAN :
        problem' = [problem EXCEPT !.pins = LockOf(merged), !.readable = {}, !.reachable = {},
                      !.locked = TRUE, !.offline = TRUE, !.precise = <<>>, !.pushes = <<>>,
                      !.held = IF vendors THEN {} ELSE {merged[n].content : n \in Fetchable(merged)},
                      !.vendored = IF vendors THEN Vendored(merged) ELSE @,
                      !.registries = [i \in DOMAIN @ |-> [n \in DOMAIN @[i] |->
                        {[e EXCEPT !.yanked = TRUE] : e \in problem.registries[i][n]}]]]
  BY Zenon DEF Again
<1>3. DOMAIN problem = {"members", "directories", "toolchain", "repositories", "databases", "registries",
                        "configured", "readable", "reachable", "held", "vendored", "pins", "precise",
                        "locked", "offline", "pushes"}
  BY DEF ResolverInv, IsWorld
<1>4. Q.members = problem.members
  BY <1>2, <1>3
<1>5. Q.directories = problem.directories
  BY <1>2, <1>3
<1>6. Q.toolchain = problem.toolchain
  BY <1>2, <1>3
<1>7. Q.configured = problem.configured
  BY <1>2, <1>3
<1>8. Q.repositories = problem.repositories
  BY <1>2, <1>3
<1>9. Q.pins = LockOf(merged)
  BY <1>2, <1>3
<1>10. Q.precise = <<>>
  BY <1>2, <1>3
<1>11. Q.pushes = <<>>
  BY <1>2, <1>3
<1>12. Q.vendored = IF vendors THEN Vendored(merged) ELSE problem.vendored
  BY <1>2, <1>3
<1>13. Q.held = IF vendors THEN {} ELSE {merged[n].content : n \in Fetchable(merged)}
  BY <1>2, <1>3
<1>14. URLs(Q) = URLs(problem)
  BY <1>8 DEF URLs
<1>15. \/ Q.held = {merged[n].content : n \in Fetchable(merged)} /\ Q.vendored = problem.vendored
       \/ Q.vendored = Vendored(merged)
  BY <1>12, <1>13
<1>. QED BY <1>1, <1>4, <1>5, <1>6, <1>7, <1>9, <1>10, <1>11, <1>14, <1>15

(* Its members are the same. *)
LEMMA AgainIsMember ==
  ASSUME ResolverInv, Again, NEW Q, Q = problem'
  PROVE  /\ \A i : /\ Root(Q, i) = Root(problem, i) /\ Member(Q, i) = Member(problem, i)
                   /\ MemberNeeds(Q, i) = MemberNeeds(problem, i)
                   /\ IsLawfulMember(Q, i) <=> IsLawfulMember(problem, i)
         /\ \A c, s : NeedsOf(Q, c, s) = NeedsOf(problem, c, s) /\ (Lawful(Q, c, s) <=> Lawful(problem, c, s))
         /\ \A dir : At(Q, dir) = At(problem, dir)
<1>1. /\ Q.members = problem.members /\ Q.directories = problem.directories /\ Q.configured = problem.configured
  BY AgainIsWorld
<1>2. \A i : MemberNeeds(Q, i) = MemberNeeds(problem, i)
  BY <1>1, NeedsAlike
<1>3. \A i : Root(Q, i) = Root(problem, i) /\ Member(Q, i) = Member(problem, i)
  BY <1>1, <1>2 DEF Root, Member
<1>4. \A c, s : Lawful(Q, c, s) <=> Lawful(problem, c, s)
  BY <1>1 DEF Lawful, MayWant
<1>5. \A i : IsLawfulMember(Q, i) <=> IsLawfulMember(problem, i)
  BY <1>1, <1>3, <1>4 DEF IsLawfulMember
<1>6. \A c, s : NeedsOf(Q, c, s) = NeedsOf(problem, c, s)
  BY <1>1 DEF NeedsOf, Want
<1>7. \A dir : At(Q, dir) = At(problem, dir)
  BY <1>1 DEF At
<1>. QED BY <1>2, <1>3, <1>4, <1>5, <1>6, <1>7

(* Another run begins as the first one did. *)
LEMMA AgainIsWay == ResolverInv /\ WayInv /\ Again => WayInv'
<1>. SUFFICES ASSUME ResolverInv, Again, status' \in {"search", "back"} PROVE WayInv'
  BY DEF WayInv
<1>1. PICK Q : Q = problem'
  OBVIOUS
<1>2. /\ at' = 1 /\ status' = Begin(1).status /\ pending' = Begin(1).pending /\ chosen' = Begin(1).chosen
      /\ trail' = <<>>
  BY DEF Again
<1>3. IsWorld(problem) /\ 1 \in DOMAIN problem.members /\ Begin(1).status \in {"search", "error"}
  <2>1. IsWorld(problem) /\ 1 \in DOMAIN problem.members
    BY DEF ResolverInv, IsWorld
  <2>. QED BY <2>1, BeginIsCovered
<1>4. Begin(1).status = "search"
  BY <1>2, <1>3
<1>5. /\ Q.members = problem.members /\ IsWorld(Q)
  BY <1>1, AgainIsWorld
<1>6. \A i : /\ Root(Q, i) = Root(problem, i) /\ Member(Q, i) = Member(problem, i)
             /\ MemberNeeds(Q, i) = MemberNeeds(problem, i)
             /\ IsLawfulMember(Q, i) <=> IsLawfulMember(problem, i)
  BY <1>1, AgainIsMember
<1>7. /\ chosen' = [n \in {Root(Q, 1)} |-> Member(Q, 1)] /\ pending' = MemberNeeds(Q, 1)
  <2>1. /\ Begin(1).chosen = [n \in {Root(problem, 1)} |-> Member(problem, 1)]
        /\ Begin(1).pending = MemberNeeds(problem, 1)
    BY <1>4, BeginIsMember
  <2>2. Root(Q, 1) = Root(problem, 1) /\ Member(Q, 1) = Member(problem, 1)
    BY <1>6
  <2>3. chosen' = [n \in {Root(Q, 1)} |-> Member(Q, 1)]
    BY <1>2, <2>1, <2>2
  <2>. QED BY <1>2, <1>6, <2>1, <2>3
<1>8. IsLawfulMember(Q, 1)
  BY <1>3, <1>4, <1>6, BeginIsWay
<1>9. IsWay(Q, 1, chosen', Range(pending'))
  BY <1>3, <1>5, <1>7, <1>8, AfreshIsWay
<1>10. Range(trail') = {}
  BY <1>2, RangeOfNone
<1>. QED BY <1>1, <1>2, <1>4, <1>8, <1>9, <1>10 DEF WayInv

(* No step leaves the way. *)
LEMMA NextIsWay == ResolverInv /\ WayInv /\ [Next]_vars => WayInv'
<1>1. ASSUME WayInv, UNCHANGED vars PROVE WayInv'
  BY <1>1 DEF WayInv, vars
<1>. QED BY <1>1, AgreeIsWay, BackIsWay, ChooseIsWay, TryNextIsWay, LeavePinIsWay, ExhaustIsWay,
            FinishIsWay, AgainIsWay, PushIsWay DEF Next, Resolve

-----------------------------------------------------------------------------
(* Answers *)

(* A bag has the names it was made of. *)
LEMMA BagsHaveNames ==
  ASSUME NEW s, NEW t, Bag(s) = Bag(t)
  PROVE  Names(s) = Names(t)
<1>. DEFINE times(u, x) == Cardinality({i \in DOMAIN u : u[i].name = x.name /\ u[i].requirement = x.requirement})
            entry(u, x) == [name |-> x.name, requirement |-> x.requirement, times |-> times(u, x)]
<1>1. \A u : Bag(u) = {entry(u, x) : x \in Range(u)}
  BY DEF Bag
<1>. HIDE DEF times
<1>2. \A u, x : x \in Names(u) <=> \E y \in Bag(u) : y.name = x
  <2>1. ASSUME NEW u, NEW x, x \in Names(u) PROVE \E y \in Bag(u) : y.name = x
    <3>1. PICK m \in Range(u) : m.name = x
      BY <2>1 DEF Names
    <3>2. entry(u, m) \in Bag(u) /\ entry(u, m).name = x
      BY <1>1, <3>1
    <3>. QED BY <3>2
  <2>2. ASSUME NEW u, NEW x, NEW y \in Bag(u), y.name = x PROVE x \in Names(u)
    <3>1. PICK m \in Range(u) : y = entry(u, m)
      BY <1>1
    <3>2. m.name = x
      BY <2>2, <3>1
    <3>. QED BY <3>2 DEF Names
  <2>. QED BY <2>1, <2>2
<1>. QED BY <1>2 DEF Names

(* What was settled is itself, and needs what it was said to need. *)
LEMMA SettledIsItself ==
  ASSUME ResolverInv, status = "search", NEW n \in DOMAIN chosen, IsHad(problem, n, chosen[n]),
         AgreesWithIndex(chosen[n])
  PROVE  /\ Settled[n].name = n /\ IsFrom(problem, n, Settled[n]) /\ IsItself(problem, n, Settled[n])
         /\ Settled[n].content = chosen[n].content /\ Names(Settled[n].needs) = Names(chosen[n].needs)
         /\ ~chosen[n].indexed => Settled[n] = chosen[n]
<1>1. PICK p : p = chosen[n]
  OBVIOUS
<1>2. IsChosen(problem, n, p) /\ IsHad(problem, n, p) /\ AgreesWithIndex(p)
  BY <1>1 DEF ResolverInv, SearchInv, Branch
<1>. DEFINE needs == NeedsOf(problem, p.content, p.source)
<1>3. Settled[n] = IF p.indexed THEN [p EXCEPT !.needs = needs] ELSE p
  BY <1>1 DEF Settled
<1>. HIDE DEF needs
<1>4. CASE ~p.indexed
  <2>1. Settled[n] = p
    BY <1>3, <1>4
  <2>. QED BY <1>1, <1>2, <1>4, <2>1 DEF IsHad
<1>5. CASE p.indexed
  <2>1. PICK q : q = [p EXCEPT !.needs = needs]
    OBVIOUS
  <2>2. Settled[n] = q
    BY <1>3, <1>5, <2>1
  <2>3. PICK name, version, source, content, old, indexed :
          p = Package(name, version, source, content, old, indexed)
    BY <1>2 DEF IsChosen
  <2>4. q = Package(name, version, source, content, needs, indexed)
    BY <2>1, <2>3 DEF Package
  <2>5. /\ q.name = p.name /\ q.version = p.version /\ q.source = p.source /\ q.content = p.content
        /\ q.needs = needs
    BY <2>3, <2>4 DEF Package
  <2>6. IsFrom(problem, n, q) /\ p.name = n
    BY <1>2, <2>5 DEF IsHad, IsFrom
  <2>7. /\ CanMaterialize(problem, p.name, p.source, p.content)
        /\ p.content.name = p.name /\ p.content.version = p.version
        /\ Lawful(problem, p.content, p.source) /\ Bag(p.needs) = Bag(needs)
    BY <1>2, <1>5 DEF AgreesWithIndex, needs
  <2>8. Replaced(problem, p.source.kind) => ReplacementFits(problem, n, p.content)
    BY <2>6, <2>7 DEF CanMaterialize
  <2>9. IsItself(problem, n, q)
    BY <2>5, <2>6, <2>7, <2>8 DEF IsItself, needs
  <2>10. Names(q.needs) = Names(p.needs)
    BY <2>5, <2>7, BagsHaveNames
  <2>. QED BY <1>1, <1>5, <2>2, <2>5, <2>6, <2>9, <2>10
<1>. QED BY <1>4, <1>5

(* Where answers meet they are of the same packages. *)
LEMMA MergedAreAlike ==
  ASSUME NEW P, IsWorld(P), NEW before, NEW after, NEW both,
         both = [n \in DOMAIN before \cup DOMAIN after |-> IF n \in DOMAIN before THEN before[n] ELSE after[n]],
         SameAs(before, after), ArePackages(P, before), ArePackages(P, after),
         \A n \in DOMAIN before : IsSource(before[n].source)
  PROVE  /\ ArePackages(P, both) /\ DOMAIN both = DOMAIN before \cup DOMAIN after
         /\ \A n \in DOMAIN before : both[n] = before[n]
         /\ \A n \in DOMAIN after : Looked(both[n]) = Looked(after[n]) /\ both[n].content = after[n].content
                                    /\ both[n].needs = after[n].needs
<1>1. /\ DOMAIN both = DOMAIN before \cup DOMAIN after
      /\ \A n \in DOMAIN before : both[n] = before[n]
      /\ \A n \in DOMAIN after \ DOMAIN before : both[n] = after[n]
  OBVIOUS
<1>2. ArePackages(P, both)
  BY <1>1 DEF ArePackages
<1>3. ASSUME NEW n \in DOMAIN after
      PROVE  /\ Looked(both[n]) = Looked(after[n]) /\ both[n].content = after[n].content
             /\ both[n].needs = after[n].needs
  <2>1. CASE n \notin DOMAIN before
    BY <1>1, <2>1
  <2>2. CASE n \in DOMAIN before
    <3>1. PICK p, q : p = before[n] /\ q = after[n]
      OBVIOUS
    <3>2. both[n] = p
      BY <1>1, <2>2, <3>1
    <3>3. p.version = q.version /\ p.source = q.source /\ IsSource(p.source)
      BY <2>2, <3>1 DEF SameAs
    <3>4. /\ IsFrom(P, n, p) /\ IsItself(P, n, p) /\ p.name = n
          /\ IsFrom(P, n, q) /\ IsItself(P, n, q) /\ q.name = n
      BY <1>3, <2>2, <3>1 DEF ArePackages
    <3>5. p.content = q.content
      BY <3>3, <3>4, OneIsFrom
    <3>6. p.needs = q.needs
      BY <3>3, <3>4, <3>5 DEF IsItself
    <3>. QED BY <3>1, <3>2, <3>3, <3>4, <3>5, <3>6 DEF Looked
  <2>. QED BY <2>1, <2>2
<1>. QED BY <1>1, <1>2, <1>3

(* A member that was resolved stays so where the packages are the same. *)
LEMMA ResolvedAlike ==
  ASSUME NEW P, NEW i, NEW packages, NEW others, IsResolved(P, packages, i),
         Names(MemberNeeds(P, i)) \subseteq DOMAIN packages,
         \A n \in DOMAIN packages : n \in DOMAIN others /\ others[n].content = packages[n].content,
         Looked(others[Root(P, i)]) = Looked(packages[Root(P, i)])
  PROVE  IsResolved(P, others, i)
<1>1. {n \in Names(MemberNeeds(P, i)) : others[n].content.items}
        = {n \in Names(MemberNeeds(P, i)) : packages[n].content.items}
  OBVIOUS
<1>2. /\ IsLawfulMember(P, i) /\ Root(P, i) \in DOMAIN others /\ Looked(others[Root(P, i)]) = Member(P, i)
  BY DEF IsResolved
<1>3. Cardinality({n \in Names(MemberNeeds(P, i)) : others[n].content.items}) <= 1
  BY <1>1 DEF IsResolved
<1>. QED BY <1>2, <1>3 DEF IsResolved

(* At the start nothing is agreed on. *)
LEMMA NothingIsMade ==
  ASSUME NEW P
  PROVE  ArePackages(P, <<>>) /\ IsLeast({}, <<>>)
<1>1. DOMAIN <<>> = {}
  OBVIOUS
<1>. QED BY <1>1 DEF ArePackages, IsLeast

(* ... so that it is an answer to no member. *)
LEMMA InitIsMade == Init => MadeInv
<1>. SUFFICES ASSUME Init PROVE MadeInv
  OBVIOUS
<1>1. merged = <<>> /\ at = 1 /\ status \in {"search", "error"} /\ IsWorld(problem)
  <2>1. /\ problem \in Problems /\ at = 1 /\ status = Begin(1).status /\ merged = <<>>
    BY DEF Init
  <2>2. IsWorld(problem) /\ 1 \in DOMAIN problem.members
    BY InitHolds DEF ResolverInv, Init
  <2>. QED BY <2>1, <2>2, BeginIsCovered
<1>2. DOMAIN problem.members \subseteq Nat \ {0}
  BY <1>1 DEF IsWorld
<1>3. Resolved = {}
  BY <1>1, <1>2 DEF Resolved
<1>4. {Root(problem, i) : i \in Resolved} = {}
  BY <1>3
<1>. QED BY <1>1, <1>3, <1>4, NothingIsMade DEF MadeInv

(* ... nor at the start of another run. *)
LEMMA AgainIsMade == ResolverInv /\ Again => MadeInv'
<1>. SUFFICES ASSUME ResolverInv, Again PROVE MadeInv'
  OBVIOUS
<1>1. merged' = <<>> /\ at' = 1 /\ status' = Begin(1).status
  BY DEF Again
<1>2. IsWorld(problem) /\ 1 \in DOMAIN problem.members
  BY DEF ResolverInv, IsWorld
<1>3. status' \in {"search", "error"}
  BY <1>1, <1>2, BeginIsCovered
<1>4. DOMAIN problem'.members \subseteq Nat \ {0}
  BY AgainHolds DEF ResolverInv, IsWorld
<1>5. Resolved' = {}
  BY <1>1, <1>3, <1>4 DEF Resolved
<1>6. {Root(problem', i) : i \in Resolved'} = {}
  BY <1>5
<1>. QED BY <1>1, <1>5, <1>6, NothingIsMade DEF MadeInv

(* Nothing is agreed on but at the end of a member's search. *)
LEMMA SearchIsMade ==
  ResolverInv /\ MadeInv /\ (Agree \/ Disagree \/ Choose \/ TryNext \/ LeavePin \/ Exhaust \/ GiveUp) => MadeInv'
<1>. SUFFICES ASSUME MadeInv, Agree \/ Disagree \/ Choose \/ TryNext \/ LeavePin \/ Exhaust \/ GiveUp PROVE MadeInv'
  OBVIOUS
<1>1. UNCHANGED <<problem, at, merged>> /\ status # "solved" /\ status' # "solved"
  BY DEF Agree, Disagree, Choose, TryNext, LeavePin, Exhaust, GiveUp, Searching, Backing
<1>2. Resolved' = Resolved
  BY <1>1 DEF Resolved
<1>. QED BY <1>1, <1>2 DEF MadeInv

(* Whoever pushes, what was agreed on is what it is. *)
LEMMA PushIsMade == ResolverInv /\ MadeInv /\ Push => MadeInv'
<1>. SUFFICES ASSUME ResolverInv, MadeInv, Push PROVE MadeInv'
  OBVIOUS
<1>1. PICK Q : Q = problem'
  OBVIOUS
<1>2. UNCHANGED <<at, status, merged>>
  BY DEF Push
<1>3. /\ \A n, p : IsFrom(problem, n, p) => IsFrom(Q, n, p)
      /\ \A n, p : IsItself(problem, n, p) => IsItself(Q, n, p)
      /\ \A i : /\ Root(Q, i) = Root(problem, i) /\ Member(Q, i) = Member(problem, i)
                /\ MemberNeeds(Q, i) = MemberNeeds(problem, i)
                /\ IsLawfulMember(problem, i) => IsLawfulMember(Q, i)
  BY <1>1, PushHad
<1>4. Q.members = problem.members
  BY <1>1, PushMovesHeads
<1>5. Resolved' = Resolved
  BY <1>1, <1>2, <1>4 DEF Resolved
<1>6. \A i \in Resolved : IsResolved(Q, merged, i)
  BY <1>3 DEF MadeInv, IsResolved
<1>7. ArePackages(Q, merged)
  BY <1>3 DEF MadeInv, ArePackages
<1>8. {Root(Q, i) : i \in Resolved} = {Root(problem, i) : i \in Resolved}
  BY <1>3
<1>. QED BY <1>1, <1>2, <1>5, <1>6, <1>7, <1>8 DEF MadeInv

(* What a member's search ends with. *)
LEMMA EndIsResolved ==
  ASSUME ResolverInv, WayInv, status = "search", pending = <<>>, Stands
  PROVE  /\ IsResolved(problem, chosen, at) /\ ~Member(problem, at).indexed
         /\ IsLeast({Root(problem, at)}, chosen) /\ chosen[Root(problem, at)] = Member(problem, at)
         /\ \A n \in DOMAIN chosen : IsHad(problem, n, chosen[n])
         /\ Names(MemberNeeds(problem, at)) \subseteq DOMAIN chosen
<1>1. IsLawfulMember(problem, at) /\ IsWay(problem, at, chosen, Range(pending))
  BY DEF WayInv
<1>2. /\ Root(problem, at) \in DOMAIN chosen /\ chosen[Root(problem, at)] = Member(problem, at)
      /\ \A n \in DOMAIN chosen : IsHad(problem, n, chosen[n])
      /\ IsLeast({Root(problem, at)}, chosen)
  BY <1>1 DEF IsWay
<1>3. IsWorld(problem) /\ at \in DOMAIN problem.members
  BY DEF ResolverInv
<1>4. PICK m : m = Member(problem, at)
  OBVIOUS
<1>5. /\ ~m.indexed /\ m.source = Source("path", problem.members[at].dir, None, None)
      /\ IsHad(problem, Root(problem, at), m)
  BY <1>1, <1>3, <1>4, MemberIsHad
<1>6. Looked(m) = m
  BY <1>4 DEF Looked, Member, Package
<1>7. Begin(at).status = "search"
  <2>1. Lawful(problem, problem.members[at].content, Source("path", problem.members[at].dir, None, None))
    BY <1>1, <1>4, <1>5 DEF IsLawfulMember
  <2>. QED BY <2>1 DEF Begin
<1>8. Begin(at).pending = MemberNeeds(problem, at)
  BY <1>7, BeginIsMember
<1>9. Cardinality({n \in Names(MemberNeeds(problem, at)) : chosen[n].content.items}) <= 1
  BY <1>8 DEF Stands, Libraries
<1>10. Names(MemberNeeds(problem, at)) \subseteq DOMAIN chosen
  <2>1. \A need \in Range(Own) : Met(need, chosen)
    BY RangeOfNone DEF ResolverInv, SearchInv, Covered, AllNeeds
  <2>. QED BY <2>1 DEF Met, Names, Own
<1>11. IsResolved(problem, chosen, at)
  BY <1>1, <1>2, <1>4, <1>6, <1>9 DEF IsResolved
<1>. QED BY <1>2, <1>4, <1>5, <1>10, <1>11

(* What a member's search ends with is an answer, and merged with what was agreed on it
   stays one. *)
LEMMA StandingIsMade ==
  ASSUME ResolverInv, WayInv, MadeInv, Finish, Stands, NEW both, both = merged'
  PROVE  /\ ArePackages(problem, both)
         /\ \A i \in Resolved \cup {at} : IsResolved(problem, both, i)
         /\ IsLeast({Root(problem, i) : i \in Resolved \cup {at}}, both)
<1>1. /\ status = "search" /\ pending = <<>>
      /\ both = [n \in DOMAIN merged \cup DOMAIN Settled |->
                   IF n \in DOMAIN merged THEN merged[n] ELSE Settled[n]]
  BY DEF Finish, Settled
<1>2. PICK settled : settled = Settled
  OBVIOUS
<1>3. /\ IsResolved(problem, chosen, at) /\ ~Member(problem, at).indexed
      /\ IsLeast({Root(problem, at)}, chosen) /\ chosen[Root(problem, at)] = Member(problem, at)
      /\ \A n \in DOMAIN chosen : IsHad(problem, n, chosen[n])
      /\ Names(MemberNeeds(problem, at)) \subseteq DOMAIN chosen
  BY <1>1, EndIsResolved
<1>4. DOMAIN settled = DOMAIN chosen
  BY <1>2 DEF Settled
<1>5. \A n \in DOMAIN chosen :
        /\ settled[n].name = n /\ IsFrom(problem, n, settled[n]) /\ IsItself(problem, n, settled[n])
        /\ settled[n].content = chosen[n].content /\ Names(settled[n].needs) = Names(chosen[n].needs)
        /\ ~chosen[n].indexed => settled[n] = chosen[n]
  <2>1. \A n \in DOMAIN chosen : AgreesWithIndex(chosen[n])
    BY DEF Stands
  <2>. QED BY <1>1, <1>2, <1>3, <2>1, SettledIsItself
<1>6. ArePackages(problem, settled)
  BY <1>4, <1>5 DEF ArePackages
<1>7. /\ ArePackages(problem, merged) /\ \A i \in Resolved : IsResolved(problem, merged, i)
      /\ IsLeast({Root(problem, i) : i \in Resolved}, merged)
  BY DEF MadeInv
<1>8. SameAs(merged, settled) /\ IsWorld(problem) /\ \A n \in DOMAIN merged : IsSource(merged[n].source)
  BY <1>2 DEF Stands, ResolverInv, MergedInv, IsChosen
<1>9. /\ ArePackages(problem, both) /\ DOMAIN both = DOMAIN merged \cup DOMAIN settled
      /\ \A n \in DOMAIN merged : both[n] = merged[n]
      /\ \A n \in DOMAIN settled : /\ Looked(both[n]) = Looked(settled[n])
                                   /\ both[n].content = settled[n].content /\ both[n].needs = settled[n].needs
  <2>1. both = [n \in DOMAIN merged \cup DOMAIN settled |-> IF n \in DOMAIN merged THEN merged[n] ELSE settled[n]]
    BY <1>1, <1>2
  <2>. QED BY <1>6, <1>7, <1>8, <2>1, MergedAreAlike
<1>10. ASSUME NEW i \in Resolved PROVE IsResolved(problem, both, i)
  <2>1. Names(MemberNeeds(problem, i)) \subseteq DOMAIN merged
    <3>1. \A need \in Range(MemberNeeds(problem, i)) : Met(need, merged)
      BY DEF ResolverInv, MergedInv, Resolved
    <3>. QED BY <3>1 DEF Names, Met
  <2>2. IsResolved(problem, merged, i) /\ Root(problem, i) \in DOMAIN merged
    BY <1>7 DEF IsResolved
  <2>3. \A n \in DOMAIN merged : n \in DOMAIN both /\ both[n].content = merged[n].content
    BY <1>9
  <2>4. Looked(both[Root(problem, i)]) = Looked(merged[Root(problem, i)])
    BY <1>9, <2>2
  <2>. QED BY <2>1, <2>2, <2>3, <2>4, ResolvedAlike
<1>11. IsResolved(problem, both, at)
  <2>1. Root(problem, at) \in DOMAIN chosen
    BY <1>3 DEF IsResolved
  <2>2. settled[Root(problem, at)] = chosen[Root(problem, at)]
    BY <1>3, <1>5, <2>1
  <2>3. Looked(both[Root(problem, at)]) = Looked(chosen[Root(problem, at)])
    BY <1>4, <1>9, <2>1, <2>2
  <2>4. \A n \in DOMAIN chosen : n \in DOMAIN both /\ both[n].content = chosen[n].content
    BY <1>4, <1>5, <1>9
  <2>. QED BY <1>3, <2>3, <2>4, ResolvedAlike
<1>12. IsLeast({Root(problem, i) : i \in Resolved} \cup {Root(problem, at)}, both)
  <2>1. PICK roots, more, before, after :
          /\ roots = {Root(problem, i) : i \in Resolved} /\ more = {Root(problem, at)}
          /\ before = merged /\ after = chosen
    OBVIOUS
  <2>2. IsLeast(roots, before) /\ IsLeast(more, after)
    BY <1>3, <1>7, <2>1
  <2>3. DOMAIN both = DOMAIN before \cup DOMAIN after
    BY <1>4, <1>9, <2>1
  <2>4. \A n \in DOMAIN before : Names(both[n].needs) = Names(before[n].needs)
    BY <1>9, <2>1
  <2>5. \A n \in DOMAIN after : Names(both[n].needs) = Names(after[n].needs)
    BY <1>4, <1>5, <1>9, <2>1
  <2>6. ASSUME NEW X, roots \cup more \subseteq X, HasNeeds(X, both)
        PROVE  DOMAIN both \subseteq X
    <3>1. HasNeeds(X, before) /\ HasNeeds(X, after)
      BY <2>3, <2>4, <2>5, <2>6 DEF HasNeeds
    <3>2. DOMAIN before \subseteq X /\ DOMAIN after \subseteq X
      BY <2>2, <2>6, <3>1 DEF IsLeast
    <3>. QED BY <2>3, <3>2
  <2>7. IsLeast(roots \cup more, both)
    BY <2>6 DEF IsLeast
  <2>. QED BY <2>1, <2>7
<1>13. {Root(problem, i) : i \in Resolved} \cup {Root(problem, at)} = {Root(problem, i) : i \in Resolved \cup {at}}
  <2>1. PICK some : some = Resolved
    OBVIOUS
  <2>2. {Root(problem, i) : i \in some} \cup {Root(problem, at)} = {Root(problem, i) : i \in some \cup {at}}
    <3>1. \A x : x \in {Root(problem, i) : i \in some} \cup {Root(problem, at)}
                 => x \in {Root(problem, i) : i \in some \cup {at}}
      OBVIOUS
    <3>2. \A x : x \in {Root(problem, i) : i \in some \cup {at}}
                 => x \in {Root(problem, i) : i \in some} \cup {Root(problem, at)}
      OBVIOUS
    <3>. QED BY <3>1, <3>2
  <2>. QED BY <2>1, <2>2
<1>. QED BY <1>9, <1>10, <1>11, <1>12, <1>13

(* The end of a member's search is one member more that is answered. *)
LEMMA FinishIsMade == ResolverInv /\ WayInv /\ MadeInv /\ Finish => MadeInv'
<1>. SUFFICES ASSUME ResolverInv, WayInv, MadeInv, Finish PROVE MadeInv'
  OBVIOUS
<1>1. status = "search" /\ UNCHANGED problem
  BY DEF Finish
<1>2. CASE ~Stands
  <2>1. status' = "error" /\ UNCHANGED <<at, merged>>
    BY <1>2 DEF Finish
  <2>2. Resolved' = Resolved
    BY <1>1, <2>1 DEF Resolved
  <2>. QED BY <1>1, <2>1, <2>2 DEF MadeInv
<1>3. CASE Stands
  <2>1. PICK both : both = merged'
    OBVIOUS
  <2>2. /\ ArePackages(problem, both)
        /\ \A i \in Resolved \cup {at} : IsResolved(problem, both, i)
        /\ IsLeast({Root(problem, i) : i \in Resolved \cup {at}}, both)
    BY <1>3, <2>1, StandingIsMade
  <2>3. \/ at = Len(problem.members) /\ status' = "solved" /\ at' = at
        \/ at # Len(problem.members) /\ at' = at + 1 /\ status' = Begin(at + 1).status
    BY <1>3 DEF Finish
  <2>4. /\ DOMAIN problem.members = 1 .. Len(problem.members) /\ at \in 1 .. Len(problem.members)
        /\ Len(problem.members) \in Nat /\ IsWorld(problem)
    BY DEF ResolverInv, IsWorld
  <2>5. Resolved = {i \in DOMAIN problem.members : i < at}
    BY <1>1 DEF Resolved
  <2>6. Resolved' = Resolved \cup {at}
    <3>1. CASE at = Len(problem.members) /\ status' = "solved" /\ at' = at
      <4>1. Resolved' = DOMAIN problem.members
        BY <1>1, <3>1 DEF Resolved
      <4>. QED BY <2>4, <2>5, <3>1, <4>1
    <3>2. CASE at # Len(problem.members) /\ at' = at + 1 /\ status' = Begin(at + 1).status
      <4>1. at + 1 \in DOMAIN problem.members
        BY <2>4, <3>2
      <4>2. status' # "solved"
        BY <2>4, <3>2, <4>1, BeginIsCovered
      <4>3. Resolved' = {i \in DOMAIN problem.members : i < at + 1}
        BY <1>1, <3>2, <4>2 DEF Resolved
      <4>. QED BY <2>4, <2>5, <4>3
    <3>. QED BY <2>3, <3>1, <3>2
  <2>. QED BY <1>1, <2>1, <2>2, <2>6 DEF MadeInv
<1>. QED BY <1>2, <1>3

(* No step spoils what was agreed on. *)
LEMMA NextIsMade == ResolverInv /\ WayInv /\ MadeInv /\ [Next]_vars => MadeInv'
<1>1. ASSUME MadeInv, UNCHANGED vars PROVE MadeInv'
  BY <1>1 DEF MadeInv, Resolved, vars
<1>. QED BY <1>1, SearchIsMade, FinishIsMade, AgainIsMade, PushIsMade DEF Next, Resolve

-----------------------------------------------------------------------------
(* The same again *)

(* A package of what it contains. *)
Inside(P, n, v, s, c) == Package(n, v, s, c, NeedsOf(P, c, s), FALSE)

(* What a lock names and can be had, is offered. *)
LEMMA LockServes ==
  ASSUME NEW P, NEW need, NEW pinned, NEW pin, pin = P.pins[need.name],
         CanMaterialize(P, need.name, pin.source, pin.content),
         Lawful(P, pin.content, pin.source), pin.content.name = need.name, pin.content.version = pin.version,
         NEW offer, offer = FromLock(P, need, pinned)
  PROVE  /\ offer.ok /\ offer.reads = {} /\ offer.fetches = {}
         /\ offer.all = {Inside(P, need.name, pin.version, pin.source, pin.content)}
<1>1. PICK one : one = Inside(P, need.name, pin.version, pin.source, pin.content)
  OBVIOUS
<1>2. OfferOne(P, need.name, pin.version, pin.source, pin.content, {}) = Offer({one}, FALSE, {}, {})
  BY <1>1 DEF OfferOne, Inside
<1>3. offer = [Offer({one}, FALSE, {}, {}) EXCEPT !.pinned = pinned]
  BY <1>2 DEF FromLock
<1>4. offer = [all |-> {one}, pinned |-> pinned, reads |-> {}, fetches |-> {}, ok |-> TRUE]
  BY <1>3 DEF Offer
<1>. QED BY <1>1, <1>4

(* What a lock was written of, is what it stands for. *)
LEMMA WrittenIsLooked ==
  ASSUME ResolverInv, MadeInv, Again, NEW Q, Q = problem', NEW n \in DOMAIN merged, NEW m, m = merged[n]
  PROVE  /\ n \in DOMAIN Q.pins /\ Written(Q, n) = Looked(m)
         /\ Q.pins[n].version = m.version /\ Q.pins[n].source = m.source
         /\ m.source.kind # "path" => Q.pins[n].content = m.content
         /\ m.source.kind = "path" => m.content # None /\ m.content = At(Q, m.source.place)
         /\ m.content.name = n /\ m.content.version = m.version /\ Lawful(Q, m.content, m.source)
         /\ m.name = n /\ m.needs = NeedsOf(Q, m.content, m.source)
<1>1. PICK lock : lock = LockOf(merged)
  OBVIOUS
<1>2. Q.pins = lock
  BY <1>1, AgainIsWorld
<1>3. n \in DOMAIN lock
  BY <1>1 DEF LockOf
<1>4. lock[n] = [version |-> m.version, source |-> m.source,
                 content |-> IF m.source.kind = "path" THEN None ELSE m.content,
                 dependencies |-> Names(m.needs)]
  BY <1>1 DEF LockOf
<1>5. /\ lock[n].version = m.version /\ lock[n].source = m.source
      /\ lock[n].content = IF m.source.kind = "path" THEN None ELSE m.content
  BY <1>4
<1>6. m.name = n /\ IsFrom(problem, n, m) /\ IsItself(problem, n, m)
  BY DEF MadeInv, ArePackages
<1>7. /\ \A c, s : NeedsOf(Q, c, s) = NeedsOf(problem, c, s) /\ (Lawful(Q, c, s) <=> Lawful(problem, c, s))
      /\ \A dir : At(Q, dir) = At(problem, dir)
  BY AgainIsMember
<1>8. /\ m.content.name = n /\ m.content.version = m.version /\ Lawful(Q, m.content, m.source)
      /\ m.needs = NeedsOf(Q, m.content, m.source)
  BY <1>6, <1>7 DEF IsItself
<1>9. m.source.kind = "path" => m.content # None /\ m.content = At(Q, m.source.place)
  BY <1>6, <1>7 DEF IsFrom
<1>10. PICK c : c = IF lock[n].source.kind = "path" THEN At(Q, lock[n].source.place) ELSE lock[n].content
  OBVIOUS
<1>11. Written(Q, n) = Package(n, lock[n].version, lock[n].source, c, NeedsOf(Q, c, lock[n].source), FALSE)
  BY <1>2, <1>10 DEF Written
<1>12. c = m.content
  BY <1>5, <1>9, <1>10
<1>13. Written(Q, n) = Looked(m)
  BY <1>5, <1>6, <1>8, <1>11, <1>12 DEF Looked
<1>. QED BY <1>2, <1>3, <1>5, <1>6, <1>8, <1>9, <1>13

(* ... and can be had again. *)
LEMMA WrittenIsHeld ==
  ASSUME ResolverInv, MadeInv, Again, NEW Q, Q = problem', NEW n \in DOMAIN merged, NEW m, m = merged[n],
         m.source.kind # "path"
  PROVE  /\ Replaced(Q, m.source.kind) => ReplacementFits(Q, n, m.content)
         /\ CanMaterialize(Q, n, m.source, m.content)
<1>1. IsItself(problem, n, m)
  BY DEF MadeInv, ArePackages
<1>2. n \in Fetchable(merged)
  BY DEF Fetchable
<1>3. CASE Q.held = {merged[x].content : x \in Fetchable(merged)} /\ Q.vendored = problem.vendored
  <2>1. Replaced(Q, m.source.kind) => ReplacementFits(Q, n, m.content)
    BY <1>1, <1>3 DEF IsItself, Replaced, ReplacementFits
  <2>2. m.content \in Q.held
    BY <1>2, <1>3
  <2>. QED BY <2>1, <2>2 DEF CanMaterialize
<1>4. CASE Q.vendored = Vendored(merged)
  <2>1. PICK copies : copies = [x \in Fetchable(merged) |-> merged[x].content]
    OBVIOUS
  <2>2. Q.vendored = [kinds |-> Redirected(merged), copies |-> copies]
    BY <1>4, <2>1 DEF Vendored
  <2>3. Q.vendored.kinds = Redirected(merged) /\ Q.vendored.copies = copies
    BY <2>2
  <2>4. m.source.kind \in Redirected(merged)
    BY <1>2 DEF Redirected
  <2>5. Replaced(Q, m.source.kind)
    BY <2>3, <2>4 DEF Replaced
  <2>6. n \in DOMAIN copies /\ copies[n] = m.content
    BY <1>2, <2>1
  <2>7. ReplacementFits(Q, n, m.content)
    BY <2>3, <2>6 DEF ReplacementFits, verify_tree
  <2>. QED BY <2>5, <2>7 DEF CanMaterialize
<1>. QED BY <1>3, <1>4, AgainIsWorld

(* What is needed of what a lock was written of, is offered. *)
LEMMA WrittenIsServed ==
  ASSUME ResolverInv, MadeInv, Again, NEW Q, Q = problem', NEW need, IsNeed(need, URLs(Q)),
         need.name \in DOMAIN merged, NEW m, m = merged[need.name],
         Matches(need.requirement, m.version), WantMatches(need.want, m.source)
  PROVE  IsServed(Q, need)
<1>1. PICK n : n = need.name
  OBVIOUS
<1>2. PICK one : one = Inside(Q, n, m.version, m.source, m.content)
  OBVIOUS
<1>3. n \in DOMAIN merged /\ m = merged[n]
  BY <1>1
<1>4. /\ n \in DOMAIN Q.pins /\ Written(Q, n) = Looked(m)
      /\ Q.pins[n].version = m.version /\ Q.pins[n].source = m.source
      /\ m.source.kind # "path" => Q.pins[n].content = m.content
      /\ m.source.kind = "path" => m.content # None /\ m.content = At(Q, m.source.place)
      /\ m.content.name = n /\ m.content.version = m.version /\ Lawful(Q, m.content, m.source)
      /\ m.name = n /\ m.needs = NeedsOf(Q, m.content, m.source)
  BY <1>3, WrittenIsLooked
<1>5. Written(Q, n) = one
  BY <1>2, <1>4 DEF Looked, Inside
<1>6. m.source.kind # "path" =>
        /\ Replaced(Q, m.source.kind) => ReplacementFits(Q, n, m.content)
        /\ CanMaterialize(Q, n, m.source, m.content)
  BY <1>3, WrittenIsHeld
<1>7. IsSource(m.source) /\ (m.source.kind # "git" => m.source.rev = None)
  BY <1>3 DEF ResolverInv, MergedInv, IsChosen
<1>8. need.want.kind = m.source.kind /\ (m.source.rev = None => m.source = need.want)
  BY <1>7, WantedIsSource
<1>9. PICK offer : offer = Options(Q, need, TRUE, {})
  OBVIOUS
<1>10. offer.ok /\ offer.reads = {} /\ offer.fetches = {} /\ offer.all = {one}
  <2>1. CASE m.source.kind = "path"
    <3>1. need.want = m.source /\ need.want.kind = "path"
      BY <1>7, <1>8, <2>1
    <3>2. PICK content : content = At(Q, need.want.place)
      OBVIOUS
    <3>3. content = m.content /\ content # None
      BY <1>4, <2>1, <3>1, <3>2
    <3>4. offer = FromPath(Q, need)
      BY <1>9, <3>1, Zenon DEF Options
    <3>5. offer = OfferOne(Q, need.name, content.version, need.want, content, {})
      BY <3>2, <3>3, <3>4 DEF FromPath
    <3>6. offer = OfferOne(Q, n, m.version, m.source, m.content, {})
      BY <1>1, <1>4, <3>1, <3>3, <3>5
    <3>7. offer = Offer({one}, FALSE, {}, {})
      BY <1>2, <1>4, <3>6 DEF OfferOne, Inside
    <3>. QED BY <3>7 DEF Offer
  <2>2. CASE m.source.kind = "toolchain"
    <3>1. need.want.kind = "toolchain" /\ m.source = Toolchain
      BY <1>7, <1>8, <2>2 DEF IsNeed
    <3>2. offer = FromToolchain(Q, need)
      BY <1>9, <3>1, Zenon DEF Options
    <3>3. n \in DOMAIN Q.toolchain /\ m.content = Q.toolchain[n]
      <4>1. IsFrom(problem, n, m)
        BY <1>3 DEF MadeInv, ArePackages
      <4>2. Q.toolchain = problem.toolchain
        BY AgainIsWorld
      <4>. QED BY <2>2, <4>1, <4>2 DEF IsFrom
    <3>4. Replaced(Q, "toolchain") => ReplacementFits(Q, n, m.content)
      BY <1>6, <2>2
    <3>5. offer = OfferOne(Q, n, m.content.version, Toolchain, m.content, {})
      BY <1>1, <3>2, <3>3, <3>4 DEF FromToolchain
    <3>6. offer = OfferOne(Q, n, m.version, m.source, m.content, {})
      BY <1>4, <3>1, <3>5
    <3>7. offer = Offer({one}, FALSE, {}, {})
      BY <1>2, <1>4, <3>6 DEF OfferOne, Inside
    <3>. QED BY <3>7 DEF Offer
  <2>3. CASE m.source.kind \in {"git", "registry"}
    <3>1. PICK pin : pin = Q.pins[n]
      OBVIOUS
    <3>2. pin.version = m.version /\ pin.source = m.source /\ pin.content = m.content
      BY <1>4, <2>3, <3>1
    <3>3. CanMaterialize(Q, n, pin.source, pin.content)
      BY <1>6, <2>3, <3>2
    <3>4. Lawful(Q, pin.content, pin.source) /\ pin.content.name = n /\ pin.content.version = pin.version
      BY <1>4, <3>2
    <3>5. one = Inside(Q, n, pin.version, pin.source, pin.content)
      BY <1>2, <3>2
    <3>6. offer = FromLock(Q, need, FALSE) \/ offer = FromLock(Q, need, TRUE)
      <4>1. CASE m.source.kind = "git"
        <5>1. need.want.kind = "git"
          BY <1>8, <4>1
        <5>2. PinnedGit(Q, need)
          BY <1>1, <1>4 DEF PinnedGit
        <5>. QED BY <1>9, <5>1, <5>2, Zenon DEF Options
      <4>2. CASE m.source.kind = "registry"
        <5>1. need.want.kind = "registry"
          BY <1>8, <4>2
        <5>2. need.name \notin DOMAIN Q.precise
          BY AgainIsWorld
        <5>3. ApplicablePin(Q, need)
          BY <1>1, <1>4, <5>2 DEF ApplicablePin
        <5>. QED BY <1>9, <5>1, <5>3, Zenon DEF Options
      <4>. QED BY <2>3, <4>1, <4>2
    <3>7. PICK pinned : offer = FromLock(Q, need, pinned)
      BY <3>6
    <3>8. CanMaterialize(Q, need.name, pin.source, pin.content) /\ pin.content.name = need.name
      BY <1>1, <3>3, <3>4
    <3>9. pin = Q.pins[need.name]
      BY <1>1, <3>1
    <3>10. one = Inside(Q, need.name, pin.version, pin.source, pin.content)
      BY <1>1, <3>5
    <3>11. /\ offer.ok /\ offer.reads = {} /\ offer.fetches = {}
           /\ offer.all = {Inside(Q, need.name, pin.version, pin.source, pin.content)}
      BY <3>4, <3>7, <3>8, <3>9, LockServes
    <3>. QED BY <3>10, <3>11
  <2>. QED BY <1>7, <2>1, <2>2, <2>3 DEF IsSource
<1>. QED BY <1>1, <1>5, <1>9, <1>10 DEF IsServed

(* The packages of the lock are those of the answer. *)
LEMMA LockedIsMerged ==
  ASSUME ResolverInv, MadeInv, Again, NEW Q, Q = problem', NEW K, K = Locked(Q)
  PROVE  /\ DOMAIN K = DOMAIN merged /\ DOMAIN Q.pins = DOMAIN merged
         /\ \A n \in DOMAIN merged :
              /\ K[n] = Looked(merged[n]) /\ K[n] = Written(Q, n)
              /\ K[n].version = merged[n].version /\ K[n].source = merged[n].source
              /\ K[n].content = merged[n].content /\ K[n].needs = merged[n].needs
              /\ Looked(K[n]) = Looked(merged[n]) /\ ~K[n].indexed
         /\ LockOf(K) = LockOf(merged) /\ (Cyclic(K) => Cyclic(merged))
         /\ \A need : Met(need, K) <=> Met(need, merged)
<1>1. DOMAIN Q.pins = DOMAIN merged
  BY AgainIsWorld DEF LockOf
<1>2. DOMAIN K = DOMAIN merged /\ \A n \in DOMAIN merged : K[n] = Written(Q, n)
  BY <1>1 DEF Locked
<1>3. ASSUME NEW n \in DOMAIN merged
      PROVE  /\ K[n] = Looked(merged[n]) /\ K[n] = Written(Q, n)
             /\ K[n].version = merged[n].version /\ K[n].source = merged[n].source
             /\ K[n].content = merged[n].content /\ K[n].needs = merged[n].needs
             /\ Looked(K[n]) = Looked(merged[n]) /\ ~K[n].indexed
  <2>1. PICK m : m = merged[n]
    OBVIOUS
  <2>2. Written(Q, n) = Looked(m)
    BY <2>1, WrittenIsLooked
  <2>3. K[n] = Package(m.name, m.version, m.source, m.content, m.needs, FALSE)
    BY <1>2, <2>2 DEF Looked
  <2>4. /\ K[n].name = m.name /\ K[n].version = m.version /\ K[n].source = m.source
        /\ K[n].content = m.content /\ K[n].needs = m.needs /\ ~K[n].indexed
    BY <2>3 DEF Package
  <2>5. Looked(K[n]) = Looked(m)
    BY <2>4 DEF Looked
  <2>. QED BY <1>2, <2>1, <2>2, <2>4, <2>5
<1>4. LockOf(K) = LockOf(merged)
  BY <1>2, <1>3 DEF LockOf
<1>5. Cyclic(K) => Cyclic(merged)
  BY <1>2, <1>3 DEF Cyclic
<1>6. \A need : Met(need, K) <=> Met(need, merged)
  BY <1>2, <1>3 DEF Met
<1>. QED BY <1>1, <1>2, <1>3, <1>4, <1>5, <1>6

(* The lock that was written is one the same packages answer. *)
LEMMA AgainIsKept ==
  ASSUME ResolverInv, MadeInv, Again, NEW Q, Q = problem'
  PROVE  IsKept(Q)
<1>1. PICK K : K = Locked(Q)
  OBVIOUS
<1>2. /\ DOMAIN K = DOMAIN merged /\ DOMAIN Q.pins = DOMAIN merged
      /\ \A n \in DOMAIN merged :
           /\ K[n] = Looked(merged[n]) /\ K[n] = Written(Q, n)
           /\ K[n].version = merged[n].version /\ K[n].source = merged[n].source
           /\ K[n].content = merged[n].content /\ K[n].needs = merged[n].needs
           /\ Looked(K[n]) = Looked(merged[n]) /\ ~K[n].indexed
      /\ LockOf(K) = LockOf(merged) /\ (Cyclic(K) => Cyclic(merged))
      /\ \A need : Met(need, K) <=> Met(need, merged)
  BY <1>1, LockedIsMerged
<1>3. /\ Q.precise = <<>> /\ Q.pushes = <<>> /\ Q.members = problem.members /\ URLs(Q) = URLs(problem)
  BY AgainIsWorld
<1>4. \A i : /\ Root(Q, i) = Root(problem, i) /\ Member(Q, i) = Member(problem, i)
             /\ MemberNeeds(Q, i) = MemberNeeds(problem, i)
             /\ IsLawfulMember(Q, i) <=> IsLawfulMember(problem, i)
  BY AgainIsMember
<1>5. status = "solved" /\ Resolved = DOMAIN problem.members
  BY DEF Again, Resolved
<1>6. /\ \A n \in DOMAIN merged : \A need \in Range(merged[n].needs) : Met(need, merged)
      /\ \A i \in DOMAIN problem.members : \A need \in Range(MemberNeeds(problem, i)) : Met(need, merged)
      /\ ~Cyclic(merged)
  BY <1>5 DEF ResolverInv, MergedInv
<1>7. ~Cyclic(K)
  BY <1>2, <1>6
<1>8. \A n \in DOMAIN Q.pins : \A need \in Range(Written(Q, n).needs) : Met(need, K)
  <2>1. SUFFICES ASSUME NEW n \in DOMAIN merged, NEW need \in Range(Written(Q, n).needs)
                 PROVE  Met(need, K)
    BY <1>2
  <2>2. Written(Q, n).needs = merged[n].needs
    BY <1>2
  <2>. QED BY <1>2, <1>6, <2>2
<1>9. ASSUME NEW i \in DOMAIN Q.members
      PROVE  /\ IsResolved(Q, K, i) /\ \A need \in Range(MemberNeeds(Q, i)) : Met(need, K)
  <2>1. i \in DOMAIN problem.members
    BY <1>3
  <2>2. IsResolved(problem, merged, i)
    BY <1>5, <2>1 DEF MadeInv
  <2>3. Names(MemberNeeds(problem, i)) \subseteq DOMAIN merged
    BY <1>6, <2>1 DEF Names, Met
  <2>4. Root(problem, i) \in DOMAIN merged
    BY <2>2 DEF IsResolved
  <2>5. Looked(K[Root(problem, i)]) = Looked(merged[Root(problem, i)])
    BY <1>2, <2>4
  <2>6. \A n \in DOMAIN merged : n \in DOMAIN K /\ K[n].content = merged[n].content
    BY <1>2
  <2>7. IsResolved(problem, K, i)
    BY <2>2, <2>3, <2>5, <2>6, ResolvedAlike
  <2>8. IsResolved(Q, K, i)
    BY <1>4, <2>7 DEF IsResolved
  <2>. QED BY <1>2, <1>4, <1>6, <2>1, <2>8
<1>10. IsLeast({Root(Q, i) : i \in DOMAIN Q.members}, K)
  <2>1. IsLeast({Root(problem, i) : i \in DOMAIN problem.members}, merged)
    BY <1>5 DEF MadeInv
  <2>2. {Root(Q, i) : i \in DOMAIN Q.members} = {Root(problem, i) : i \in DOMAIN problem.members}
    BY <1>3, <1>4
  <2>3. PICK roots : roots = {Root(problem, i) : i \in DOMAIN problem.members}
    OBVIOUS
  <2>4. ASSUME NEW X, roots \subseteq X, HasNeeds(X, K) PROVE DOMAIN K \subseteq X
    <3>1. HasNeeds(X, merged)
      BY <1>2, <2>4 DEF HasNeeds
    <3>2. DOMAIN merged \subseteq X
      BY <2>1, <2>3, <2>4, <3>1 DEF IsLeast
    <3>. QED BY <1>2, <3>2
  <2>5. IsLeast(roots, K)
    BY <2>4 DEF IsLeast
  <2>. QED BY <2>2, <2>3, <2>5
<1>11. ASSUME NEW need, IsNeed(need, URLs(Q)), Met(need, K) PROVE IsServed(Q, need)
  <2>1. Met(need, merged)
    BY <1>2, <1>11
  <2>2. PICK m : m = merged[need.name]
    OBVIOUS
  <2>3. need.name \in DOMAIN merged /\ Matches(need.requirement, m.version) /\ WantMatches(need.want, m.source)
    BY <2>1, <2>2 DEF Met
  <2>. QED BY <1>11, <2>2, <2>3, WrittenIsServed
<1>. QED BY <1>1, <1>3, <1>7, <1>8, <1>9, <1>10, <1>11 DEF IsKept

(* A lawful member is begun with. *)
LEMMA LawfulIsBegun ==
  ASSUME NEW i, IsLawfulMember(problem, i)
  PROVE  /\ Begin(i).status = "search" /\ Begin(i).pending = MemberNeeds(problem, i)
         /\ Begin(i).chosen = [n \in {Root(problem, i)} |-> Member(problem, i)]
<1>1. Member(problem, i).source = Source("path", problem.members[i].dir, None, None)
  BY DEF Member, Package
<1>2. Lawful(problem, problem.members[i].content, Source("path", problem.members[i].dir, None, None))
  BY <1>1 DEF IsLawfulMember
<1>3. Begin(i).status = "search"
  BY <1>2 DEF Begin
<1>. QED BY <1>3, BeginIsMember

(* A member is what the lock says. *)
LEMMA MemberIsWritten ==
  ASSUME NEW P, IsKept(P), NEW i \in DOMAIN P.members, NEW now, now = [n \in {Root(P, i)} |-> Member(P, i)]
  PROVE  IsPart(P, now) /\ AreWritten(P, Range(MemberNeeds(P, i))) /\ IsLawfulMember(P, i)
<1>1. PICK K : K = Locked(P)
  OBVIOUS
<1>2. IsResolved(P, K, i) /\ \A need \in Range(MemberNeeds(P, i)) : Met(need, K)
  BY <1>1 DEF IsKept
<1>3. PICK r : r = Root(P, i)
  OBVIOUS
<1>4. IsLawfulMember(P, i) /\ r \in DOMAIN K /\ Looked(K[r]) = Member(P, i)
  BY <1>2, <1>3 DEF IsResolved
<1>5. r \in DOMAIN P.pins /\ K[r] = Written(P, r)
  BY <1>1, <1>4 DEF Locked
<1>6. Looked(K[r]) = K[r]
  <2>1. PICK name, version, source, content, needs : K[r] = Package(name, version, source, content, needs, FALSE)
    BY <1>5 DEF Written
  <2>. QED BY <2>1 DEF Looked, Package
<1>7. Member(P, i) = Written(P, r)
  BY <1>4, <1>5, <1>6
<1>8. IsPart(P, now)
  BY <1>3, <1>5, <1>7 DEF IsPart
<1>9. AreWritten(P, Range(MemberNeeds(P, i)))
  BY <1>1, <1>2 DEF AreWritten
<1>. QED BY <1>4, <1>8, <1>9

(* A second run begins with what its lock says. *)
LEMMA AgainIsAgain == ResolverInv /\ MadeInv /\ Again => AgainInv'
<1>. SUFFICES ASSUME ResolverInv, MadeInv, Again PROVE AgainInv'
  OBVIOUS
<1>1. PICK Q : Q = problem'
  OBVIOUS
<1>2. /\ first' = LockOf(merged) /\ status' = Begin(1).status /\ pending' = Begin(1).pending
      /\ chosen' = Begin(1).chosen /\ trail' = <<>> /\ reads' = {} /\ fetched' = {} /\ merged' = <<>>
  BY DEF Again
<1>3. IsKept(Q)
  BY <1>1, AgainIsKept
<1>4. PICK K : K = Locked(Q)
  OBVIOUS
<1>5. first' = LockOf(K)
  BY <1>1, <1>2, <1>4, LockedIsMerged
<1>6. 1 \in DOMAIN problem.members /\ Q.members = problem.members
  <2>1. 1 \in DOMAIN problem.members
    BY DEF ResolverInv, IsWorld
  <2>. QED BY <1>1, <2>1, AgainIsWorld
<1>7. /\ Root(Q, 1) = Root(problem, 1) /\ Member(Q, 1) = Member(problem, 1)
      /\ MemberNeeds(Q, 1) = MemberNeeds(problem, 1)
      /\ IsLawfulMember(Q, 1) <=> IsLawfulMember(problem, 1)
  BY <1>1, AgainIsMember
<1>8. PICK now : now = [n \in {Root(Q, 1)} |-> Member(Q, 1)]
  OBVIOUS
<1>9. IsPart(Q, now) /\ AreWritten(Q, Range(MemberNeeds(Q, 1))) /\ IsLawfulMember(Q, 1)
  BY <1>3, <1>6, <1>8, MemberIsWritten
<1>10. status' = "search" /\ pending' = MemberNeeds(Q, 1) /\ chosen' = now
  <2>1. /\ Begin(1).status = "search" /\ Begin(1).pending = MemberNeeds(problem, 1)
        /\ Begin(1).chosen = [n \in {Root(problem, 1)} |-> Member(problem, 1)]
    BY <1>7, <1>9, LawfulIsBegun
  <2>2. now = [n \in {Root(problem, 1)} |-> Member(problem, 1)]
    BY <1>7, <1>8
  <2>. QED BY <1>2, <1>7, <2>1, <2>2
<1>11. IsPart(Q, merged')
  <2>1. DOMAIN <<>> = {}
    OBVIOUS
  <2>. QED BY <1>2, <2>1 DEF IsPart
<1>12. Range(trail') = {}
  BY <1>2, RangeOfNone
<1>13. IsPart(Q, chosen') /\ AreWritten(Q, Range(pending'))
  BY <1>9, <1>10
<1>. QED BY <1>1, <1>2, <1>3, <1>4, <1>5, <1>10, <1>11, <1>12, <1>13 DEF AgainInv

(* What is the same again, taken apart. *)
LEMMA AgainIs ==
  ASSUME ResolverInv, AgainInv, first # None, status \in {"search", "back"}
  PROVE  /\ first = LockOf(Locked(problem)) /\ IsKept(problem) /\ reads = {} /\ fetched = {}
         /\ IsPart(problem, merged) /\ IsPart(problem, chosen) /\ AreWritten(problem, Range(pending))
         /\ \A f \in Range(trail) : IsAgain(problem, f)
         /\ status = "back" => trail # <<>> /\ Last(trail).left # {}
BY DEF AgainInv

(* What is needed is what it is said to be. *)
LEMMA WrittenFits ==
  ASSUME NEW P, NEW packages, IsPart(P, packages), NEW need, Met(need, Locked(P)), need.name \in DOMAIN packages
  PROVE  Met(need, packages)
<1>1. need.name \in DOMAIN P.pins /\ packages[need.name] = Written(P, need.name)
  BY DEF IsPart
<1>2. Locked(P)[need.name] = packages[need.name]
  BY <1>1 DEF Locked
<1>. QED BY <1>2 DEF Met

(* A need that is met already leaves the rest. *)
LEMMA AgreeIsAgain == ResolverInv /\ AgainInv /\ Agree => AgainInv'
<1>. SUFFICES ASSUME ResolverInv, AgainInv, Agree, first # None PROVE AgainInv'
  BY DEF AgainInv, Agree
<1>1. /\ status = "search" /\ pending # <<>> /\ pending' = Tail(pending)
      /\ UNCHANGED <<problem, status, chosen, trail, reads, fetched, merged, first>>
  BY DEF Agree, Searching
<1>2. Range(pending') \subseteq Range(pending)
  BY <1>1, HeadIsNeed DEF ResolverInv, SearchInv
<1>3. AreWritten(problem, Range(pending'))
  BY <1>1, <1>2, AgainIs DEF AreWritten
<1>. QED BY <1>1, <1>3 DEF AgainInv

(* What is chosen already, will do. *)
LEMMA NothingDisagrees == ResolverInv /\ AgainInv /\ Disagree => first = None
<1>. SUFFICES ASSUME ResolverInv, AgainInv, Disagree, first # None PROVE FALSE
  OBVIOUS
<1>1. PICK need : need = Head(pending)
  OBVIOUS
<1>2. status = "search" /\ pending # <<>> /\ need.name \in DOMAIN chosen /\ ~Fits(need)
  BY <1>1 DEF Disagree, Searching
<1>3. need \in Range(pending)
  BY <1>1, <1>2, HeadIsNeed DEF ResolverInv, SearchInv
<1>4. Met(need, Locked(problem)) /\ IsPart(problem, chosen)
  BY <1>2, <1>3, AgainIs DEF AreWritten
<1>5. Met(need, chosen)
  BY <1>2, <1>4, WrittenFits
<1>. QED BY <1>2, <1>5 DEF Met, Fits

(* What is offered is what the lock says, and nothing else. *)
LEMMA ChooseIsAgain == ResolverInv /\ AgainInv /\ Choose => AgainInv'
<1>. SUFFICES ASSUME ResolverInv, AgainInv, Choose, first # None PROVE AgainInv'
  BY DEF AgainInv, Choose
<1>1. PICK need : need = Head(pending)
  OBVIOUS
<1>2. PICK offered : offered = Options(problem, need, TRUE, fetched)
  OBVIOUS
<1>3. PICK left : left = Matching(need, offered.all)
  OBVIOUS
<1>4. PICK pin : pin = IF offered.pinned THEN problem.pins[need.name].version ELSE None
  OBVIOUS
<1>5. PICK f : f = Frame(left, pin)
  OBVIOUS
<1>6. /\ status = "search" /\ pending # <<>> /\ UNCHANGED <<problem, pending, chosen, merged, first>>
      /\ reads' = reads \cup offered.reads /\ fetched' = fetched \cup offered.fetches
      /\ status' = IF offered.ok THEN "back" ELSE "error"
      /\ trail' = IF ~offered.ok THEN trail ELSE Append(trail, f)
  BY <1>1, <1>2, <1>3, <1>4, <1>5 DEF Choose, Searching
<1>7. /\ IsNeed(need, URLs(problem)) /\ Range(pending) = {need} \cup Range(Tail(pending))
  BY <1>1, <1>6, HeadIsNeed DEF ResolverInv, SearchInv
<1>8. /\ IsKept(problem) /\ reads = {} /\ fetched = {} /\ first = LockOf(Locked(problem))
      /\ IsPart(problem, merged) /\ IsPart(problem, chosen) /\ AreWritten(problem, Range(pending))
      /\ \A g \in Range(trail) : IsAgain(problem, g)
  BY <1>6, AgainIs
<1>9. Met(need, Locked(problem))
  BY <1>7, <1>8 DEF AreWritten
<1>10. PICK one : one = Written(problem, need.name)
  OBVIOUS
<1>11. offered.ok /\ offered.reads = {} /\ offered.fetches = {} /\ offered.all = {one}
  <2>1. IsServed(problem, need)
    BY <1>7, <1>8, <1>9 DEF IsKept
  <2>. QED BY <1>2, <1>8, <1>10, <2>1 DEF IsServed
<1>12. left = {one}
  <2>1. Matches(need.requirement, one.version)
    <3>1. Locked(problem)[need.name] = one
      BY <1>9, <1>10 DEF Met, Locked
    <3>. QED BY <1>9, <3>1 DEF Met
  <2>2. need.name \notin DOMAIN problem.precise
    BY <1>8 DEF IsKept
  <2>. QED BY <1>3, <1>11, <2>1, <2>2 DEF Matching
<1>13. /\ f.need = need /\ f.left = left /\ f.pending = Tail(pending) /\ f.chosen = chosen
  BY <1>1, <1>5 DEF Frame
<1>14. IsAgain(problem, f)
  <2>1. AreWritten(problem, Range(f.pending) \cup {f.need})
    BY <1>7, <1>8, <1>13 DEF AreWritten
  <2>. QED BY <1>8, <1>10, <1>12, <1>13, <2>1 DEF IsAgain
<1>15. trail' = Append(trail, f) /\ status' = "back" /\ reads' = {} /\ fetched' = {}
  BY <1>6, <1>8, <1>11
<1>16. trail \in Seq(Range(trail))
  BY TrailIsFrames
<1>17. Range(trail') = Range(trail) \cup {f}
  BY <1>15, <1>16, RangeOfAppend
<1>18. trail' # <<>> /\ Last(trail') = f
  <2>1. PICK frames : frames = trail
    OBVIOUS
  <2>2. trail' = Append(frames, f) /\ frames \in Seq(Range(frames))
    BY <1>15, <1>16, <2>1
  <2>3. Append(frames, f) # <<>> /\ Last(Append(frames, f)) = f
    BY <2>2 DEF Last
  <2>. QED BY <2>2, <2>3
<1>19. \A g \in Range(trail') : IsAgain(problem, g)
  BY <1>8, <1>14, <1>17
<1>20. Last(trail').left # {}
  BY <1>12, <1>13, <1>18
<1>. QED BY <1>6, <1>8, <1>15, <1>18, <1>19, <1>20 DEF AgainInv

(* What the lock says is taken, with all it needs. *)
LEMMA TryNextIsAgain == ResolverInv /\ AgainInv /\ TryNext => AgainInv'
<1>. SUFFICES ASSUME ResolverInv, AgainInv, TryNext, first # None PROVE AgainInv'
  BY DEF AgainInv, TryNext
<1>1. PICK top : top = Last(trail)
  OBVIOUS
<1>2. trail # <<>> /\ status = "back" /\ UNCHANGED <<problem, reads, fetched, merged, first>>
  BY DEF TryNext, Backing
<1>3. PICK c \in top.left :
        /\ status' = "search" /\ trail' = Append(Front(trail), [top EXCEPT !.left = @ \ {c}])
        /\ pending' = top.pending \o c.needs /\ chosen' = Extend(top.chosen, top.need.name, c)
  BY <1>1 DEF TryNext
<1>4. IsTrail(problem, Own, Front(trail)) /\ IsFrame(problem, Own, top) /\ IsTrail(problem, Own, trail)
  BY <1>1, <1>2, LastIsFrame DEF ResolverInv, TrailInv
<1>5. PICK rest : rest = [top EXCEPT !.left = @ \ {c}]
  OBVIOUS
<1>6. /\ rest.need = top.need /\ rest.left \subseteq top.left
      /\ rest.pending = top.pending /\ rest.chosen = top.chosen
  <2>1. PICK need, l, pin, todo, packages :
          top = [need |-> need, left |-> l, pin |-> pin, pending |-> todo, chosen |-> packages]
    BY <1>4 DEF IsFrame
  <2>2. rest = [need |-> need, left |-> l \ {c}, pin |-> pin, pending |-> todo, chosen |-> packages]
    BY <1>5, <2>1
  <2>. QED BY <2>1, <2>2
<1>7. /\ Range(trail) = Range(Front(trail)) \cup {top} /\ Front(trail) \in Seq(Range(Front(trail)))
  BY <1>1, <1>2, <1>4, RangeOfFront DEF IsTrail
<1>8. /\ IsKept(problem) /\ reads = {} /\ fetched = {} /\ first = LockOf(Locked(problem))
      /\ IsPart(problem, merged) /\ \A g \in Range(trail) : IsAgain(problem, g)
  BY <1>2, AgainIs
<1>9. IsAgain(problem, top)
  BY <1>7, <1>8
<1>10. IsAgain(problem, rest)
  BY <1>6, <1>9 DEF IsAgain
<1>11. Range(trail') = Range(Front(trail)) \cup {rest}
  BY <1>3, <1>5, <1>7, RangeOfAppend
<1>12. \A g \in Range(trail') : IsAgain(problem, g)
  BY <1>7, <1>8, <1>10, <1>11
<1>13. PICK n : n = top.need.name
  OBVIOUS
<1>14. /\ n \in DOMAIN problem.pins /\ c = Written(problem, n) /\ IsPart(problem, top.chosen)
  BY <1>9, <1>13 DEF IsAgain, AreWritten, Met, Locked
<1>15. \A need \in Range(c.needs) : Met(need, Locked(problem))
  BY <1>8, <1>14 DEF IsKept
<1>16. top.pending \in Seq(Range(top.pending)) /\ c.needs \in Seq(Range(c.needs))
  BY <1>4 DEF IsFrame, AreNeeds, IsCandidate, IsChosen
<1>17. Range(pending') = Range(top.pending) \cup Range(c.needs)
  BY <1>3, <1>16, RangeOfJoined
<1>18. AreWritten(problem, Range(pending'))
  BY <1>9, <1>15, <1>17 DEF IsAgain, AreWritten
<1>19. IsPart(problem, chosen')
  BY <1>3, <1>13, <1>14 DEF IsPart, Extend
<1>. QED BY <1>2, <1>3, <1>8, <1>12, <1>18, <1>19 DEF AgainInv

(* What was written is never given up. *)
LEMMA NothingIsLeft ==
  ResolverInv /\ AgainInv /\ (LeavePin \/ Exhaust \/ GiveUp) => first = None
BY AgainIs DEF LeavePin, Exhaust, GiveUp, Backing

(* What was chosen of what is written, stands. *)
LEMMA WrittenStands ==
  ASSUME ResolverInv, WayInv, AgainInv, first # None, status = "search", pending = <<>>
  PROVE  Stands /\ Settled = [n \in DOMAIN chosen |-> Written(problem, n)]
<1>1. PICK K : K = Locked(problem)
  OBVIOUS
<1>2. IsKept(problem) /\ IsPart(problem, chosen) /\ IsPart(problem, merged)
  BY AgainIs
<1>3. at \in DOMAIN problem.members
  BY DEF ResolverInv
<1>4. \A n \in DOMAIN chosen : /\ n \in DOMAIN problem.pins /\ chosen[n] = Written(problem, n)
                               /\ K[n] = chosen[n] /\ n \in DOMAIN K
  BY <1>1, <1>2 DEF IsPart, Locked
<1>5. \A n \in DOMAIN chosen : ~chosen[n].indexed
  <2>1. SUFFICES ASSUME NEW n \in DOMAIN chosen PROVE ~chosen[n].indexed
    OBVIOUS
  <2>2. PICK name, version, source, content, needs :
          Written(problem, n) = Package(name, version, source, content, needs, FALSE)
    BY DEF Written
  <2>. QED BY <1>4, <2>2 DEF Package
<1>6. PICK settled : settled = Settled
  OBVIOUS
<1>7. DOMAIN settled = DOMAIN chosen /\ \A n \in DOMAIN chosen : settled[n] = chosen[n]
  BY <1>5, <1>6 DEF Settled
<1>8. Settled = [n \in DOMAIN chosen |-> Written(problem, n)]
  BY <1>4, <1>5 DEF Settled
<1>9. \A n \in DOMAIN chosen : AgreesWithIndex(chosen[n])
  BY <1>5 DEF AgreesWithIndex
<1>10. Cardinality(Libraries(Begin(at).pending)) <= 1
  <2>1. IsResolved(problem, K, at)
    BY <1>1, <1>2, <1>3 DEF IsKept
  <2>2. Begin(at).pending = MemberNeeds(problem, at)
    BY <2>1, LawfulIsBegun DEF IsResolved
  <2>3. \A need \in Range(Own) : Met(need, chosen)
    BY RangeOfNone DEF ResolverInv, SearchInv, Covered, AllNeeds
  <2>4. Names(MemberNeeds(problem, at)) \subseteq DOMAIN chosen
    BY <2>3 DEF Met, Names, Own
  <2>5. {n \in Names(MemberNeeds(problem, at)) : chosen[n].content.items}
          = {n \in Names(MemberNeeds(problem, at)) : K[n].content.items}
    BY <1>4, <2>4
  <2>. QED BY <2>1, <2>2, <2>5 DEF IsResolved, Libraries
<1>11. ~Cyclic(settled)
  <2>1. SUFFICES ASSUME Cyclic(settled) PROVE Cyclic(K)
    BY <1>1, <1>2 DEF IsKept
  <2>2. PICK loop \in (SUBSET DOMAIN settled) \ {{}} : \A n \in loop : Names(settled[n].needs) \cap loop # {}
    BY <2>1 DEF Cyclic
  <2>3. loop \in (SUBSET DOMAIN K) \ {{}}
    BY <1>4, <1>7
  <2>4. \A n \in loop : Names(K[n].needs) \cap loop # {}
    BY <1>4, <1>7, <2>2
  <2>. QED BY <2>3, <2>4 DEF Cyclic
<1>12. SameAs(merged, settled)
  <2>1. ASSUME NEW n \in DOMAIN merged \cap DOMAIN settled PROVE merged[n] = settled[n]
    BY <1>2, <1>4, <1>7 DEF IsPart
  <2>. QED BY <2>1 DEF SameAs
<1>. QED BY <1>6, <1>8, <1>9, <1>10, <1>11, <1>12 DEF Stands

(* A member's answer stands again, and the next is begun. *)
LEMMA FinishIsAgain == ResolverInv /\ WayInv /\ AgainInv /\ Finish => AgainInv'
<1>. SUFFICES ASSUME ResolverInv, WayInv, AgainInv, Finish, first # None PROVE AgainInv'
  BY DEF AgainInv, Finish
<1>1. status = "search" /\ pending = <<>> /\ UNCHANGED <<problem, reads, fetched, first>>
  BY DEF Finish
<1>2. PICK settled : settled = Settled
  OBVIOUS
<1>3. Stands /\ settled = [n \in DOMAIN chosen |-> Written(problem, n)]
  BY <1>1, <1>2, WrittenStands
<1>4. /\ IsKept(problem) /\ reads = {} /\ fetched = {} /\ first = LockOf(Locked(problem))
      /\ IsPart(problem, merged) /\ IsPart(problem, chosen)
  BY <1>1, AgainIs
<1>5. /\ merged' = [n \in DOMAIN merged \cup DOMAIN chosen |-> IF n \in DOMAIN merged THEN merged[n] ELSE settled[n]]
      /\ trail' = <<>>
      /\ \/ at = Len(problem.members) /\ status' = "solved"
         \/ /\ at # Len(problem.members) /\ status' = Begin(at + 1).status
            /\ pending' = Begin(at + 1).pending /\ chosen' = Begin(at + 1).chosen
  BY <1>2, <1>3 DEF Finish
<1>6. IsPart(problem, merged')
  BY <1>3, <1>4, <1>5 DEF IsPart
<1>7. CASE at = Len(problem.members) /\ status' = "solved"
  BY <1>1, <1>4, <1>6, <1>7 DEF AgainInv
<1>8. CASE /\ at # Len(problem.members) /\ status' = Begin(at + 1).status
           /\ pending' = Begin(at + 1).pending /\ chosen' = Begin(at + 1).chosen
  <2>1. PICK i : i = at + 1
    OBVIOUS
  <2>2. i \in DOMAIN problem.members
    <3>1. /\ DOMAIN problem.members = 1 .. Len(problem.members) /\ at \in 1 .. Len(problem.members)
          /\ Len(problem.members) \in Nat
      BY DEF ResolverInv, IsWorld
    <3>. QED BY <1>8, <2>1, <3>1
  <2>3. PICK now : now = [n \in {Root(problem, i)} |-> Member(problem, i)]
    OBVIOUS
  <2>4. IsPart(problem, now) /\ AreWritten(problem, Range(MemberNeeds(problem, i))) /\ IsLawfulMember(problem, i)
    BY <1>4, <2>2, <2>3, MemberIsWritten
  <2>5. status' = "search" /\ pending' = MemberNeeds(problem, i) /\ chosen' = now
    <3>1. /\ Begin(i).status = "search" /\ Begin(i).pending = MemberNeeds(problem, i)
          /\ Begin(i).chosen = [n \in {Root(problem, i)} |-> Member(problem, i)]
      BY <2>4, LawfulIsBegun
    <3>2. status' = Begin(i).status /\ pending' = Begin(i).pending /\ chosen' = Begin(i).chosen
      BY <1>8, <2>1
    <3>. QED BY <2>3, <3>1, <3>2
  <2>6. Range(trail') = {}
    BY <1>5, RangeOfNone
  <2>7. IsPart(problem, chosen') /\ AreWritten(problem, Range(pending'))
    BY <2>4, <2>5
  <2>. QED BY <1>1, <1>4, <1>6, <2>5, <2>6, <2>7 DEF AgainInv
<1>. QED BY <1>5, <1>7, <1>8

(* Nothing is pushed any more. *)
LEMMA NothingIsPushed == AgainInv /\ Push => first = None
<1>. SUFFICES ASSUME AgainInv, Push, first # None PROVE FALSE
  OBVIOUS
<1>1. problem.pushes = <<>>
  BY DEF AgainInv, IsKept
<1>2. DOMAIN problem.pushes = {}
  BY <1>1
<1>. QED BY <1>2 DEF Push

(* No step of the second run leaves the lock. *)
LEMMA NextIsAgain == ResolverInv /\ WayInv /\ MadeInv /\ AgainInv /\ [Next]_vars => AgainInv'
<1>. SUFFICES ASSUME ResolverInv, WayInv, MadeInv, AgainInv, [Next]_vars PROVE AgainInv'
  OBVIOUS
<1>1. CASE UNCHANGED vars
  BY <1>1 DEF AgainInv, vars
<1>2. ASSUME Disagree \/ LeavePin \/ Exhaust \/ GiveUp \/ Push PROVE AgainInv'
  <2>1. first = None
    BY <1>2, NothingDisagrees, NothingIsLeft, NothingIsPushed
  <2>2. first' = first
    BY <1>2 DEF Disagree, LeavePin, Exhaust, GiveUp, Push
  <2>. QED BY <2>1, <2>2 DEF AgainInv
<1>. QED BY <1>1, <1>2, AgreeIsAgain, ChooseIsAgain, TryNextIsAgain, FinishIsAgain, AgainIsAgain DEF Next, Resolve

(* The same lock is written again. *)
LEMMA InvIsStable == ResolverInv /\ MadeInv /\ AgainInv => AnswerIsStable
<1>. SUFFICES ASSUME ResolverInv, MadeInv, AgainInv, first # None PROVE AnswerIsStable
  BY DEF AnswerIsStable
<1>1. /\ first = LockOf(Locked(problem)) /\ IsKept(problem)
      /\ status \in {"search", "back", "solved"} /\ reads = {} /\ fetched = {} /\ IsPart(problem, merged)
  BY DEF AgainInv
<1>2. ASSUME status = "solved" PROVE LockOf(merged) = first
  <2>1. PICK K : K = Locked(problem)
    OBVIOUS
  <2>2. \A n \in DOMAIN merged : n \in DOMAIN K /\ K[n] = merged[n]
    BY <1>1, <2>1 DEF IsPart, Locked
  <2>3. Resolved = DOMAIN problem.members
    BY <1>2 DEF Resolved
  <2>4. {Root(problem, i) : i \in DOMAIN problem.members} \subseteq DOMAIN merged
    <3>1. \A i \in DOMAIN problem.members : Root(problem, i) \in DOMAIN merged
      BY <2>3 DEF MadeInv, IsResolved
    <3>. QED BY <3>1
  <2>5. HasNeeds(DOMAIN merged, K)
    <3>1. \A n \in DOMAIN merged : \A need \in Range(merged[n].needs) : Met(need, merged)
      BY DEF ResolverInv, MergedInv
    <3>2. \A n \in DOMAIN merged : Names(merged[n].needs) \subseteq DOMAIN merged
      BY <3>1 DEF Names, Met
    <3>. QED BY <2>2, <3>2 DEF HasNeeds
  <2>6. IsLeast({Root(problem, i) : i \in DOMAIN problem.members}, K)
    BY <1>1, <2>1 DEF IsKept
  <2>7. DOMAIN K \subseteq DOMAIN merged
    BY <2>4, <2>5, <2>6 DEF IsLeast
  <2>8. DOMAIN K = DOMAIN merged
    BY <2>2, <2>7
  <2>9. LockOf(merged) = LockOf(K)
    BY <2>2, <2>8 DEF LockOf
  <2>. QED BY <1>1, <2>1, <2>9
<1>. QED BY <1>1, <1>2 DEF AnswerIsStable

(* With its own lock a workspace resolves to the same packages again: with no index
   to read and no git to run, whether the packages are in the store or vendored, no
   member of it is refused or given up on, and the lock that is written is the lock
   there was. *)
THEOREM AnswersAreStable == Spec => []AnswerIsStable
<1>. DEFINE Inv == ResolverInv /\ WayInv /\ MadeInv /\ AgainInv
<1>1. Init => Inv
  <2>1. Init => AgainInv
    BY DEF Init, AgainInv
  <2>. QED BY <2>1, InitHolds, InitIsWay, InitIsMade
<1>2. Inv /\ [Next]_vars => Inv'
  BY NextHolds, NextIsWay, NextIsMade, NextIsAgain
<1>3. Inv => AnswerIsStable
  BY InvIsStable
<1>. QED BY <1>1, <1>2, <1>3, PTL DEF Spec
==============================================================================
