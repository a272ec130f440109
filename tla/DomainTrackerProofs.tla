------------------------- MODULE DomainTrackerProofs -------------------------
(***************************************************************************)
(* Proofs about DomainTracker, for any tree of directories and any number  *)
(* of changes.                                                             *)
(*                                                                         *)
(* The functions change three tables in many steps, and any may end half-  *)
(* way.  What holds between any two of these steps, finished or not, is    *)
(* Sound; that it is kept by a reading is shown going up the directories,  *)
(* by a deletion going from child to child.                                *)
(***************************************************************************)
EXTENDS DomainTracker, FiniteSetTheorems, SequenceTheorems, WellFoundedInduction, TLAPS
-----------------------------------------------------------------------------
(* Numbers.  The library's theorems on induction take the formula to be    *)
(* proved as a parameter, which none of the provers instantiates; here it  *)
(* is the set of the numbers that satisfy it, a value like any other.      *)

\* A set of numbers that is not empty has a least one.
LEMMA LeastNumber ==
  ASSUME NEW T \in SUBSET Nat, T # {}
  PROVE  \E n \in T : \A m \in T : n <= m
<1>1. PICK n \in T : \A m \in T : ~ (<<m, n>> \in OpToRel(<, Nat))
  BY WFMin, NatLessThanWellFounded, Zenon
<1>2. ASSUME NEW m \in T PROVE n <= m
  <2>1. m \in Nat /\ n \in Nat /\ <<m, n>> \in Nat \X Nat /\ <<m, n>>[1] = m /\ <<m, n>>[2] = n
    OBVIOUS
  <2>2. m < n => <<m, n>> \in OpToRel(<, Nat)
    BY <2>1, Zenon DEF OpToRel
  <2>3. ~ (m < n)
    BY <1>1, <2>2, Zenon
  <2> QED BY <2>1, <2>3
<1> QED BY <1>2

\* Which is the one that Min chooses.
LEMMA MinIsLeast ==
  ASSUME NEW T \in SUBSET Nat, T # {}
  PROVE  Min(T) \in T /\ \A m \in T : Min(T) <= m
BY LeastNumber, Zenon DEF Min

\* Induction: a set of numbers that has 0, and with each number the next, has
\* them all.
LEMMA SetInduction ==
  ASSUME NEW T \in SUBSET Nat, 0 \in T, \A n \in T : n + 1 \in T
  PROVE  T = Nat
<1>1. SUFFICES ASSUME Nat \ T # {} PROVE FALSE
  OBVIOUS
<1>2. PICK n \in Nat \ T : \A m \in Nat \ T : n <= m
  <2>1. Nat \ T \in SUBSET Nat
    OBVIOUS
  <2> QED BY <1>1, <2>1, LeastNumber, Zenon
<1>3. n # 0 /\ n - 1 \in Nat
  BY <1>2
<1>4. n - 1 \in T
  BY <1>2, <1>3
<1>5. n \in T
  <2>1. (n - 1) + 1 = n
    BY <1>3
  <2> QED BY <1>4, <2>1
<1> QED BY <1>5
-----------------------------------------------------------------------------
(* What is true of the tables.                                             *)

Configs == [id : Ids, parent : Seq(Ids), domain_id : Seq(Ids), root : Dirs]

\* What holds of the tables D (domains), C (children) and R (domain_roots)
\* between any two of the tracker's steps, finished or not: both tables hold
\* the same configs, ...
SameConfigs(D, R) ==
  /\ \A d \in DOMAIN R : /\ d \in Dirs /\ R[d] \in Configs /\ R[d].root = d
                         /\ R[d].domain_id \in DOMAIN D
                         /\ D[R[d].domain_id] = R[d]
  /\ \A id \in DOMAIN D : /\ D[id].domain_id = id
                          /\ D[id].root \in DOMAIN R
                          /\ R[D[id].root] = D[id]

\* ... each listed with its parent, ...
ListedIn(D, C) ==
  \A id \in DOMAIN D :
    /\ id = Append(D[id].parent, D[id].id)
    /\ D[id].parent # None => D[id].parent \in DOMAIN C /\ id \in C[D[id].parent]

\* ... and whatever is listed, a domain or not, extends what it is listed with.
ListsExtend(C) ==
  \A p \in DOMAIN C : /\ p \in Seq(Ids) /\ IsFiniteSet(C[p])
                      /\ \A c \in C[p] : \E x \in Ids : c = Append(p, x)

Sound(D, C, R) == SameConfigs(D, R) /\ ListedIn(D, C) /\ ListsExtend(C)

IsTables(t) ==
  DOMAIN t = {"domains", "children", "domain_roots", "ok"} /\ t.ok \in BOOLEAN

SoundTables(t) == IsTables(t) /\ Sound(t.domains, t.children, t.domain_roots)
-----------------------------------------------------------------------------
(* The tables, one change at a time.                                       *)

LEMMA AppendIsOneToOne ==
  ASSUME NEW p \in Seq(Ids), NEW q \in Seq(Ids), NEW x \in Ids, NEW y \in Ids,
         Append(p, x) = Append(q, y)
  PROVE  p = q /\ x = y
<1>1. Len(p) = Len(q)
  <2>1. Len(Append(p, x)) = Len(p) + 1 /\ Len(Append(q, y)) = Len(q) + 1
    OBVIOUS
  <2> QED BY <2>1
<1>2. x = y
  BY <1>1
<1>3. ASSUME NEW i \in 1..Len(p) PROVE p[i] = q[i]
  BY <1>1
<1>4. p = q
  BY <1>1, <1>3, SeqEqual, Zenon
<1> QED BY <1>2, <1>4

\* The children, with those of p that have the id too.
ListOf(C, p, id) ==
  IF p = None THEN C ELSE With(C, p, (IF p \in DOMAIN C THEN C[p] ELSE {}) \cup {id})

\* A config with an id that is not in use goes into both tables and the list of
\* its parent.
LEMMA AddingIsSound ==
  ASSUME NEW D, NEW C, NEW R, Sound(D, C, R),
         NEW config \in Configs,
         config.domain_id = Append(config.parent, config.id),
         config.domain_id \notin DOMAIN D, config.root \notin DOMAIN R
  PROVE  Sound(With(D, config.domain_id, config),
               ListOf(C, config.parent, config.domain_id),
               With(R, config.root, config))
<1> DEFINE D1 == With(D, config.domain_id, config)
           R1 == With(R, config.root, config)
           C1 == ListOf(C, config.parent, config.domain_id)
           kids == IF config.parent \in DOMAIN C THEN C[config.parent] ELSE {}
<1>0. /\ config.id \in Ids /\ config.parent \in Seq(Ids)
      /\ config.domain_id \in Seq(Ids) /\ config.root \in Dirs
  BY DEF Configs
<1>1. /\ DOMAIN D1 = DOMAIN D \cup {config.domain_id}
      /\ D1[config.domain_id] = config
      /\ \A id \in DOMAIN D : D1[id] = D[id]
  BY DEF With
<1>2. /\ DOMAIN R1 = DOMAIN R \cup {config.root}
      /\ R1[config.root] = config
      /\ \A d \in DOMAIN R : R1[d] = R[d]
  BY DEF With
<1>3. SameConfigs(D1, R1)
  <2>1. /\ \A d \in DOMAIN R : /\ d \in Dirs /\ R[d] \in Configs /\ R[d].root = d
                               /\ R[d].domain_id \in DOMAIN D
                               /\ D[R[d].domain_id] = R[d]
        /\ \A id \in DOMAIN D : /\ D[id].domain_id = id
                                /\ D[id].root \in DOMAIN R
                                /\ R[D[id].root] = D[id]
    BY DEF Sound, SameConfigs
  <2>2. \A d \in DOMAIN R1 : /\ d \in Dirs /\ R1[d] \in Configs /\ R1[d].root = d
                            /\ R1[d].domain_id \in DOMAIN D1
                            /\ D1[R1[d].domain_id] = R1[d]
    <3> SUFFICES ASSUME NEW d \in DOMAIN R1
                 PROVE  /\ d \in Dirs /\ R1[d] \in Configs /\ R1[d].root = d
                        /\ R1[d].domain_id \in DOMAIN D1
                        /\ D1[R1[d].domain_id] = R1[d]
      OBVIOUS
    <3> HIDE DEF D1, R1
    <3>1. CASE d = config.root
      BY <3>1, <1>0, <1>1, <1>2
    <3>2. CASE d \in DOMAIN R
      BY <3>2, <1>1, <1>2, <2>1
    <3> QED BY <3>1, <3>2, <1>2
  <2>3. \A id \in DOMAIN D1 : /\ D1[id].domain_id = id
                             /\ D1[id].root \in DOMAIN R1
                             /\ R1[D1[id].root] = D1[id]
    <3> SUFFICES ASSUME NEW id \in DOMAIN D1
                 PROVE  /\ D1[id].domain_id = id
                        /\ D1[id].root \in DOMAIN R1
                        /\ R1[D1[id].root] = D1[id]
      OBVIOUS
    <3> HIDE DEF D1, R1
    <3>1. CASE id = config.domain_id
      BY <3>1, <1>1, <1>2
    <3>2. CASE id \in DOMAIN D
      BY <3>2, <1>1, <1>2, <2>1
    <3> QED BY <3>1, <3>2, <1>1
  <2> QED BY <2>2, <2>3 DEF SameConfigs
<1>4. /\ DOMAIN C \subseteq DOMAIN C1
      /\ \A p \in DOMAIN C : C[p] \subseteq C1[p]
      /\ config.parent # None =>
           config.parent \in DOMAIN C1 /\ config.domain_id \in C1[config.parent]
  BY DEF ListOf, With
<1>5. ListedIn(D1, C1)
  <2> SUFFICES ASSUME NEW id \in DOMAIN D1
               PROVE  /\ id = Append(D1[id].parent, D1[id].id)
                      /\ D1[id].parent # None => /\ D1[id].parent \in DOMAIN C1
                                                 /\ id \in C1[D1[id].parent]
    BY DEF ListedIn
  <2>1. CASE id = config.domain_id
    BY <2>1, <1>1, <1>4
  <2>2. CASE id \in DOMAIN D
    BY <2>2, <1>1, <1>4 DEF Sound, ListedIn
  <2> QED BY <2>1, <2>2, <1>1
<1>6. ListsExtend(C1)
  <2> SUFFICES ASSUME NEW p \in DOMAIN C1
               PROVE  /\ p \in Seq(Ids) /\ IsFiniteSet(C1[p])
                      /\ \A c \in C1[p] : \E x \in Ids : c = Append(p, x)
    BY DEF ListsExtend
  <2>1. CASE p \in DOMAIN C /\ C1[p] = C[p]
    BY <2>1 DEF Sound, ListsExtend
  <2>2. CASE p = config.parent /\ C1[p] = kids \cup {config.domain_id}
    <3>1. IsFiniteSet(kids) /\ \A c \in kids : \E x \in Ids : c = Append(p, x)
      BY <2>2, FS_EmptySet DEF Sound, ListsExtend
    <3>2. IsFiniteSet(kids \cup {config.domain_id})
      BY <3>1, FS_AddElement
    <3> QED BY <2>2, <3>1, <3>2, <1>0
  <2>3. \/ p \in DOMAIN C /\ C1[p] = C[p]
        \/ p = config.parent /\ C1[p] = kids \cup {config.domain_id}
    BY DEF ListOf, With
  <2> QED BY <2>1, <2>2, <2>3
<1> QED BY <1>3, <1>5, <1>6 DEF Sound

\* A config leaves both tables, listed or not.
LEMMA RemovingIsSound ==
  ASSUME NEW D, NEW C, NEW R, Sound(D, C, R), NEW d \in DOMAIN R
  PROVE  Sound(Without(D, R[d].domain_id), C, Without(R, d))
<1> DEFINE D1 == Without(D, R[d].domain_id)
           R1 == Without(R, d)
<1>1. /\ DOMAIN D1 = DOMAIN D \ {R[d].domain_id}
      /\ \A id \in DOMAIN D1 : D1[id] = D[id]
      /\ DOMAIN R1 = DOMAIN R \ {d}
      /\ \A e \in DOMAIN R1 : R1[e] = R[e]
  BY DEF Without
<1>2. SameConfigs(D1, R1)
  BY <1>1 DEF Sound, SameConfigs
<1>3. ListedIn(D1, C)
  BY <1>1 DEF Sound, ListedIn
<1> QED BY <1>2, <1>3 DEF Sound

\* What is no domain can be taken from a list.
LEMMA UnlistingIsSound ==
  ASSUME NEW D, NEW C, NEW R, Sound(D, C, R),
         NEW p \in DOMAIN C, NEW id, id \notin DOMAIN D
  PROVE  Sound(D, With(C, p, C[p] \ {id}), R)
<1> DEFINE C1 == With(C, p, C[p] \ {id})
<1>1. /\ DOMAIN C1 = DOMAIN C
      /\ C1[p] = C[p] \ {id}
      /\ \A q \in DOMAIN C : q # p => C1[q] = C[q]
  BY DEF With
<1>2. ListedIn(D, C1)
  BY <1>1 DEF Sound, ListedIn
<1>3. ListsExtend(C1)
  <2>1. IsFiniteSet(C[p] \ {id})
    BY FS_RemoveElement DEF Sound, ListsExtend
  <2> HIDE DEF C1
  <2> QED BY <1>1, <2>1 DEF Sound, ListsExtend
<1> QED BY <1>2, <1>3 DEF Sound
-----------------------------------------------------------------------------
(* The functions of the tracker.                                           *)

\* m_delete() of a config that is at its root: from both tables, and from the
\* list of its parent.
LEMMA UntrackedIsSound ==
  ASSUME NEW t, SoundTables(t), NEW d \in DOMAIN t.domain_roots
  PROVE  LET config == t.domain_roots[d]
             u == Untracked(t, config)
         IN  /\ SoundTables(u) /\ u.ok = t.ok
             /\ u.domains = Without(t.domains, config.domain_id)
             /\ u.domain_roots = Without(t.domain_roots, d)
<1> DEFINE config == t.domain_roots[d]
           D == Without(t.domains, config.domain_id)
           R == Without(t.domain_roots, d)
           C == IF config.parent = None THEN t.children
                ELSE With(t.children, config.parent,
                          t.children[config.parent] \ {config.domain_id})
<1>1. config \in Configs /\ config.root = d /\ config.domain_id \in DOMAIN t.domains
      /\ t.domains[config.domain_id] = config
  BY DEF SoundTables, Sound, SameConfigs
<1>2. config.parent # None => config.parent \in DOMAIN t.children
  BY <1>1 DEF SoundTables, Sound, ListedIn
<1>3. LET u == Untracked(t, config)
      IN  IsTables(u) /\ u.domains = D /\ u.children = C /\ u.domain_roots = R /\ u.ok = t.ok
  <2> DEFINE v == Unlisted(t, config.parent, config.domain_id)
  <2>1. /\ IsTables(v) /\ v.children = C /\ v.domains = t.domains
        /\ v.domain_roots = t.domain_roots /\ v.ok = t.ok
    BY DEF Unlisted, SoundTables, IsTables
  <2>2. Untracked(t, config) = [v EXCEPT !.domains = Without(@, config.domain_id),
                                         !.domain_roots = Without(@, d)]
    BY <1>1 DEF Untracked
  <2> HIDE DEF v, C
  <2> QED BY <2>1, <2>2 DEF IsTables
<1>4. Sound(D, t.children, R)
  BY RemovingIsSound DEF SoundTables
<1>5. config.domain_id \notin DOMAIN D
  BY DEF Without
<1>6. Sound(D, C, R)
  BY <1>2, <1>4, <1>5, UnlistingIsSound
<1> HIDE DEF D, R, C
<1> QED BY <1>3, <1>6 DEF D, R, SoundTables

LEMMA PutIsTables ==
  ASSUME NEW t, IsTables(t), NEW config
  PROVE  LET u == Put(t, config)
         IN  /\ IsTables(u) /\ u.ok = t.ok
             /\ u.domains = With(t.domains, config.domain_id, config)
             /\ u.children = ListOf(t.children, config.parent, config.domain_id)
             /\ u.domain_roots = With(t.domain_roots, config.root, config)
<1> DEFINE v == Listed(t, config.parent, config.domain_id)
<1>1. /\ IsTables(v) /\ v.domains = t.domains
      /\ v.children = ListOf(t.children, config.parent, config.domain_id)
      /\ v.domain_roots = t.domain_roots /\ v.ok = t.ok
  BY DEF Listed, ListOf, Kids, IsTables
<1>2. Put(t, config) = [v EXCEPT !.domains = With(@, config.domain_id, config),
                                 !.domain_roots = With(@, config.root, config)]
  BY DEF Put, Tracked
<1> HIDE DEF v
<1> QED BY <1>1, <1>2 DEF IsTables

\* A config whose id and root are free is put into the tables.
LEMMA PutIsSound ==
  ASSUME NEW t, SoundTables(t), NEW config \in Configs,
         config.domain_id = Append(config.parent, config.id),
         config.domain_id \notin DOMAIN t.domains,
         config.root \notin DOMAIN t.domain_roots
  PROVE  SoundTables(Put(t, config))
<1>1. Sound(With(t.domains, config.domain_id, config),
            ListOf(t.children, config.parent, config.domain_id),
            With(t.domain_roots, config.root, config))
  BY AddingIsSound DEF SoundTables
<1> QED BY <1>1, PutIsTables DEF SoundTables

LEMMA RefusedIsSound ==
  ASSUME NEW t, SoundTables(t)
  PROVE  /\ SoundTables(Refused(t)) /\ Refused(t).ok = FALSE
         /\ Refused(t).domains = t.domains
         /\ Refused(t).domain_roots = t.domain_roots
<1>1. /\ IsTables(Refused(t)) /\ Refused(t).ok = FALSE
      /\ Refused(t).domains = t.domains /\ Refused(t).children = t.children
      /\ Refused(t).domain_roots = t.domain_roots
  BY DEF SoundTables, IsTables, Refused
<1> QED BY <1>1 DEF SoundTables

\* update_domain(): a collision changes nothing; else the config is the one at
\* its root, and all others stay.
LEMMA UpdateIsSound ==
  ASSUME NEW t, SoundTables(t), NEW config \in Configs,
         config.domain_id = Append(config.parent, config.id)
  PROVE  LET u == update_domain(t, config)
         IN  /\ SoundTables(u)
             /\ \/ /\ ~u.ok
                   /\ u.domain_roots = t.domain_roots
                \/ /\ u.ok = t.ok
                   /\ DOMAIN u.domain_roots = DOMAIN t.domain_roots \cup {config.root}
                   /\ u.domain_roots[config.root] = config
                   /\ \A d \in DOMAIN t.domain_roots \ {config.root} :
                        u.domain_roots[d] = t.domain_roots[d]
<1>1. CASE collides(t, config)
  BY <1>1, RefusedIsSound DEF update_domain
<1>2. CASE ~collides(t, config)
  <2> DEFINE f == Freed(t, config.root)
  <2>1. update_domain(t, config) = Put(f, config)
    BY <1>2 DEF update_domain
  <2>2. /\ SoundTables(f) /\ f.ok = t.ok
        /\ config.root \notin DOMAIN f.domain_roots
        /\ config.domain_id \notin DOMAIN f.domains
        /\ DOMAIN f.domain_roots = DOMAIN t.domain_roots \ {config.root}
        /\ \A d \in DOMAIN f.domain_roots : f.domain_roots[d] = t.domain_roots[d]
    <3>1. CASE config.root \in DOMAIN t.domain_roots
      <4>1. f = Untracked(t, t.domain_roots[config.root])
        BY <3>1 DEF Freed
      <4>2. /\ SoundTables(f) /\ f.ok = t.ok
            /\ f.domains = Without(t.domains, t.domain_roots[config.root].domain_id)
            /\ f.domain_roots = Without(t.domain_roots, config.root)
        BY <3>1, <4>1, UntrackedIsSound
      <4>3. config.domain_id \in DOMAIN t.domains
              => config.domain_id = t.domain_roots[config.root].domain_id
        <5>1. SameConfigs(t.domains, t.domain_roots)
          BY DEF SoundTables, Sound
        <5> HIDE DEF f
        <5>2. ASSUME config.domain_id \in DOMAIN t.domains
              PROVE  /\ t.domains[config.domain_id].root = config.root
                     /\ t.domain_roots[t.domains[config.domain_id].root] = t.domains[config.domain_id]
                     /\ t.domains[config.domain_id].domain_id = config.domain_id
          BY <5>1, <5>2, <1>2 DEF collides, SameConfigs
        <5> QED BY <5>2
      <4> HIDE DEF f
      <4> QED BY <4>2, <4>3 DEF Without
    <3>2. CASE config.root \notin DOMAIN t.domain_roots
      <4>1. f = t
        BY <3>2 DEF Freed
      <4>2. config.domain_id \notin DOMAIN t.domains
        <5>1. SameConfigs(t.domains, t.domain_roots)
          BY DEF SoundTables, Sound
        <5> QED BY <1>2, <3>2, <5>1 DEF collides, SameConfigs
      <4> HIDE DEF f
      <4> QED BY <3>2, <4>1, <4>2
    <3> QED BY <3>1, <3>2
  <2> HIDE DEF f
  <2>3. /\ SoundTables(Put(f, config)) /\ Put(f, config).ok = f.ok
        /\ Put(f, config).domain_roots = With(f.domain_roots, config.root, config)
    BY <2>2, PutIsSound, PutIsTables DEF SoundTables
  <2> QED BY <2>1, <2>2, <2>3 DEF With
<1> QED BY <1>1, <1>2
-----------------------------------------------------------------------------
(* Reading a domain.xml, which reads those above it first.                 *)

Contents == Ids \cup {Broken, NoFile}

Steps(outcomes, a, d) == {Step(r, a, d) : r \in outcomes}

\* What Reading(t, d)[i] is defined as, g being Reading(t, d).
ReadingAt(g, t, d, i) ==
  IF i > Len(Above[d]) THEN {[t |-> t, parent |-> None]}
  ELSE IF i > 0 /\ may_be_parent(Up(d, i)) /\ Up(d, i) \in DOMAIN t.domain_roots
    THEN {[t |-> t, parent |-> t.domain_roots[Up(d, i)].domain_id]}
    ELSE Steps(g[i + 1], Up(d, i), d)

\* The recursion has an end: from any dir there are finitely many above it.
LEMMA ReadingIsDefined ==
  ASSUME NEW t, NEW d \in Dirs
  PROVE  \A i \in 0..Len(Above[d]) + 1 :
           Reading(t, d)[i] = ReadingAt(Reading(t, d), t, d, i)
<1> DEFINE n == Len(Above[d])
           T == {k \in Nat : \E g : \A i \in 0..n + 1 :
                               i + k > n => g[i] = ReadingAt(g, t, d, i)}
<1>1. n \in Nat
  BY DirsAreATree
<1>2. ASSUME NEW g, NEW h, NEW i \in 0..n + 1, i <= n => g[i + 1] = h[i + 1]
      PROVE  ReadingAt(g, t, d, i) = ReadingAt(h, t, d, i)
  <2> HIDE DEF n
  <2>1. CASE i > n
    BY <2>1 DEF ReadingAt, n
  <2>2. CASE ~ (i > n)
    <3>1. g[i + 1] = h[i + 1]
      BY <1>1, <1>2, <2>2
    <3> QED BY <3>1, <2>2, Zenon DEF ReadingAt, n
  <2> QED BY <2>1, <2>2
<1> HIDE DEF n
<1>3. 0 \in T
  <2> DEFINE h == [i \in 0..n + 1 |-> ReadingAt(0, t, d, i)]
  <2>1. ASSUME NEW i \in 0..n + 1, i + 0 > n PROVE h[i] = ReadingAt(h, t, d, i)
    <3>1. ReadingAt(0, t, d, i) = ReadingAt(h, t, d, i)
      <4> HIDE DEF h
      <4> QED BY <1>1, <1>2, <2>1
    <3> QED BY <3>1
  <2> HIDE DEF h
  <2> QED BY <2>1
<1>4. ASSUME NEW k \in T PROVE k + 1 \in T
  <2>1. PICK g : \A i \in 0..n + 1 : i + k > n => g[i] = ReadingAt(g, t, d, i)
    OBVIOUS
  <2> DEFINE h == [i \in 0..n + 1 |-> ReadingAt(g, t, d, i)]
  <2>2. ASSUME NEW i \in 0..n + 1, i + (k + 1) > n PROVE h[i] = ReadingAt(h, t, d, i)
    <3>1. i <= n => h[i + 1] = g[i + 1]
      <4> SUFFICES ASSUME i <= n PROVE h[i + 1] = g[i + 1]
        OBVIOUS
      <4>1. i + 1 \in 0..n + 1 /\ (i + 1) + k > n
        BY <1>1, <2>2
      <4>2. g[i + 1] = ReadingAt(g, t, d, i + 1)
        BY <2>1, <4>1
      <4> QED BY <4>1, <4>2
    <3>2. ReadingAt(g, t, d, i) = ReadingAt(h, t, d, i)
      <4> HIDE DEF h
      <4> QED BY <1>2, <3>1
    <3> QED BY <3>2
  <2>3. k + 1 \in Nat
    OBVIOUS
  <2> HIDE DEF h
  <2> QED BY <2>2, <2>3
<1>5. PICK g : \A i \in 0..n + 1 : g[i] = ReadingAt(g, t, d, i)
  <2>1. T = Nat
    <3> HIDE DEF T
    <3>1. T \in SUBSET Nat
      BY DEF T
    <3> QED BY <1>3, <1>4, <3>1, SetInduction
  <2>2. n + 1 \in T
    BY <1>1, <2>1
  <2>3. PICK g : \A i \in 0..n + 1 : i + (n + 1) > n => g[i] = ReadingAt(g, t, d, i)
    BY <2>2
  <2>4. \A i \in 0..n + 1 : i + (n + 1) > n
    BY <1>1
  <2> QED BY <2>3, <2>4
<1> DEFINE R == [i \in 0..n + 1 |-> g[i]]
<1>6. R = [i \in 0..n + 1 |-> ReadingAt(R, t, d, i)]
  <2>1. ASSUME NEW i \in 0..n + 1 PROVE R[i] = ReadingAt(R, t, d, i)
    <3>1. i <= n => R[i + 1] = g[i + 1]
      BY <1>1
    <3>2. ReadingAt(g, t, d, i) = ReadingAt(R, t, d, i)
      <4> HIDE DEF R
      <4> QED BY <1>2, <3>1
    <3> QED BY <1>5, <3>2
  <2> DEFINE S == [i \in 0..n + 1 |-> ReadingAt(R, t, d, i)]
  <2>2. DOMAIN R = DOMAIN S /\ \A i \in DOMAIN S : R[i] = S[i]
    BY <2>1
  <2> QED BY <2>1
<1>7. Reading(t, d) = CHOOSE f : f = [i \in 0..n + 1 |-> ReadingAt(f, t, d, i)]
  BY DEF Reading, ReadingAt, Steps, n
<1>8. Reading(t, d) = [i \in 0..n + 1 |-> ReadingAt(Reading(t, d), t, d, i)]
  <2> HIDE DEF R
  <2> QED BY <1>6, <1>7, Zenon
<1>9. ASSUME NEW i \in 0..n + 1
      PROVE  Reading(t, d)[i] = ReadingAt(Reading(t, d), t, d, i)
  BY <1>8, Zenon
<1> QED BY <1>9, Zenon DEF n

\* No dir is forgotten, and the id of a dir is what it was, or what its file
\* says now.
Grown(t, u) ==
  /\ DOMAIN t.domain_roots \subseteq DOMAIN u.domain_roots
  /\ \A x \in DOMAIN u.domain_roots :
       \/ u.domain_roots[x].id = fs'[x]
       \/ x \in DOMAIN t.domain_roots /\ u.domain_roots[x].id = t.domain_roots[x].id

\* The dir of the file that is read is tracked as before, as long as only those
\* above were read, ...
AsBefore(t, u, d) ==
  /\ d \in DOMAIN u.domain_roots => d \in DOMAIN t.domain_roots

\* ... and then it is what its file says, or the file was refused.
ReadOrRefused(t, u, d) ==
  /\ u.ok => d \in DOMAIN u.domain_roots /\ u.domain_roots[d].id = fs'[d]
  /\ ~u.ok => AsBefore(t, u, d)

Outcome(t, r) == /\ DOMAIN r = {"t", "parent"}
                 /\ SoundTables(r.t) /\ r.parent \in Seq(Ids) /\ Grown(t, r.t)

LEMMA StepIsSound ==
  ASSUME fs' \in [Dirs -> Contents], NEW d \in Dirs, NEW a \in Dirs,
         fs'[d] # NoFile, NEW t, NEW r, Outcome(t, r), AsBefore(t, r.t, d)
  PROVE  /\ Outcome(t, Step(r, a, d))
         /\ a # d => AsBefore(t, Step(r, a, d).t, d)
         /\ a = d => ReadOrRefused(t, Step(r, a, d).t, d)
<1> DEFINE config == NewConfig(a, r.parent)
           u == update_domain(r.t, config)
           s == Step(r, a, d)
<1>1. CASE ~r.t.ok \/ (a # d /\ ~may_be_parent(a))
  <2>1. s = r
    BY <1>1 DEF Step
  <2>2. a = d => ~r.t.ok
    BY <1>1
  <2> QED BY <2>1, <2>2 DEF ReadOrRefused
<1>2. CASE r.t.ok /\ (a = d \/ may_be_parent(a)) /\ ~parses(a)
  <2>1. s = [r EXCEPT !.t = Refused(@)]
    BY <1>2 DEF Step
  <2>2. /\ DOMAIN s = {"t", "parent"} /\ s.t = Refused(r.t) /\ s.parent = r.parent
    <3> HIDE DEF s
    <3> QED BY <2>1 DEF Outcome
  <2>3. /\ SoundTables(s.t) /\ s.t.ok = FALSE /\ s.t.domain_roots = r.t.domain_roots
    BY <2>2, RefusedIsSound DEF Outcome
  <2> HIDE DEF s
  <2> QED BY <2>2, <2>3 DEF Outcome, Grown, AsBefore, ReadOrRefused, s
<1>3. CASE r.t.ok /\ (a = d \/ may_be_parent(a)) /\ parses(a)
  <2>1. s = [t |-> IF a = d THEN u ELSE [u EXCEPT !.ok = TRUE], parent |-> config.domain_id]
    BY <1>3 DEF Step
  <2>2. /\ config \in Configs /\ config.domain_id = Append(config.parent, config.id)
        /\ config.root = a /\ config.id = fs'[a] /\ config.domain_id \in Seq(Ids)
    <3>1. fs'[a] \in Ids
      BY <1>3 DEF may_be_parent, parses, Contents
    <3>2. r.parent \in Seq(Ids) /\ Append(r.parent, fs'[a]) \in Seq(Ids)
      BY <3>1 DEF Outcome
    <3> QED BY <3>1, <3>2 DEF NewConfig, Configs
  <2>3. /\ SoundTables(u)
        /\ \/ ~u.ok /\ u.domain_roots = r.t.domain_roots
           \/ /\ u.ok = r.t.ok
              /\ DOMAIN u.domain_roots = DOMAIN r.t.domain_roots \cup {a}
              /\ u.domain_roots[a] = config
              /\ \A x \in DOMAIN r.t.domain_roots \ {a} :
                   u.domain_roots[x] = r.t.domain_roots[x]
    <3> HIDE DEF config
    <3>1. SoundTables(r.t)
      BY DEF Outcome
    <3> QED BY <2>2, <3>1, UpdateIsSound
  <2>4. Grown(t, u)
    <3>1. Grown(t, r.t)
      BY DEF Outcome
    <3> HIDE DEF u, config
    <3> QED BY <2>2, <2>3, <3>1 DEF Grown
  <2>5. /\ DOMAIN s = {"t", "parent"} /\ s.parent = config.domain_id
        /\ s.t = IF a = d THEN u ELSE [u EXCEPT !.ok = TRUE]
    <3> HIDE DEF u, config, s
    <3> QED BY <2>1
  <2> HIDE DEF s, u, config
  <2>6. CASE a = d
    <3>1. s.t = u
      BY <2>5, <2>6
    <3>2. ReadOrRefused(t, u, d)
      BY <2>2, <2>3, <2>6, <1>3 DEF ReadOrRefused, AsBefore
    <3> QED BY <3>1, <3>2, <2>2, <2>3, <2>4, <2>5, <2>6 DEF Outcome, s
  <2>7. CASE a # d
    <3>1. /\ SoundTables(s.t) /\ s.t.domain_roots = u.domain_roots
      BY <2>3, <2>5, <2>7 DEF SoundTables, IsTables
    <3>2. AsBefore(t, s.t, d)
      BY <2>3, <2>7, <3>1 DEF AsBefore
    <3>3. Grown(t, s.t)
      BY <2>4, <3>1 DEF Grown
    <3> QED BY <2>2, <2>5, <2>7, <3>1, <3>2, <3>3 DEF Outcome, s
  <2> QED BY <2>6, <2>7
<1> QED BY <1>1, <1>2, <1>3

\* Reading a file, whichever files there are above it.
LEMMA ReadIsSound ==
  ASSUME fs' \in [Dirs -> Contents], NEW d \in Dirs, fs'[d] # NoFile,
         NEW t, SoundTables(t), NEW u \in Read(t, d)
  PROVE  SoundTables(u) /\ Grown(t, u) /\ ReadOrRefused(t, u, d)
<1> DEFINE n == Len(Above[d])
           R == Reading(t, d)
           T == {k \in Nat : \A i \in 1..n + 1 : i + k > n =>
                               \A r \in R[i] : Outcome(t, r) /\ AsBefore(t, r.t, d)}
<1>1. n \in Nat
  BY DirsAreATree
<1>2. ASSUME NEW i \in 1..n PROVE Up(d, i) \in Dirs /\ Up(d, i) # d
  <2>1. Above[d] \in Seq(Dirs \ {d}) /\ i \in 1..Len(Above[d]) /\ i # 0
    BY <1>1, DirsAreATree
  <2>2. Above[d][i] \in Dirs \ {d}
    BY <2>1, ElementOfSeq
  <2> QED BY <2>1, <2>2 DEF Up
<1>3. \A i \in 0..n + 1 : R[i] = ReadingAt(R, t, d, i)
  BY ReadingIsDefined
<1>4. ASSUME NEW p \in Seq(Ids)
      PROVE  Outcome(t, [t |-> t, parent |-> p]) /\ AsBefore(t, t, d)
  BY DEF Outcome, AsBefore, Grown
<1> HIDE DEF n, R
<1>5. 0 \in T
  <2> SUFFICES ASSUME NEW i \in 1..n + 1, i + 0 > n, NEW r \in R[i]
               PROVE  Outcome(t, r) /\ AsBefore(t, r.t, d)
    OBVIOUS
  <2>1. i > n /\ i \in 0..n + 1
    BY <1>1
  <2>2. R[i] = {[t |-> t, parent |-> None]}
    BY <1>3, <2>1 DEF ReadingAt, n
  <2>3. None \in Seq(Ids)
    BY DEF None
  <2> QED BY <1>4, <2>2, <2>3
<1>6. ASSUME NEW k \in T PROVE k + 1 \in T
  <2>1. k + 1 \in Nat
    OBVIOUS
  <2> SUFFICES ASSUME NEW i \in 1..n + 1, i + (k + 1) > n, NEW r \in R[i]
               PROVE  Outcome(t, r) /\ AsBefore(t, r.t, d)
    BY <2>1
  <2>2. CASE i > n
    <3>1. i + 0 > n
      BY <1>1, <2>2
    <3> QED BY <1>5, <3>1
  <2>3. CASE i <= n
    <3>1. i \in 1..n /\ i + 1 \in 1..n + 1 /\ (i + 1) + k > n /\ i \in 0..n + 1 /\ ~ (i > n)
      BY <1>1, <2>3
    <3>2. \A q \in R[i + 1] : Outcome(t, q) /\ AsBefore(t, q.t, d)
      BY <3>1
    <3>0. R[i] = ReadingAt(R, t, d, i)
      BY <1>3, <3>1
    <3>3. CASE may_be_parent(Up(d, i)) /\ Up(d, i) \in DOMAIN t.domain_roots
      <4>1. r = [t |-> t, parent |-> t.domain_roots[Up(d, i)].domain_id]
        BY <3>0, <3>1, <3>3 DEF ReadingAt, n
      <4>2. t.domain_roots[Up(d, i)].domain_id \in Seq(Ids)
        BY <3>3 DEF SoundTables, Sound, SameConfigs, Configs
      <4> QED BY <1>4, <4>1, <4>2
    <3>4. CASE ~ (may_be_parent(Up(d, i)) /\ Up(d, i) \in DOMAIN t.domain_roots)
      <4>0. R[i] = Steps(R[i + 1], Up(d, i), d)
        BY <3>0, <3>1, <3>4 DEF ReadingAt, n
      <4>1. PICK q \in R[i + 1] : r = Step(q, Up(d, i), d)
        BY <4>0 DEF Steps
      <4> QED BY <1>2, <3>1, <3>2, <4>1, StepIsSound
    <3> QED BY <3>3, <3>4
  <2> QED BY <1>1, <2>2, <2>3
<1>7. T = Nat
  <2> HIDE DEF T
  <2>1. T \in SUBSET Nat
    BY DEF T
  <2> QED BY <1>5, <1>6, <2>1, SetInduction
<1>8. \A r \in R[1] : Outcome(t, r) /\ AsBefore(t, r.t, d)
  <2>1. 1 \in 1..n + 1 /\ 1 + n > n
    BY <1>1
  <2>2. \A i \in 1..n + 1 : i + n > n => \A r \in R[i] : Outcome(t, r) /\ AsBefore(t, r.t, d)
    <3>1. n \in T
      <4> HIDE DEF T
      <4> QED BY <1>1, <1>7
    <3> QED BY <3>1
  <2> HIDE DEF T
  <2> QED BY <2>1, <2>2
<1>9. PICK q \in R[1] : u = Step(q, d, d).t
  <2>1. 0 \in 0..n + 1 /\ ~ (0 > n) /\ Up(d, 0) = d /\ 0 + 1 = 1
    BY <1>1 DEF Up
  <2>2. R[0] = ReadingAt(R, t, d, 0)
    BY <1>3, <2>1
  <2>3. R[0] = Steps(R[1], d, d)
    BY <2>1, <2>2 DEF ReadingAt, n
  <2> QED BY <2>3 DEF Read, R, Steps
<1>10. Outcome(t, Step(q, d, d)) /\ ReadOrRefused(t, Step(q, d, d).t, d)
  BY <1>8, StepIsSound
<1> QED BY <1>9, <1>10 DEF Outcome
-----------------------------------------------------------------------------
(* Deleting a domain.                                                      *)

\* The dirs are the same, and their ids.
SameRoots(t, u) ==
  /\ DOMAIN u.domain_roots = DOMAIN t.domain_roots
  /\ \A x \in DOMAIN t.domain_roots : u.domain_roots[x].id = t.domain_roots[x].id

\* A child goes over to another parent, where its new domain_id is free.
LEMMA HandedOverIsSound ==
  ASSUME NEW t, SoundTables(t), NEW c \in DOMAIN t.domains, NEW parent \in Seq(Ids),
         Append(parent, t.domains[c].id) \notin DOMAIN t.domains
  PROVE  LET u == Handed_over(t, c, parent)
         IN  /\ SoundTables(u) /\ u.ok = t.ok /\ SameRoots(t, u)
             /\ DOMAIN u.domains
                  = (DOMAIN t.domains \ {c}) \cup {Append(parent, t.domains[c].id)}
             /\ \A id \in DOMAIN t.domains \ {c} : u.domains[id] = t.domains[id]
<1> DEFINE child == t.domains[c]
           new == Append(parent, child.id)
           config == [child EXCEPT !.parent = parent, !.domain_id = new]
           d == child.root
           D == Without(t.domains, c)
           w == [t EXCEPT !.domains = D]
           v == [t EXCEPT !.domains = D, !.domain_roots = Without(@, d)]
<1>1. /\ child \in Configs /\ child.domain_id = c /\ d \in DOMAIN t.domain_roots
      /\ t.domain_roots[d] = child
  BY DEF SoundTables, Sound, SameConfigs
<1>2. /\ config \in Configs /\ config.parent = parent /\ config.domain_id = new
      /\ config.id = child.id /\ config.root = d
  <2>1. /\ child.id \in Ids /\ child.domain_id \in Seq(Ids) /\ child.root \in Dirs
        /\ DOMAIN child = {"id", "parent", "domain_id", "root"}
    BY <1>1 DEF Configs
  <2>2. new \in Seq(Ids)
    BY <2>1
  <2> HIDE DEF child, new
  <2>3. config \in Configs
    BY <1>1, <2>2 DEF Configs
  <2>4. /\ config.parent = parent /\ config.domain_id = new
        /\ config.id = child.id /\ config.root = d
    BY <2>1
  <2> QED BY <2>3, <2>4
<1>3. /\ IsTables(w) /\ w.domains = D /\ w.children = t.children
      /\ w.domain_roots = t.domain_roots /\ w.ok = t.ok
      /\ IsTables(v) /\ v.domains = D /\ v.children = t.children
      /\ v.domain_roots = Without(t.domain_roots, d) /\ v.ok = t.ok
  BY DEF SoundTables, IsTables
<1>4. SoundTables(v)
  <2>1. Sound(Without(t.domains, t.domain_roots[d].domain_id), t.children,
              Without(t.domain_roots, d))
    BY <1>1, RemovingIsSound DEF SoundTables
  <2> QED BY <1>1, <1>3, <2>1 DEF SoundTables
<1>5. Handed_over(t, c, parent) = Put(w, config)
  BY DEF Handed_over
<1>6. new \notin DOMAIN D /\ d \notin DOMAIN Without(t.domain_roots, d)
  BY DEF Without
<1> HIDE DEF child, new, config, d, D, w, v
<1>7. SoundTables(Put(v, config))
  BY <1>2, <1>3, <1>4, <1>6, PutIsSound DEF new
<1>8. With(t.domain_roots, d, config) = With(Without(t.domain_roots, d), d, config)
  BY DEF With, Without
<1>9. SoundTables(Put(w, config))
  <2>1. LET u == Put(v, config)
        IN  /\ u.domains = With(D, new, config)
            /\ u.children = ListOf(t.children, parent, new)
            /\ u.domain_roots = With(t.domain_roots, d, config)
    <3>1. LET u == Put(v, config)
          IN  /\ u.domains = With(v.domains, config.domain_id, config)
              /\ u.children = ListOf(v.children, config.parent, config.domain_id)
              /\ u.domain_roots = With(v.domain_roots, config.root, config)
      BY <1>3, PutIsTables
    <3> QED BY <1>2, <1>3, <1>8, <3>1
  <2>2. LET u == Put(w, config)
        IN  /\ IsTables(u) /\ u.domains = With(D, new, config)
            /\ u.children = ListOf(t.children, parent, new)
            /\ u.domain_roots = With(t.domain_roots, d, config)
    BY <1>2, <1>3, PutIsTables
  <2> QED BY <1>7, <2>1, <2>2 DEF SoundTables
<1>10. /\ Put(w, config).ok = t.ok
       /\ Put(w, config).domains = With(D, new, config)
       /\ Put(w, config).domain_roots = With(t.domain_roots, d, config)
  BY <1>2, <1>3, PutIsTables
<1>11. SameRoots(t, Put(w, config))
  BY <1>1, <1>2, <1>10 DEF SameRoots, With
<1>12. /\ DOMAIN With(D, new, config) = (DOMAIN t.domains \ {c}) \cup {new}
       /\ \A id \in DOMAIN t.domains \ {c} : With(D, new, config)[id] = t.domains[id]
  BY <1>6 DEF With, D, Without, new, child
<1> QED BY <1>5, <1>9, <1>10, <1>11, <1>12 DEF new, child

Handings(outcomes, c, parent) == {Handed_over(u, c, parent) : u \in outcomes}

\* What Handing_over(t, kids, parent)[i] is defined as, g being that function.
HandingAt(g, t, kids, parent, i) ==
  IF i = 0 THEN {t} ELSE Handings(g[i - 1], kids[i], parent)

LEMMA HandingIsDefined ==
  ASSUME NEW t, NEW kids, NEW parent, Len(kids) \in Nat
  PROVE  \A i \in 0..Len(kids) :
           Handing_over(t, kids, parent)[i]
             = HandingAt(Handing_over(t, kids, parent), t, kids, parent, i)
<1> DEFINE n == Len(kids)
           At(g, i) == HandingAt(g, t, kids, parent, i)
           T == {k \in Nat : \E g : \A i \in 0..n : i <= k => g[i] = At(g, i)}
<1>1. n \in Nat
  OBVIOUS
<1>2. ASSUME NEW g, NEW h, NEW i \in 0..n, i > 0 => g[i - 1] = h[i - 1]
      PROVE  At(g, i) = At(h, i)
  <2>1. CASE i = 0
    BY <2>1 DEF HandingAt
  <2>2. CASE i # 0
    <3>1. g[i - 1] = h[i - 1]
      BY <1>2, <2>2
    <3> QED BY <2>2, <3>1, Zenon DEF HandingAt
  <2> QED BY <2>1, <2>2
<1> HIDE DEF n, At
<1>3. 0 \in T
  <2> DEFINE h == [i \in 0..n |-> At(0, i)]
  <2>1. ASSUME NEW i \in 0..n, i <= 0 PROVE h[i] = At(h, i)
    <3>1. At(0, i) = At(h, i)
      <4> HIDE DEF h
      <4> QED BY <1>2, <2>1
    <3> QED BY <3>1
  <2> HIDE DEF h
  <2> QED BY <2>1
<1>4. ASSUME NEW k \in T PROVE k + 1 \in T
  <2>1. PICK g : \A i \in 0..n : i <= k => g[i] = At(g, i)
    OBVIOUS
  <2> DEFINE h == [i \in 0..n |-> At(g, i)]
  <2>2. ASSUME NEW i \in 0..n, i <= k + 1 PROVE h[i] = At(h, i)
    <3>1. i > 0 => h[i - 1] = g[i - 1]
      <4> SUFFICES ASSUME i > 0 PROVE h[i - 1] = g[i - 1]
        OBVIOUS
      <4>1. i - 1 \in 0..n /\ i - 1 <= k
        BY <1>1, <2>2
      <4>2. g[i - 1] = At(g, i - 1)
        BY <2>1, <4>1
      <4> QED BY <4>1, <4>2
    <3>2. At(g, i) = At(h, i)
      <4> HIDE DEF h
      <4> QED BY <1>2, <3>1
    <3> QED BY <3>2
  <2>3. k + 1 \in Nat
    OBVIOUS
  <2> HIDE DEF h
  <2> QED BY <2>2, <2>3
<1>5. PICK g : \A i \in 0..n : g[i] = At(g, i)
  <2>1. T = Nat
    <3> HIDE DEF T
    <3>1. T \in SUBSET Nat
      BY DEF T
    <3> QED BY <1>3, <1>4, <3>1, SetInduction
  <2>2. n \in T
    BY <1>1, <2>1
  <2>3. PICK g : \A i \in 0..n : i <= n => g[i] = At(g, i)
    BY <2>2
  <2>4. \A i \in 0..n : i <= n
    BY <1>1
  <2> QED BY <2>3, <2>4
<1> DEFINE H == [i \in 0..n |-> g[i]]
<1>6. H = [i \in 0..n |-> At(H, i)]
  <2>1. ASSUME NEW i \in 0..n PROVE H[i] = At(H, i)
    <3>1. i > 0 => H[i - 1] = g[i - 1]
      BY <1>1
    <3>2. At(g, i) = At(H, i)
      <4> HIDE DEF H
      <4> QED BY <1>2, <3>1
    <3> QED BY <1>5, <3>2
  <2> QED BY <2>1
<1>7. Handing_over(t, kids, parent) = CHOOSE f : f = [i \in 0..n |-> At(f, i)]
  BY DEF Handing_over, HandingAt, Handings, n, At
<1>8. Handing_over(t, kids, parent) = [i \in 0..n |-> At(Handing_over(t, kids, parent), i)]
  <2> HIDE DEF H
  <2> QED BY <1>6, <1>7, Zenon
<1>9. ASSUME NEW i \in 0..n
      PROVE  Handing_over(t, kids, parent)[i] = At(Handing_over(t, kids, parent), i)
  BY <1>8, Zenon
<1> QED BY <1>9, Zenon DEF n, At

\* The children go over one by one, in whatever order: the new domain_id of each
\* is free when its turn comes.
LEMMA HandingOverIsSound ==
  ASSUME NEW t, SoundTables(t), NEW parent \in Seq(Ids), NEW kids, Len(kids) \in Nat,
         \A j \in 1..Len(kids) :
           /\ kids[j] \in DOMAIN t.domains
           /\ Append(parent, t.domains[kids[j]].id) \notin DOMAIN t.domains,
         \A i, j \in 1..Len(kids) :
           i # j => /\ kids[i] # kids[j]
                    /\ t.domains[kids[i]].id # t.domains[kids[j]].id,
         NEW u \in Handing_over(t, kids, parent)[Len(kids)]
  PROVE  SoundTables(u) /\ u.ok = t.ok /\ SameRoots(t, u)
<1> DEFINE n == Len(kids)
           H == Handing_over(t, kids, parent)
           new(j) == Append(parent, t.domains[kids[j]].id)
           Left(v, k) == \A j \in 1..n :
                           j > k => /\ kids[j] \in DOMAIN v.domains
                                    /\ v.domains[kids[j]] = t.domains[kids[j]]
                                    /\ new(j) \notin DOMAIN v.domains
           T == {k \in Nat : k <= n =>
                   \A v \in H[k] : /\ SoundTables(v) /\ v.ok = t.ok
                                   /\ SameRoots(t, v) /\ Left(v, k)}
<1>1. n \in Nat
  OBVIOUS
<1>2. \A i \in 0..n : H[i] = HandingAt(H, t, kids, parent, i)
  BY HandingIsDefined
<1>3. ASSUME NEW i \in 1..n, NEW j \in 1..n, i # j PROVE new(i) # new(j)
  <2>1. /\ t.domains[kids[i]].id # t.domains[kids[j]].id
        /\ t.domains[kids[i]].id \in Ids /\ t.domains[kids[j]].id \in Ids
    BY <1>3 DEF SoundTables, Sound, SameConfigs, Configs
  <2> QED BY <2>1, AppendIsOneToOne
<1> HIDE DEF n, H
<1>4. 0 \in T
  <2>1. H[0] = {t}
    BY <1>1, <1>2 DEF HandingAt
  <2>2. SameRoots(t, t)
    BY DEF SameRoots
  <2>3. Left(t, 0)
    BY DEF n
  <2> HIDE DEF Left
  <2> QED BY <2>1, <2>2, <2>3
<1>5. ASSUME NEW k \in T PROVE k + 1 \in T
  <2>1. k + 1 \in Nat
    OBVIOUS
  <2> SUFFICES ASSUME k + 1 <= n, NEW v \in H[k + 1]
               PROVE  SoundTables(v) /\ v.ok = t.ok /\ SameRoots(t, v) /\ Left(v, k + 1)
    BY <2>1
  <2> DEFINE c == kids[k + 1]
  <2>2. k \in Nat /\ k <= n /\ k + 1 \in 0..n /\ k + 1 \in 1..n /\ k + 1 # 0 /\ (k + 1) - 1 = k
        /\ k + 1 > k
    BY <1>1
  <2>3. \A w \in H[k] : /\ SoundTables(w) /\ w.ok = t.ok
                        /\ SameRoots(t, w) /\ Left(w, k)
    <3> HIDE DEF Left
    <3> QED BY <2>2
  <2>4. PICK w \in H[k] : v = Handed_over(w, c, parent)
    <3>1. H[k + 1] = HandingAt(H, t, kids, parent, k + 1)
      BY <1>2, <2>2
    <3> QED BY <2>2, <3>1 DEF HandingAt, Handings
  <2>5. /\ SoundTables(w) /\ w.ok = t.ok /\ SameRoots(t, w) /\ Left(w, k)
    <3> HIDE DEF Left
    <3> QED BY <2>3
  <2>6. /\ c \in DOMAIN w.domains /\ w.domains[c] = t.domains[c]
        /\ new(k + 1) \notin DOMAIN w.domains
    BY <2>2, <2>5
  <2>7. /\ SoundTables(v) /\ v.ok = w.ok /\ SameRoots(w, v)
        /\ DOMAIN v.domains = (DOMAIN w.domains \ {c}) \cup {new(k + 1)}
        /\ \A id \in DOMAIN w.domains \ {c} : v.domains[id] = w.domains[id]
    <3>1. Append(parent, w.domains[c].id) = new(k + 1)
      BY <2>6
    <3>2. SoundTables(w) /\ c \in DOMAIN w.domains
          /\ Append(parent, w.domains[c].id) \notin DOMAIN w.domains
      BY <2>5, <2>6, <3>1, Zenon
    <3> HIDE DEF new, c, Left
    <3>3. LET x == Handed_over(w, c, parent)
          IN  /\ SoundTables(x) /\ x.ok = w.ok /\ SameRoots(w, x)
              /\ DOMAIN x.domains
                   = (DOMAIN w.domains \ {c}) \cup {Append(parent, w.domains[c].id)}
              /\ \A id \in DOMAIN w.domains \ {c} : x.domains[id] = w.domains[id]
      BY <3>2, HandedOverIsSound
    <3> QED BY <2>4, <3>1, <3>3
  <2>8. Left(v, k + 1)
    <3> SUFFICES ASSUME NEW j \in 1..n, j > k + 1
                 PROVE  /\ kids[j] \in DOMAIN v.domains
                        /\ v.domains[kids[j]] = t.domains[kids[j]]
                        /\ new(j) \notin DOMAIN v.domains
      OBVIOUS
    <3>1. j > k /\ j # k + 1
      BY <1>1, <2>2
    <3>2. /\ kids[j] \in DOMAIN w.domains /\ w.domains[kids[j]] = t.domains[kids[j]]
          /\ new(j) \notin DOMAIN w.domains
      BY <2>5, <3>1
    <3>3. kids[j] # c
      BY <2>2, <3>1 DEF n
    <3>4. new(j) # new(k + 1)
      BY <1>3, <2>2, <3>1
    <3> HIDE DEF new, c
    <3> QED BY <2>7, <3>2, <3>3, <3>4
  <2>9. SameRoots(t, v)
    BY <2>5, <2>7 DEF SameRoots
  <2> HIDE DEF Left
  <2> QED BY <2>5, <2>7, <2>8, <2>9
<1>6. T = Nat
  <2> HIDE DEF T
  <2>1. T \in SUBSET Nat
    BY DEF T
  <2> QED BY <1>4, <1>5, <2>1, SetInduction
<1>7. n \in T /\ n <= n
  BY <1>1, <1>6
<1> HIDE DEF Left
<1> QED BY <1>7 DEF H, n

\* What a deletion may do to the dirs: only one goes.
Shrunk(t, u, d) ==
  /\ DOMAIN u.domain_roots \subseteq DOMAIN t.domain_roots
  /\ DOMAIN t.domain_roots \ {d} \subseteq DOMAIN u.domain_roots
  /\ \A x \in DOMAIN u.domain_roots : u.domain_roots[x].id = t.domain_roots[x].id
  /\ u.ok => d \notin DOMAIN u.domain_roots

\* Deleting a domain, with the children it may have or not.
LEMMA DeleteIsSound ==
  ASSUME NEW t, SoundTables(t), NEW d \in DOMAIN t.domain_roots,
         NEW u \in delete_domain(t, t.domain_roots[d])
  PROVE  SoundTables(u) /\ Shrunk(t, u, d)
<1> DEFINE config == t.domain_roots[d]
           id == config.domain_id
           parent == config.parent
           kids == Kids(t, id)
           gone == Untracked(t, config)
<1>1. CASE ~deletable(t, config)
  <2>1. u = Refused(t)
    BY <1>1 DEF delete_domain
  <2> QED BY <2>1, RefusedIsSound DEF Shrunk
<1>2. CASE deletable(t, config)
  <2>1. /\ config \in Configs /\ id \in Seq(Ids) /\ parent \in Seq(Ids)
        /\ id = Append(parent, config.id) /\ config.id \in Ids
    BY DEF SoundTables, Sound, SameConfigs, ListedIn, Configs
  <2>2. /\ SoundTables(gone) /\ gone.ok = t.ok
        /\ gone.domains = Without(t.domains, id)
        /\ gone.domain_roots = Without(t.domain_roots, d)
    BY UntrackedIsSound
  <2>3. ASSUME NEW v, SameRoots(gone, v) PROVE v.ok \in BOOLEAN => Shrunk(t, v, d)
    BY <2>2, <2>3 DEF SameRoots, Shrunk, Without
  <2>4. IsFiniteSet(kids) /\ \A c \in kids : \E x \in Ids : c = Append(id, x)
    BY FS_EmptySet DEF Kids, SoundTables, Sound, ListsExtend
  <2>5. ASSUME NEW c \in kids
        PROVE  /\ c \in DOMAIN t.domains /\ c \in DOMAIN gone.domains
               /\ gone.domains[c] = t.domains[c] /\ t.domains[c].id \in Ids
               /\ c = Append(id, t.domains[c].id)
               /\ Append(parent, t.domains[c].id) \notin DOMAIN gone.domains
    <3>1. c \in DOMAIN t.domains /\ Append(parent, t.domains[c].id) \notin DOMAIN t.domains
      BY <1>2 DEF deletable
    <3>2. /\ t.domains[c] \in Configs
          /\ c = Append(t.domains[c].parent, t.domains[c].id)
      BY <3>1 DEF SoundTables, Sound, SameConfigs, ListedIn
    <3>3. t.domains[c].id \in Ids /\ t.domains[c].parent \in Seq(Ids)
      BY <3>2 DEF Configs
    <3>4. PICK x \in Ids : c = Append(id, x)
      BY <2>4
    <3>5. t.domains[c].parent = id
      <4> DEFINE p == t.domains[c].parent
                 y == t.domains[c].id
      <4>1. p \in Seq(Ids) /\ y \in Ids /\ id \in Seq(Ids) /\ Append(p, y) = Append(id, x)
        BY <2>1, <3>2, <3>3, <3>4, Zenon
      <4> HIDE DEF p, y, id
      <4>2. p = id
        BY <4>1, AppendIsOneToOne
      <4> QED BY <4>2 DEF p
    <3>6. c # id
      <4>1. Len(c) = Len(id) + 1
        BY <2>1, <3>4
      <4> QED BY <2>1, <4>1
    <3> HIDE DEF id, parent, kids, gone
    <3> QED BY <2>2, <3>1, <3>2, <3>3, <3>5, <3>6 DEF Without
  <2>6. CASE parent = None /\ kids # {}
    <3>1. PICK c \in kids : u = Refused(Handed_over(gone, c, None))
      BY <1>2, <2>6 DEF delete_domain
    <3>2. SoundTables(Handed_over(gone, c, None)) /\ SameRoots(gone, Handed_over(gone, c, None))
      <4>1. /\ c \in DOMAIN gone.domains /\ None \in Seq(Ids)
            /\ Append(None, gone.domains[c].id) \notin DOMAIN gone.domains
        <5> HIDE DEF gone, id, parent, kids
        <5>1. /\ c \in DOMAIN gone.domains /\ gone.domains[c] = t.domains[c]
              /\ Append(parent, t.domains[c].id) \notin DOMAIN gone.domains
          BY <2>5
        <5> QED BY <2>1, <2>6, <5>1
      <4> HIDE DEF gone
      <4> QED BY <2>2, <4>1, HandedOverIsSound
    <3>3. SoundTables(u) /\ SameRoots(gone, u)
      BY <3>1, <3>2, RefusedIsSound DEF SameRoots
    <3> QED BY <2>3, <3>3 DEF SoundTables, IsTables
  <2>7. CASE ~ (parent = None /\ kids # {})
    <3>1. PICK order \in SetToSeqs(kids) : u \in Handing_over(gone, order, parent)[Len(order)]
      BY <1>2, <2>7 DEF delete_domain
    <3> DEFINE n == Cardinality(kids)
    <3>2. n \in Nat
      BY <2>4, FS_CardinalityType
    <3>3. /\ order \in [1..n -> kids] /\ Len(order) = n
          /\ \A i, j \in 1..n : i # j => order[i] # order[j]
      <4>1. order \in [1..n -> kids] /\ \A i, j \in 1..n : i # j => order[i] # order[j]
        BY DEF SetToSeqs
      <4> HIDE DEF n, kids
      <4>2. order \in Seq(kids) /\ Len(order) = n
        BY <3>2, <4>1
      <4> QED BY <4>1, <4>2
    <3> HIDE DEF n, gone, parent, id, kids
    <3>4. \A j \in 1..n : /\ order[j] \in DOMAIN gone.domains
                          /\ Append(parent, gone.domains[order[j]].id) \notin DOMAIN gone.domains
      BY <2>5, <3>3
    <3>5. ASSUME NEW i \in 1..n, NEW j \in 1..n, i # j
          PROVE  /\ order[i] # order[j]
                 /\ gone.domains[order[i]].id # gone.domains[order[j]].id
      <4>1. order[i] \in kids /\ order[j] \in kids /\ order[i] # order[j]
        BY <3>3, <3>5
      <4>2. /\ gone.domains[order[i]] = t.domains[order[i]]
            /\ order[i] = Append(id, t.domains[order[i]].id)
            /\ gone.domains[order[j]] = t.domains[order[j]]
            /\ order[j] = Append(id, t.domains[order[j]].id)
        BY <2>5, <4>1, Zenon
      <4> QED BY <4>1, <4>2, Zenon
    <3>6. SoundTables(u) /\ u.ok = gone.ok /\ SameRoots(gone, u)
      BY <2>1, <2>2, <3>1, <3>2, <3>3, <3>4, <3>5, HandingOverIsSound
    <3> QED BY <2>3, <3>6 DEF SoundTables, IsTables
  <2> QED BY <2>6, <2>7
<1> QED BY <1>1, <1>2
-----------------------------------------------------------------------------
(* The inductive invariant, and the steps.                                 *)

Inv ==
  /\ fs \in [Dirs -> Contents]
  /\ changes \in 0..MaxChanges
  /\ behind \subseteq DOMAIN domain_roots
  /\ Sound(domains, children, domain_roots)
  /\ FollowsFiles

LEMMA TablesAreSound ==
  ASSUME Inv
  PROVE  SoundTables(Tables) /\ Tables.ok /\ Tables.domain_roots = domain_roots
BY DEF Inv, Tables, SoundTables, IsTables

LEMMA InitSound == Init => Inv
<1> SUFFICES ASSUME Init PROVE Inv
  OBVIOUS
<1>1. DOMAIN domains = {} /\ DOMAIN children = {} /\ DOMAIN domain_roots = {}
  BY DEF Init
<1>2. Sound(domains, children, domain_roots)
  BY <1>1 DEF Sound, SameConfigs, ListedIn, ListsExtend
<1>3. FollowsFiles
  BY <1>1 DEF FollowsFiles
<1> QED BY <1>1, <1>2, <1>3, BoundIsANumber DEF Inv, Init, Contents

\* What a function called for d leaves follows the files, if every dir is what
\* it was or what its file says, and d is one or the other as the function
\* succeeds or not.
LEMMA LeavingFollows ==
  ASSUME Inv, fs' \in [Dirs -> Contents], changes' \in 0..MaxChanges,
         NEW d \in Dirs, \A x \in Dirs \ {d} : fs'[x] = fs[x],
         NEW t, SoundTables(t), Leave(t, d),
         \A x \in DOMAIN t.domain_roots :
           \/ t.domain_roots[x].id = fs'[x]
           \/ x \in DOMAIN domain_roots /\ t.domain_roots[x].id = domain_roots[x].id,
         d \in DOMAIN t.domain_roots =>
           IF t.ok THEN t.domain_roots[d].id = fs'[d] ELSE d \in DOMAIN domain_roots
  PROVE  Inv'
<1>1. /\ domains' = t.domains /\ children' = t.children /\ domain_roots' = t.domain_roots
      /\ behind' = (IF t.ok THEN behind \ {d} ELSE behind \cup {d})
                     \cap DOMAIN domain_roots \cap DOMAIN t.domain_roots
  BY DEF Leave
<1>2. Sound(domains', children', domain_roots')
  BY <1>1 DEF SoundTables
<1>3. behind' \subseteq DOMAIN domain_roots'
  BY <1>1
<1>4. ASSUME NEW x \in DOMAIN domain_roots' \ behind' PROVE fs'[x] = domain_roots'[x].id
  <2>1. CASE x = d
    BY <2>1, <1>1
  <2>2. CASE x # d
    <3>1. x \notin behind
      BY <2>2, <1>1 DEF Inv
    <3>2. x \in Dirs
      BY <1>2 DEF Sound, SameConfigs
    <3>3. x \in DOMAIN domain_roots => fs[x] = domain_roots[x].id
      BY <3>1 DEF Inv, FollowsFiles
    <3> QED BY <1>1, <2>2, <3>2, <3>3
  <2> QED BY <2>1, <2>2
<1> QED BY <1>2, <1>3, <1>4 DEF Inv, FollowsFiles

LEMMA ChangeIsTyped ==
  ASSUME Inv, NEW d \in Dirs, NEW content \in Contents, Change(d, content)
  PROVE  /\ fs' \in [Dirs -> Contents] /\ changes' \in 0..MaxChanges
         /\ fs'[d] = content /\ \A x \in Dirs \ {d} : fs'[x] = fs[x]
BY BoundIsANumber DEF Inv, Change

\* Whoever owns a path is tracked, or has a file to be read.
LEMMA NearestOwns ==
  ASSUME NEW t, NEW d \in Dirs, Owners(t, d) # {}
  PROVE  /\ Nearest(t, d) \in Dirs
         /\ Nearest(t, d) \in DOMAIN t.domain_roots \/ fs'[Nearest(t, d)] # NoFile
         /\ d \in DOMAIN t.domain_roots => Nearest(t, d) = d
<1>1. Len(Above[d]) \in Nat /\ Above[d] \in Seq(Dirs \ {d})
  BY DirsAreATree
<1>2. Owners(t, d) \in SUBSET Nat
  BY <1>1 DEF Owners
<1>3. Min(Owners(t, d)) \in Owners(t, d) /\ \A i \in Owners(t, d) : Min(Owners(t, d)) <= i
  BY <1>2, MinIsLeast
<1>4. Nearest(t, d) \in DOMAIN t.domain_roots \/ fs'[Nearest(t, d)] # NoFile
  BY <1>3 DEF Nearest, Owners
<1>5. \A i \in 0..Len(Above[d]) : Up(d, i) \in Dirs
  BY <1>1, ElementOfSeq DEF Up
<1>6. Nearest(t, d) \in Dirs
  <2>1. Min(Owners(t, d)) \in 0..Len(Above[d])
    BY <1>3 DEF Owners
  <2> QED BY <1>5, <2>1 DEF Nearest
<1>7. d \in DOMAIN t.domain_roots => Nearest(t, d) = d
  <2> SUFFICES ASSUME d \in DOMAIN t.domain_roots PROVE Nearest(t, d) = d
    OBVIOUS
  <2>1. 0 \in Owners(t, d)
    BY <1>1 DEF Owners, Up
  <2>2. Min(Owners(t, d)) = 0
    <3>1. Min(Owners(t, d)) \in Nat /\ Min(Owners(t, d)) <= 0
      BY <1>2, <1>3, <2>1
    <3> QED BY <3>1
  <2> QED BY <2>2 DEF Nearest, Up
<1> QED BY <1>4, <1>6, <1>7

\* A file that is written: every dir that was tracked still is.
LEMMA WriteStep ==
  ASSUME Inv, NEW d \in Dirs, NEW content \in Ids \cup {Broken}, write(d, content)
  PROVE  Inv' /\ DOMAIN domain_roots \subseteq DOMAIN domain_roots'
<1>1. PICK t \in Read(Tables, d) : Leave(t, d)
  BY DEF write
<1>2. /\ fs' \in [Dirs -> Contents] /\ changes' \in 0..MaxChanges
      /\ fs'[d] = content /\ \A x \in Dirs \ {d} : fs'[x] = fs[x]
  BY ChangeIsTyped DEF write, Contents
<1>3. fs'[d] # NoFile
  BY <1>2, NoIdIsNoFile
<1>4. SoundTables(t) /\ Grown(Tables, t) /\ ReadOrRefused(Tables, t, d)
  BY <1>1, <1>2, <1>3, ReadIsSound, TablesAreSound
<1>5. Inv'
  <2>1. Tables.domain_roots = domain_roots
    BY TablesAreSound
  <2>2. \A x \in DOMAIN t.domain_roots :
          \/ t.domain_roots[x].id = fs'[x]
          \/ x \in DOMAIN domain_roots /\ t.domain_roots[x].id = domain_roots[x].id
    BY <1>4, <2>1 DEF Grown
  <2>3. d \in DOMAIN t.domain_roots =>
          IF t.ok THEN t.domain_roots[d].id = fs'[d] ELSE d \in DOMAIN domain_roots
    BY <1>4, <2>1 DEF ReadOrRefused, AsBefore
  <2> QED BY <1>1, <1>2, <1>4, <2>2, <2>3, LeavingFollows
<1>6. DOMAIN domain_roots \subseteq DOMAIN domain_roots'
  BY <1>1, <1>4, TablesAreSound DEF Grown, Leave
<1> QED BY <1>5, <1>6

\* A question: likewise.
LEMMA QueryStep ==
  ASSUME Inv, NEW d \in Dirs, query(d)
  PROVE  Inv' /\ DOMAIN domain_roots \subseteq DOMAIN domain_roots'
<1>1. fs' = fs /\ changes' = changes
  BY DEF query
<1>2. CASE Owners(Tables, d) = {} \/ Nearest(Tables, d) \in DOMAIN domain_roots
  <2>1. UNCHANGED <<domains, children, domain_roots, behind>>
    BY <1>2 DEF query
  <2> QED BY <1>1, <2>1 DEF Inv, FollowsFiles, Sound, SameConfigs, ListedIn, ListsExtend
<1>3. CASE ~ (Owners(Tables, d) = {} \/ Nearest(Tables, d) \in DOMAIN domain_roots)
  <2> DEFINE near == Nearest(Tables, d)
  <2>1. PICK t \in query_domain_id(Tables, d) : Leave(t, near)
    BY <1>3 DEF query
  <2>2. near \in Dirs /\ near \notin DOMAIN Tables.domain_roots /\ fs'[near] # NoFile
    BY <1>3, NearestOwns, TablesAreSound
  <2>3. t \in Read(Tables, near)
    BY <2>1, <2>2 DEF query_domain_id
  <2> HIDE DEF near
  <2>4. fs' \in [Dirs -> Contents] /\ changes' \in 0..MaxChanges
    BY <1>1 DEF Inv
  <2>5. SoundTables(t) /\ Grown(Tables, t) /\ ReadOrRefused(Tables, t, near)
    BY <2>2, <2>3, <2>4, ReadIsSound, TablesAreSound
  <2>6. Tables.domain_roots = domain_roots
    BY TablesAreSound
  <2>7. \A x \in DOMAIN t.domain_roots :
          \/ t.domain_roots[x].id = fs'[x]
          \/ x \in DOMAIN domain_roots /\ t.domain_roots[x].id = domain_roots[x].id
    BY <2>5, <2>6 DEF Grown
  <2>8. near \in DOMAIN t.domain_roots =>
          IF t.ok THEN t.domain_roots[near].id = fs'[near] ELSE near \in DOMAIN domain_roots
    BY <2>5, <2>6 DEF ReadOrRefused, AsBefore
  <2>9. Inv'
    BY <1>1, <2>1, <2>2, <2>4, <2>5, <2>7, <2>8, LeavingFollows
  <2>10. DOMAIN domain_roots \subseteq DOMAIN domain_roots'
    BY <2>1, <2>5, <2>6 DEF Grown, Leave
  <2> QED BY <2>9, <2>10
<1> QED BY <1>2, <1>3

\* A file that is removed: one dir may be dropped, the one its path belongs to.
LEMMA RemoveStep ==
  ASSUME Inv, NEW d \in Dirs, remove(d)
  PROVE  Inv' /\ DOMAIN domain_roots \ {Nearest(Tables, d)} \subseteq DOMAIN domain_roots'
<1>1. /\ fs' \in [Dirs -> Contents] /\ changes' \in 0..MaxChanges
      /\ fs'[d] = NoFile /\ \A x \in Dirs \ {d} : fs'[x] = fs[x]
  BY ChangeIsTyped DEF remove, Contents
<1>0. SoundTables(Tables) /\ Tables.ok /\ Tables.domain_roots = domain_roots
  BY TablesAreSound
<1>2. CASE Owners(Tables, d) = {}
  <2>1. UNCHANGED <<domains, children, domain_roots, behind>>
    BY <1>2 DEF remove
  <2>2. d \notin DOMAIN domain_roots
    <3>1. 0 \in 0..Len(Above[d])
      BY DirsAreATree
    <3> QED BY <1>0, <1>2, <3>1 DEF Owners, Up
  <2>3. \A x \in DOMAIN domain_roots : x \in Dirs
    BY DEF Inv, Sound, SameConfigs
  <2>4. FollowsFiles'
    BY <1>1, <2>1, <2>2, <2>3 DEF Inv, FollowsFiles
  <2> QED BY <1>1, <2>1, <2>4 DEF Inv, Sound, SameConfigs, ListedIn, ListsExtend
<1>3. CASE Owners(Tables, d) # {}
  <2> DEFINE near == Nearest(Tables, d)
  <2>1. PICK found \in query_domain_id(Tables, d) :
          \E t \in IF found.ok THEN delete_domain(found, found.domain_roots[near])
                               ELSE {found} : Leave(t, d)
    BY <1>3 DEF remove
  <2>2. PICK t \in IF found.ok THEN delete_domain(found, found.domain_roots[near])
                               ELSE {found} : Leave(t, d)
    BY <2>1
  <2>3. /\ near \in Dirs
        /\ near \in DOMAIN domain_roots \/ fs'[near] # NoFile
        /\ d \in DOMAIN domain_roots => near = d
    BY <1>0, <1>3, NearestOwns
  <2>4. /\ SoundTables(found) /\ Grown(Tables, found)
        /\ found.ok => near \in DOMAIN found.domain_roots
        /\ near \in DOMAIN domain_roots => found.ok
    <3>1. CASE near \in DOMAIN domain_roots
      <4>1. found = Tables
        BY <1>0, <3>1 DEF query_domain_id
      <4> QED BY <1>0, <3>1, <4>1 DEF Grown
    <3>2. CASE near \notin DOMAIN domain_roots
      <4>1. found \in Read(Tables, near) /\ near \in Dirs /\ fs'[near] # NoFile
        <5>1. query_domain_id(Tables, d)
                = IF near \in DOMAIN Tables.domain_roots THEN {Tables} ELSE Read(Tables, near)
          BY DEF query_domain_id
        <5> HIDE DEF near
        <5>2. query_domain_id(Tables, d) = Read(Tables, near)
          BY <1>0, <3>2, <5>1
        <5> QED BY <2>3, <3>2, <5>2
      <4> HIDE DEF near
      <4>2. SoundTables(found) /\ Grown(Tables, found) /\ ReadOrRefused(Tables, found, near)
        BY <1>0, <1>1, <4>1, ReadIsSound
      <4> QED BY <3>2, <4>2 DEF ReadOrRefused
    <3> QED BY <3>1, <3>2
  <2> HIDE DEF near
  <2>5. /\ SoundTables(t) /\ DOMAIN t.domain_roots \subseteq DOMAIN found.domain_roots
        /\ DOMAIN found.domain_roots \ {near} \subseteq DOMAIN t.domain_roots
        /\ \A x \in DOMAIN t.domain_roots :
             t.domain_roots[x].id = found.domain_roots[x].id
        /\ found.ok /\ t.ok => near \notin DOMAIN t.domain_roots
        /\ ~found.ok => ~t.ok
    <3>1. CASE found.ok
      BY <2>2, <2>4, <3>1, DeleteIsSound DEF Shrunk
    <3>2. CASE ~found.ok
      BY <2>2, <2>4, <3>2
    <3> QED BY <3>1, <3>2
  <2>6. \A x \in DOMAIN t.domain_roots :
          \/ t.domain_roots[x].id = fs'[x]
          \/ x \in DOMAIN domain_roots /\ t.domain_roots[x].id = domain_roots[x].id
    BY <1>0, <2>4, <2>5 DEF Grown
  <2>7. ASSUME d \in DOMAIN t.domain_roots PROVE ~t.ok /\ d \in DOMAIN domain_roots
    <3>1. t.domain_roots[d].id \in Ids
      BY <2>5, <2>7 DEF SoundTables, Sound, SameConfigs, Configs
    <3>2. d \in DOMAIN domain_roots
      BY <1>1, <2>6, <2>7, <3>1, NoIdIsNoFile
    <3> QED BY <2>3, <2>4, <2>5, <2>7, <3>2
  <2>8. Inv'
    BY <1>1, <2>2, <2>5, <2>6, <2>7, LeavingFollows
  <2>9. DOMAIN domain_roots \ {near} \subseteq DOMAIN domain_roots'
    BY <1>0, <2>2, <2>4, <2>5 DEF Leave, Grown
  <2> QED BY <2>8, <2>9 DEF near
<1> QED BY <1>2, <1>3
-----------------------------------------------------------------------------
(* The theorems.                                                           *)

LEMMA StepSound == Inv /\ [Next]_vars => Inv'
<1> SUFFICES ASSUME Inv, [Next]_vars PROVE Inv'
  OBVIOUS
<1>1. CASE Next
  BY <1>1, WriteStep, RemoveStep, QueryStep DEF Next
<1>2. CASE UNCHANGED vars
  BY <1>2 DEF vars, Inv, FollowsFiles, Sound, SameConfigs, ListedIn, ListsExtend
<1> QED BY <1>1, <1>2

LEMMA Invariance == Spec => []Inv
BY InitSound, StepSound, PTL DEF Spec

\* The type invariant.
THEOREM TypeCorrect == Spec => []TypeOK
<1>1. ASSUME Inv PROVE TypeOK
  <2>1. ASSUME NEW d \in DOMAIN domain_roots
        PROVE  d \in Dirs /\ domain_roots[d].root = d /\ domain_roots[d].id \in Ids
    BY <1>1 DEF Inv, Sound, SameConfigs, Configs
  <2>2. ASSUME NEW id \in DOMAIN domains PROVE Last(id) \in Ids
    <3>1. /\ domains[id] \in Configs /\ id = Append(domains[id].parent, domains[id].id)
      BY <1>1 DEF Inv, Sound, SameConfigs, ListedIn
    <3> DEFINE p == domains[id].parent
               x == domains[id].id
    <3>2. p \in Seq(Ids) /\ x \in Ids /\ id = Append(p, x)
      BY <3>1 DEF Configs
    <3> HIDE DEF p, x
    <3> QED BY <3>2 DEF Last
  <2>3. ASSUME NEW p \in DOMAIN children, NEW c \in children[p] PROVE c \in Seq(Ids)
    <3>1. p \in Seq(Ids) /\ \E x \in Ids : c = Append(p, x)
      BY <1>1 DEF Inv, Sound, ListsExtend
    <3> QED BY <3>1
  <2> QED BY <1>1, <2>1, <2>2, <2>3 DEF Inv, TypeOK, Contents
<1> QED BY <1>1, Invariance, PTL

\* The table of domains and the table of roots hold the same configs, whatever
\* is written, read, removed and refused in whatever order.
THEOREM TablesDoAgree == Spec => []TablesAgree
<1>1. ASSUME Inv PROVE TablesAgree
  BY <1>1 DEF Inv, Sound, SameConfigs, TablesAgree
<1> QED BY <1>1, Invariance, PTL

\* Every domain is in the list of the id its config has for a parent, under the
\* domain_id it goes by now, and in no other, whether or not a domain goes by
\* the parent's id any more.
THEOREM ListedWithItsParent == Spec => []ListedWithParent
<1>1. ASSUME Inv PROVE ListedWithParent
  <2> SUFFICES ASSUME NEW id \in DOMAIN domains
               PROVE  LET config == domains[id]
                      IN  /\ id = Append(config.parent, config.id)
                          /\ config.parent # None => /\ config.parent \in DOMAIN children
                                                     /\ id \in children[config.parent]
                          /\ \A other \in DOMAIN children \ {config.parent} :
                               id \notin children[other]
    BY DEF ListedWithParent
  <2> DEFINE p == domains[id].parent
             x == domains[id].id
  <2>1. id = Append(p, x) /\ (p # None => p \in DOMAIN children /\ id \in children[p])
    BY <1>1 DEF Inv, Sound, ListedIn
  <2>2. p \in Seq(Ids) /\ x \in Ids
    BY <1>1 DEF Inv, Sound, SameConfigs, Configs
  <2>3. ASSUME NEW other \in DOMAIN children, id \in children[other] PROVE other = p
    <3> HIDE DEF p, x
    <3>1. other \in Seq(Ids) /\ \E y \in Ids : id = Append(other, y)
      BY <1>1, <2>3 DEF Inv, Sound, ListsExtend
    <3> QED BY <2>1, <2>2, <3>1, AppendIsOneToOne
  <2> QED BY <2>1, <2>3
<1> QED BY <1>1, Invariance, PTL

\* A domain that is tracked is what its file says, unless the last change of
\* that very file was refused.
THEOREM TablesFollowFiles == Spec => []FollowsFiles
<1>1. ASSUME Inv PROVE FollowsFiles
  BY <1>1 DEF Inv
<1> QED BY <1>1, Invariance, PTL

\* The removal of a file drops one directory at most, the one its path belongs
\* to, and nothing else drops any.
THEOREM OthersAreKept == Spec => OthersStayTracked
<1>1. ASSUME Inv, [Next]_vars
      PROVE  [\A d \in Dropped : \E r \in Dirs :
                /\ fs[r] # NoFile /\ fs'[r] = NoFile
                /\ d = Nearest(Tables, r)]_vars
  <2>1. CASE UNCHANGED vars
    BY <2>1
  <2>2. CASE Next
    <3> SUFFICES ASSUME NEW d \in Dropped
                 PROVE  \E r \in Dirs : /\ fs[r] # NoFile /\ fs'[r] = NoFile
                                        /\ d = Nearest(Tables, r)
      OBVIOUS
    <3>1. ~ (DOMAIN domain_roots \subseteq DOMAIN domain_roots')
      BY DEF Dropped
    <3>2. PICK r \in Dirs : remove(r)
      BY <1>1, <2>2, <3>1, WriteStep, QueryStep DEF Next
    <3>3. d = Nearest(Tables, r)
      BY <1>1, <3>2, RemoveStep DEF Dropped
    <3>4. fs[r] # NoFile /\ fs'[r] = NoFile
      BY <1>1, <3>2 DEF remove, Change, Inv
    <3> QED BY <3>3, <3>4
  <2> QED BY <1>1, <2>1, <2>2
<1> QED BY <1>1, Invariance, PTL DEF Spec, OthersStayTracked
=============================================================================
