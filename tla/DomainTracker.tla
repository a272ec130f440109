---------------------------- MODULE DomainTracker ----------------------------
(***************************************************************************)
(* DomainTracker (.obj/tracker/domain.c): the domains that the domain.xml  *)
(* files in the directories of the mudlib declare, kept in three tables.   *)
(* A file is read when FileTracker reports that it was written or removed, *)
(* and when somebody asks for the domain of a path in or below its         *)
(* directory.  The files that exist when the mud starts are not read then. *)
(*                                                                         *)
(* A domain_id, "a.b.c" in the code, is the sequence of the ids it is made *)
(* of, and None stands for the 0 of a domain without a parent.  A          *)
(* DomainConfig is one struct in two tables: what is assigned to a member  *)
(* shows in both.  The access rules compiled from a file are not modelled: *)
(* nothing in the code asks for them.                                      *)
(***************************************************************************)
EXTENDS Integers, Sequences, SequencesExt, FiniteSetsExt

CONSTANTS Dirs,    \* directories that may have a domain.xml
          Top,     \* "", the root of the mudlib
          Above,   \* dir -> the dirs above it, the nearest first
          Ids,     \* what the files give as the id of their domain
          Broken,  \* what is no valid domain.xml gives
          NoFile,
          MaxChanges  \* bound on the changes of files

ASSUME DirsAreATree ==
  \A d \in Dirs : /\ Above[d] \in Seq(Dirs \ {d})
                  /\ d = Top => Above[d] = <<>>

ASSUME BoundIsANumber == MaxChanges \in Nat

ASSUME NoIdIsNoFile == {Broken, NoFile} \cap Ids = {} /\ Broken # NoFile

VARIABLES fs,            \* driver: dir -> the id in its domain.xml
          domains,       \* domain_id -> config
          children,      \* domain_id -> the domain_ids of its children
          domain_roots,  \* dir -> config
          behind,        \* for the properties: the dirs that are tracked and
                         \* whose last change was refused, or ended in an error
          changes        \* how many files were changed

vars == <<fs, domains, children, domain_roots, behind, changes>>
-----------------------------------------------------------------------------
(* The functions of the tracker are operators on its tables as a record,   *)
(* of which `ok` tells whether they succeeded.                             *)

None == <<>>

With(f, x, v) == [y \in DOMAIN f \cup {x} |-> IF y = x THEN v ELSE f[y]]

Without(f, x) == [y \in DOMAIN f \ {x} |-> f[y]]

Tables == [domains |-> domains, children |-> children,
           domain_roots |-> domain_roots, ok |-> TRUE]

Refused(t) == [t EXCEPT !.ok = FALSE]

Kids(t, id) == IF id \in DOMAIN t.children THEN t.children[id] ELSE {}

\* children[parent] += ([ id ]), which a domain without a parent goes without.
Listed(t, parent, id) ==
  IF parent = None THEN t
  ELSE [t EXCEPT !.children = With(@, parent, Kids(t, parent) \cup {id})]

\* Fault: an unlisted domain takes its siblings with it.
Unlisted_with_siblings(t, parent, id) ==
  IF parent = None THEN t ELSE [t EXCEPT !.children = With(@, parent, {})]

\* m_delete(children[parent], id)
Unlisted(t, parent, id) ==
  IF parent = None THEN t
  ELSE [t EXCEPT !.children = With(@, parent, @[parent] \ {id})]

Tracked(t, config) ==
  [t EXCEPT !.domains = With(@, config.domain_id, config),
            !.domain_roots = With(@, config.root, config)]

\* Fault: what is no longer at its root stays among the domains.
Untracked_at_root(t, config) ==
  [Unlisted(t, config.parent, config.domain_id)
     EXCEPT !.domain_roots = Without(@, config.root)]

Untracked(t, config) ==
  [Unlisted(t, config.parent, config.domain_id)
     EXCEPT !.domains = Without(@, config.domain_id),
            !.domain_roots = Without(@, config.root)]

\* "make sure incoming domain doesn't cause a id collision"
collides(t, config) ==
  /\ config.domain_id \in DOMAIN t.domains
  /\ t.domains[config.domain_id].root # config.root

Put(t, config) ==
  Tracked(Listed(t, config.parent, config.domain_id), config)

\* The domain at a root makes room for another.
Freed(t, root) ==
  IF root \in DOMAIN t.domain_roots THEN Untracked(t, t.domain_roots[root])
                                     ELSE t

\* Fault: a domain that is tracked is not looked at again.
update_domain_once(t, config) ==
  IF collides(t, config) THEN Refused(t)
  ELSE IF config.root \in DOMAIN t.domain_roots THEN t ELSE Put(t, config)

\* Fault: in a collision the later domain wins.
update_domain_later_wins(t, config) ==
  IF collides(t, config)
    THEN Put(Freed(Untracked(t, t.domains[config.domain_id]), config.root),
             config)
    ELSE Put(Freed(t, config.root), config)

update_domain(t, config) ==
  IF collides(t, config) THEN Refused(t) ELSE Put(Freed(t, config.root), config)
-----------------------------------------------------------------------------
(* Reading a domain.xml.                                                   *)

\* get_parent_domain_file() goes up to the nearest file, but never to Top.
may_be_parent(a) == a # Top /\ fs'[a] # NoFile

NewConfig(d, parent) ==
  [id |-> fs'[d], parent |-> parent, domain_id |-> Append(parent, fs'[d]),
   root |-> d]

\* The root tag is <domain>, and it has an id.
parses(d) == fs'[d] # Broken

\* Fault: a file above gives the parent, but its domain is not tracked.
Step_untracked(r, a, d) ==
  LET config == NewConfig(a, r.parent)
  IN  CASE ~r.t.ok \/ (a # d /\ ~may_be_parent(a)) -> r
        [] r.t.ok /\ (a = d \/ may_be_parent(a)) /\ ~parses(a) ->
             [r EXCEPT !.t = Refused(@)]
        [] OTHER ->
             [t |-> IF a = d THEN update_domain(r.t, config) ELSE r.t,
              parent |-> config.domain_id]

\* parse_config() of a's file, on the way to d's, and update_domain() with what
\* it gives: the domain becomes the parent of the next one whether that was
\* refused or not.
Step(r, a, d) ==
  LET config == NewConfig(a, r.parent)
      updated == update_domain(r.t, config)
  IN  CASE ~r.t.ok \/ (a # d /\ ~may_be_parent(a)) -> r
        [] r.t.ok /\ (a = d \/ may_be_parent(a)) /\ ~parses(a) ->
             [r EXCEPT !.t = Refused(@)]
        [] OTHER ->
             [t |-> IF a = d THEN updated ELSE [updated EXCEPT !.ok = TRUE],
              parent |-> config.domain_id]

Up(d, i) == IF i = 0 THEN d ELSE Above[d][i]

\* What parse_config() for d and update_domain() leave from the i-th dir above d
\* on, which is one outcome: a domain above that is tracked is the parent, any
\* other file above is read first.
Reading(t, d) ==
  LET after[i \in 0..Len(Above[d]) + 1] ==
        IF i > Len(Above[d]) THEN {[t |-> t, parent |-> None]}
        ELSE IF i > 0 /\ may_be_parent(Up(d, i)) /\ Up(d, i) \in DOMAIN t.domain_roots
          THEN {[t |-> t, parent |-> t.domain_roots[Up(d, i)].domain_id]}
          ELSE {Step(r, Up(d, i), d) : r \in after[i + 1]}
  IN  after

Read(t, d) == {r.t : r \in Reading(t, d)[0]}

\* query_domain_id() of a path in d: the nearest dir that is tracked or has a
\* file, which is read then.
Owners(t, d) ==
  {i \in 0..Len(Above[d]) : \/ Up(d, i) \in DOMAIN t.domain_roots
                            \/ fs'[Up(d, i)] # NoFile}

Nearest(t, d) == Up(d, Min(Owners(t, d)))

query_domain_id(t, d) ==
  LET near == Nearest(t, d)
  IN  IF near \in DOMAIN t.domain_roots THEN {t} ELSE Read(t, near)
-----------------------------------------------------------------------------
(* Deleting a domain.                                                      *)

\* "make sure deleting subdomain won't cause sibling domain collision".  A
\* child that is listed and is none is a runtime error.
deletable(t, config) ==
  \A child_id \in Kids(t, config.domain_id) :
    /\ child_id \in DOMAIN t.domains
    /\ Append(config.parent, t.domains[child_id].id) \notin DOMAIN t.domains

\* A child of a deleted domain goes over to the domain above that one.
Handed_over(t, child_id, parent) ==
  LET child == t.domains[child_id]
  IN  Put([t EXCEPT !.domains = Without(@, child_id)],
          [child EXCEPT !.parent = parent,
                        !.domain_id = Append(parent, child.id)])

\* All children, one after the other, in the order of the mapping.
Handing_over(t, kids, parent) ==
  LET after[i \in 0..Len(kids)] ==
        IF i = 0 THEN {t} ELSE {Handed_over(u, kids[i], parent) : u \in after[i - 1]}
  IN  after

\* delete_domain(), the possible outcomes.  Where there is no domain above, the
\* first child, whichever it is, is the last: children[0] has no mapping to
\* add it to, a runtime error.
delete_domain(t, config) ==
  LET kids == Kids(t, config.domain_id)
      gone == Untracked(t, config)
  IN  IF ~deletable(t, config) THEN {Refused(t)}
      ELSE IF config.parent = None /\ kids # {}
        THEN {Refused(Handed_over(gone, child_id, None)) : child_id \in kids}
        ELSE UNION {Handing_over(gone, order, config.parent)[Len(order)] :
                      order \in SetToSeqs(kids)}
-----------------------------------------------------------------------------
Init ==
  /\ fs \in [Dirs -> Ids \cup {Broken, NoFile}]
  /\ domains = [id \in {} |-> 0]
  /\ children = [id \in {} |-> {}]
  /\ domain_roots = [d \in {} |-> 0]
  /\ behind = {}
  /\ changes = 0

\* What a function called for d leaves.
Leave(t, d) ==
  /\ domains' = t.domains
  /\ children' = t.children
  /\ domain_roots' = t.domain_roots
  /\ behind' = (IF t.ok THEN behind \ {d} ELSE behind \cup {d})
                \cap DOMAIN domain_roots \cap DOMAIN t.domain_roots

\* FileTracker's write_signal() finds the file changed.  What is written may be
\* what was there.
Change(d, content) ==
  /\ changes < MaxChanges
  /\ fs' = [fs EXCEPT ![d] = content]
  /\ changes' = changes + 1

\* A domain.xml is written, and reconfig_signal() called for it.
write(d, content) ==
  /\ Change(d, content)
  /\ \E t \in Read(Tables, d) : Leave(t, d)

\* A domain.xml is removed, and reconfig_signal() called for it: the domain
\* that its path belongs to is deleted.
remove(d) ==
  /\ fs[d] # NoFile
  /\ Change(d, NoFile)
  /\ IF Owners(Tables, d) = {}
       THEN UNCHANGED <<domains, children, domain_roots, behind>>
       ELSE \E found \in query_domain_id(Tables, d) :
              \E t \in IF found.ok
                         THEN delete_domain(found, found.domain_roots[Nearest(Tables, d)])
                         ELSE {found} :
                Leave(t, d)

\* Somebody asks for the domain of a path in d.
query(d) ==
  /\ UNCHANGED <<fs, changes>>
  /\ IF \/ Owners(Tables, d) = {}
        \/ Nearest(Tables, d) \in DOMAIN domain_roots
       THEN UNCHANGED <<domains, children, domain_roots, behind>>
       ELSE \E t \in query_domain_id(Tables, d) : Leave(t, Nearest(Tables, d))

Next ==
  \E d \in Dirs :
    \/ \E content \in Ids \cup {Broken} : write(d, content)
    \/ remove(d)
    \/ query(d)

Spec == Init /\ [][Next]_vars
-----------------------------------------------------------------------------
(* Properties.                                                             *)

\* Type invariant.
TypeOK ==
  /\ fs \in [Dirs -> Ids \cup {Broken, NoFile}]
  /\ behind \subseteq DOMAIN domain_roots
  /\ changes \in 0..MaxChanges
  /\ \A d \in DOMAIN domain_roots :
       LET config == domain_roots[d]
       IN  d \in Dirs /\ config.root = d /\ config.id \in Ids
  /\ \A id \in DOMAIN domains : Last(id) \in Ids
  /\ \A id \in DOMAIN children : children[id] \subseteq Seq(Ids)

\* The table of domains and the table of roots hold the same configs: every
\* domain_id stands for one directory and the other way round, in whatever
\* order files are written, read, removed and refused, and though a domain_id
\* changes when the domain above is deleted (domain.c:371-384, 413-432).
TablesAgree ==
  /\ \A id \in DOMAIN domains :
       /\ domains[id].domain_id = id
       /\ domains[id].root \in DOMAIN domain_roots
       /\ domain_roots[domains[id].root] = domains[id]
  /\ \A d \in DOMAIN domain_roots :
       /\ domain_roots[d].domain_id \in DOMAIN domains
       /\ domains[domain_roots[d].domain_id] = domain_roots[d]

\* The lists follow the configs: a domain is listed under the id that its own
\* config has for a parent, under the domain_id it goes by now, and in no other
\* list, also when the parent's deletion stopped half-way; and its id extends
\* the parent's.  That id may be one that no domain goes by any more (371, 431).
ListedWithParent ==
  \A id \in DOMAIN domains :
    LET config == domains[id]
    IN  /\ id = Append(config.parent, config.id)
        /\ config.parent # None =>
             config.parent \in DOMAIN children /\ id \in children[config.parent]
        /\ \A other \in DOMAIN children \ {config.parent} : id \notin children[other]

\* The tables follow the files: a domain that is tracked is what its file says
\* now, unless the last change of that very file was refused.
FollowsFiles ==
  \A d \in DOMAIN domain_roots \ behind : fs[d] = domain_roots[d].id

\* No change of a file stops the tracker from tracking another directory: not
\* one whose domain goes by the same id, not one below.  (The removal of a file
\* that was not read is the exception: its path belongs to the domain above,
\* and that is the one deleted, domain.c:66-68.)
Dropped == DOMAIN domain_roots \ DOMAIN domain_roots'

OthersStayTracked ==
  [][\A d \in Dropped : \E r \in Dirs :
       /\ fs[r] # NoFile /\ fs'[r] = NoFile
       /\ d = Nearest(Tables, r)]_vars

\* A parent is not made up: an id no domain goes by is the parent of a config
\* only because the domain that had it was renamed or removed, in this step or
\* before, and never because a file above was read, refused or found broken on
\* the way, or a deletion handed its children on (domain.c:96-110, 366, 423).
OrphansHadAParent ==
  [][\A d \in DOMAIN domain_roots' :
       LET parent == domain_roots'[d].parent
       IN  \/ parent = None \/ parent \in DOMAIN domains' \cup DOMAIN domains
           \/ \E e \in DOMAIN domain_roots : domain_roots[e].parent = parent]_vars

\* query_children() gives child domains (domain.c:485-489): what is listed with
\* a domain is a domain that has it for a parent.
ChildrenAreDomains ==
  \A id \in DOMAIN domains \cap DOMAIN children : \A child_id \in children[id] :
    child_id \in DOMAIN domains /\ domains[child_id].parent = id
=============================================================================
