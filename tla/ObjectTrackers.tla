---------------------------- MODULE ObjectTrackers ----------------------------
(***************************************************************************)
(* What HookService (.obj/hook_service.c) does when an object is created:  *)
(* it tells ZoneTracker, ProgramTracker and ObjectTracker (.obj/tracker/), *)
(* and then calls create() in the object.  An error on the way leaves the  *)
(* object without its create() call, be it an error of the database, where *)
(* each blueprint gets a row.  The SQL client, which the trackers use for  *)
(* that, is tracked by a call_out instead.                                 *)
(*                                                                         *)
(* A zone is a directory, registered together with those above it when the *)
(* first object is loaded from it.  A program is registered anew each time *)
(* its blueprint is loaded.  A tracker is reloaded by TrackerService with  *)
(* reload_object() (.lib/object.c); create_hook() finds the new object as  *)
(* the tracker then, before create() made its tables, so that it fails on  *)
(* its own creation, and at the creation of any object thereafter.         *)
(*                                                                         *)
(* ObjectTracker keeps nothing, its inserts being commented out.           *)
(***************************************************************************)
EXTENDS Integers, Sequences, FiniteSets

CONSTANTS Zones,       \* zone ids
          ParentOf,    \* zone -> the zone above it, or NoZone
          NoZone,
          Broken,      \* zones with a zone.xml that cannot be parsed
          Programs,    \* program names
          ZoneOf,      \* program -> its zone
          SQLiteClient,  \* the program that is tracked later
          Early,       \* programs loaded before the trackers were
          Labels,      \* labels of zone instances
          MaxObjects,  \* bound on the objects ever created
          MaxInstances \* bound on the zone instances ever made

\* A zone and those above it, that is get_parent_zone() over and over.
Upward(z) ==
  LET Closed(A) == z \in A /\ \A a \in A : ParentOf[a] # NoZone => ParentOf[a] \in A
  IN  {a \in Zones : \A A \in SUBSET Zones : Closed(A) => a \in A}

\* Zones are directories, which do not lie within themselves.
ASSUME ZonesAreATree ==
  \A z \in Zones : ParentOf[z] # NoZone =>
    ParentOf[z] \in Zones /\ z \notin Upward(ParentOf[z])

ASSUME ProgramsHaveZones == \A p \in Programs : ZoneOf[p] \in Zones

ASSUME EarlyPrograms == Early \subseteq Programs /\ IsFiniteSet(Early)

DEFAULT_INSTANCE == "main"

VARIABLES objects,     \* driver: the objects created so far
          blueprints,  \* driver: program -> its blueprint's number, or 0
          callouts,    \* the objects whose tracking is delayed
          zones,       \* zone -> its ZoneInfo
          instances,   \* zone instance, a number -> its ZoneInstanceInfo
          programs,    \* program id, a number -> its ProgramInfo
          program_names,  \* program name -> its program ids
          object_map,  \* object -> its program id
          raw          \* trackers that were reloaded and have no tables

trackersVars == <<objects, blueprints, callouts, zones, instances, programs,
          program_names, object_map, raw>>

zoneVars == <<zones, instances>>

programVars == <<programs, program_names, object_map>>

With(f, x, v) == [y \in DOMAIN f \cup {x} |-> IF y = x THEN v ELSE f[y]]
-----------------------------------------------------------------------------
(* ZoneTracker.                                                            *)

Above(z) == Upward(z) \ {z}

Missing(z) == Upward(z) \ DOMAIN zones

\* The zones that new_zone() adds: it goes down from the topmost, and stops
\* after a zone whose load_config() fails.
Added(z) == {a \in Missing(z) : Above(a) \cap Missing(z) \cap Broken = {}}

ZoneFails(z) == Missing(z) \cap Broken # {}

\* Fault: the zone above does not learn of the new one.
ZonesWithChildless(z) ==
  [a \in DOMAIN zones \cup Added(z) |->
     IF a \in DOMAIN zones THEN zones[a]
       ELSE [parent |-> ParentOf[a], children |-> {}, instances |-> {}]]

ZonesWith(z) ==
  [a \in DOMAIN zones \cup Added(z) |->
     LET new == {b \in Added(z) : ParentOf[b] = a}
     IN  IF a \in DOMAIN zones THEN [zones[a] EXCEPT !.children = @ \cup new]
           ELSE [parent |-> ParentOf[a], children |-> new, instances |-> {}]]

\* new_instance(): for a zone that is not known the instance is made, and then
\* the zone is not found.
new_instance(z, label) ==
  LET id == Cardinality(DOMAIN instances) + 1
  IN  /\ "zone" \notin raw
      /\ id <= MaxInstances
      /\ instances' = With(instances, id, [zone |-> z, label |-> label])
      /\ zones' = IF z \in DOMAIN zones
                    THEN [zones EXCEPT ![z].instances = @ \cup {id}] ELSE zones
      /\ UNCHANGED <<objects, blueprints, callouts, programVars, raw>>

\* query_starting_instance() of a zone with no instance: a zone that is not known
\* is registered, if its config allows, and the first instance is made.
query_starting_instance(z) ==
  LET id == Cardinality(DOMAIN instances) + 1
      known == z \in DOMAIN zones
  IN  /\ "zone" \notin raw
      /\ known => zones[z].instances = {}
      /\ IF ~known /\ ZoneFails(z)
           THEN zones' = ZonesWith(z) /\ UNCHANGED instances
           ELSE /\ id <= MaxInstances
                /\ instances' = With(instances, id,
                                     [zone |-> z, label |-> DEFAULT_INSTANCE])
                /\ zones' = [ZonesWith(z) EXCEPT ![z].instances = {id}]
      /\ UNCHANGED <<objects, blueprints, callouts, programVars, raw>>
-----------------------------------------------------------------------------
(* ProgramTracker.                                                         *)

Latest(p) == program_names[p][Len(program_names[p])]

\* new_program() and program_cloned(): what they make of the tables for object
\* o.  A clone belongs to the latest program of its name.  new_program() ends
\* with the insert of a row (SqlMixin), which may fail, the tables as they are.
new_program(o, p) ==
  LET id == Cardinality(DOMAIN programs) + 1
  IN  /\ programs' = With(programs, id, [name |-> p, blueprint |-> o, clones |-> {}])
      /\ program_names' = [program_names EXCEPT ![p] = Append(@, id)]
      /\ object_map' = With(object_map, o, id)

\* Fault: a clone belongs to the first program of its name.
program_cloned_first(o, p) ==
  LET id == program_names[p][1]
  IN  /\ programs' = [programs EXCEPT ![id].clones = @ \cup {o}]
      /\ object_map' = With(object_map, o, id)
      /\ UNCHANGED program_names

program_cloned(o, p) ==
  /\ programs' = [programs EXCEPT ![Latest(p)].clones = @ \cup {o}]
  /\ object_map' = With(object_map, o, Latest(p))
  /\ UNCHANGED program_names

\* The program of a clone must be known.
ProgramFails(clone, p) == clone /\ program_names[p] = <<>>
-----------------------------------------------------------------------------
(* HookService.                                                            *)

TrackingFails(clone, p) ==
  raw # {} \/ ZoneFails(ZoneOf[p]) \/ ProgramFails(clone, p)

\* track_object(): zone, then program; an error keeps it from what follows.
track_object(o, clone, p) ==
  /\ zones' = IF "zone" \in raw THEN zones ELSE ZonesWith(ZoneOf[p])
  /\ UNCHANGED instances
  /\ IF TrackingFails(clone, p) THEN UNCHANGED programVars
       ELSE IF clone THEN program_cloned(o, p) ELSE new_program(o, p)

\* create_hook(): create() is called unless the tracking failed, or the insert
\* that it ends with for a blueprint.
create_hook(clone, p, inserted) ==
  LET o == Len(objects) + 1
      later == p = SQLiteClient
  IN  /\ o <= MaxObjects
      /\ objects' = Append(objects,
            [name |-> p, clone |-> clone, from |-> blueprints[p], alive |-> TRUE,
             created |-> later \/ (~TrackingFails(clone, p) /\ (clone \/ inserted))])
      /\ IF later
           THEN callouts' = callouts \cup {o} /\ UNCHANGED <<zoneVars, programVars>>
           ELSE callouts' = callouts /\ track_object(o, clone, p)

\* The driver loads a blueprint, or clones it.
Load(p) ==
  /\ blueprints[p] = 0
  /\ \E inserted \in BOOLEAN : create_hook(FALSE, p, inserted)
  /\ blueprints' = [blueprints EXCEPT ![p] = Len(objects) + 1]
  /\ UNCHANGED raw

Clone(p) ==
  /\ blueprints[p] # 0
  /\ create_hook(TRUE, p, FALSE)
  /\ UNCHANGED <<blueprints, raw>>

Destructed(o) ==
  /\ objects[o].alive
  /\ objects' = [objects EXCEPT ![o].alive = FALSE]
  /\ blueprints' = [p \in Programs |-> IF blueprints[p] = o THEN 0 ELSE blueprints[p]]
  /\ UNCHANGED <<callouts, zoneVars, programVars, raw>>

\* The call_out of create_hook(); for an object that is gone it fails.
Tracked(o) ==
  /\ callouts' = callouts \ {o}
  /\ IF objects[o].alive THEN track_object(o, objects[o].clone, objects[o].name)
       ELSE UNCHANGED <<zoneVars, programVars>>
  /\ UNCHANGED <<objects, blueprints, raw>>

\* reload_tracker(): the old tracker and its tables are gone, and the variables
\* are not restored, as loading the new one ends in the error of its creation.
reload_tracker(tracker) ==
  /\ tracker \notin raw
  /\ raw' = raw \cup {tracker}
  /\ IF tracker = "zone"
       THEN /\ zones' = [z \in {} |-> 0]
            /\ instances' = [i \in {} |-> 0]
            /\ UNCHANGED programVars
       ELSE /\ programs' = [i \in {} |-> 0]
            /\ program_names' = [p \in Programs |-> <<>>]
            /\ object_map' = [o \in {} |-> 0]
            /\ UNCHANGED zoneVars
  /\ UNCHANGED <<objects, blueprints, callouts>>

\* The early programs have blueprints that were never tracked.
TrackersInit ==
  \E order \in [1..Cardinality(Early) -> Early] :
    /\ \A p \in Early : \E i \in DOMAIN order : order[i] = p
    /\ objects = [i \in DOMAIN order |->
                    [name |-> order[i], clone |-> FALSE, from |-> 0, alive |-> TRUE,
                     created |-> TRUE]]
    /\ blueprints = [p \in Programs |->
                       IF p \in Early THEN CHOOSE i \in DOMAIN order : order[i] = p
                                      ELSE 0]
    /\ callouts = {}
    /\ zones = [z \in {} |-> 0]
    /\ instances = [i \in {} |-> 0]
    /\ programs = [i \in {} |-> 0]
    /\ program_names = [p \in Programs |-> <<>>]
    /\ object_map = [o \in {} |-> 0]
    /\ raw = {}

TrackersNext ==
  \/ \E p \in Programs : Load(p) \/ Clone(p)
  \/ \E o \in DOMAIN objects : Destructed(o)
  \/ \E o \in callouts : Tracked(o)
  \/ \E z \in Zones :
       \/ \E label \in Labels : new_instance(z, label)
       \/ query_starting_instance(z)
  \/ \E tracker \in {"zone", "program"} : reload_tracker(tracker)

TrackersSpec == TrackersInit /\ [][TrackersNext]_trackersVars
-----------------------------------------------------------------------------
\* An object whose create() was called, but for the SQL client's and the early
\* ones, has the program of the blueprint that it is or was cloned from, from
\* then on and whatever is loaded, destructed or fails to load after it.  Of
\* the objects that the trackers failed on, ProgramTracker knows none
\* (hook_service.c:188) but blueprints whose own row could not be inserted
\* (program.c:111); and it knows no object whose zone ZoneTracker does not.  Of
\* the SQL client's objects, which are tracked late, only their program's name
\* and their zone are right.
ObjectsHaveTheirProgram ==
  \A o \in DOMAIN objects :
    LET ob == objects[o]
        tracked == o \in DOMAIN object_map
    IN  /\ tracked =>
             /\ programs[object_map[o]].name = ob.name
             /\ IF ob.clone THEN o \in programs[object_map[o]].clones
                            ELSE programs[object_map[o]].blueprint = o
             /\ "zone" \notin raw => ZoneOf[ob.name] \in DOMAIN zones
        /\ ob.name # SQLiteClient /\ o > Cardinality(Early) /\ "program" \notin raw =>
             /\ ob.created => tracked
             /\ ob.clone /\ tracked => /\ ob.created
                                      /\ programs[object_map[o]].blueprint = ob.from

\* The zones form a tree, linked in both directions, a zone never without the
\* ones above it, also when the config of one of them cannot be parsed and the
\* object that was to be created fails (zone.c:70).  What a zone lists as its
\* instance is one, of that zone.
ZonesFormATree ==
  \A z \in DOMAIN zones :
    LET zone == zones[z]
    IN  /\ zone.parent = ParentOf[z]
        /\ zone.parent # NoZone => /\ zone.parent \in DOMAIN zones
                                 /\ z \in zones[zone.parent].children
        /\ \A c \in zone.children : c \in DOMAIN zones /\ zones[c].parent = z
        /\ \A i \in zone.instances : i \in DOMAIN instances /\ instances[i].zone = z
=============================================================================
