---------------------------- MODULE PropertyMixin ----------------------------
(***************************************************************************)
(* PropertyMixin (.module/property.c): the generic properties of an        *)
(* object.  A property has its flags and its access hook in one of two     *)
(* tables, `props` for what is not saved with the object and `saved_props` *)
(* for what is, its value in the table of values beside it, and its masks  *)
(* in a third.                                                             *)
(*                                                                         *)
(* Other objects call, and their calls are subject to the hook: code of    *)
(* yet another object, which may call back before it answers.  So does the *)
(* code of the masks in the middle of a query.  `calls` are the calls that *)
(* wait for such code, the last one innermost; what a call has read before *)
(* it asked the hook (`checked`), it uses after.                           *)
(*                                                                         *)
(* The objects are clones, which are gone for good when destructed, and    *)
(* may have masks and hooks on the one whose properties these are, This.   *)
(* A mask is its owner: neither what masks make of the value nor their     *)
(* order is modelled, nor are the extra arguments of hooks and masks.      *)
(***************************************************************************)
EXTENDS Integers, Sequences, SequencesExt

CONSTANTS Props,    \* names of properties
          Objects,  \* clones that call, own hooks or masks
          This,     \* the object itself
          Values,   \* values of properties
          Zero,     \* the value 0, of a property that was never set
          Absent,   \* marks a key that a mapping does not have
          MaxCalls  \* bound on the calls that wait for a hook or a mask

ASSUME ThisIsNoClone == This \notin Objects

ASSUME ZeroIsAValue == Zero \in Values

ASSUME AbsentIsNothing ==
  /\ Absent \notin Values
  /\ \A S \in SUBSET (Objects \cup {This}) : Absent # S
  /\ \A h \in [by : {"nothing", "name", "closure"}, owner : Objects \cup {This}] :
       Absent # h

ASSUME MaxCallsIsANumber == MaxCalls \in Nat

VARIABLES props,              \* property -> its hook, or Absent
          saved_props,
          prop_values,        \* property -> its value, or Absent
          saved_prop_values,
          masks,              \* property -> the owners of its masks, or Absent
          alive,              \* driver: the objects that are not destructed
          calls,              \* the calls that wait
          \* For the properties only:
          written,            \* what the property's value ought to be
          masked,             \* who ought to be masking the property
          restored,           \* properties that were restored with the object
          disturbed           \* properties changed while a call on them waited

tables == <<props, saved_props, prop_values, saved_prop_values>>

ghosts == <<written, masked, restored, disturbed>>

vars == <<tables, masks, alive, calls, ghosts>>
-----------------------------------------------------------------------------
(* Hooks.                                                                  *)

Owners == Objects \cup {This}

Living == alive \cup {This}

\* No method, or one that check_access() makes nothing of.
NoHook == [by |-> "nothing", owner |-> This]

Hooks == {NoHook} \cup [by : {"name", "closure"}, owner : Owners]

\* What a caller passes as a method: a closure, the name of a function of its
\* own, or an owner, by name or as an object, with a function's name.
Methods == [form : {"none", "closure", "function", "named", "object"},
            owner : Objects]

\* munge_method() for a hook.  It shifts the owner away only if that is a
\* string: with an object for an owner the object is taken for the function,
\* and with a name that is no object's, the name is.
munge_method(method, by) ==
  CASE method.form = "closure" /\ method.owner \in alive ->
         [by |-> "closure", owner |-> method.owner]
    [] method.form = "function" -> [by |-> "name", owner |-> by]
    [] method.form = "named" /\ method.owner \in alive ->
         [by |-> "name", owner |-> method.owner]
    [] OTHER -> NoHook

\* The owner of a mask, if munge_method() makes one of the method: the named
\* function must exist, and an object for an owner is an error.
MaskOwners(by) == alive \cup {by}

Exists(p) == props[p] # Absent \/ saved_props[p] # Absent

\* check_prop(): the flags, of which PROP_NOSAVE tells the tables.
check_prop(p) == IF props[p] # Absent THEN "nosave" ELSE "saved"

Hook(p) == IF check_prop(p) = "nosave" THEN props[p] ELSE saved_props[p]

\* check_access(): a call from outside runs the hook, errors if the hook names
\* an object that is gone, and is allowed by default, also when the hook was a
\* closure of an object that is gone.
Asks(p, by) == by # This /\ Hook(p) # NoHook /\ Hook(p).owner \in Living

Fails(p, by) ==
  by # This /\ Hook(p).by = "name" /\ Hook(p).owner \notin Living

Allows(p, by) == ~Asks(p, by) /\ ~Fails(p, by)
-----------------------------------------------------------------------------
(* What a call does once it is allowed, with `stack` the calls it was made *)
(* in.  A runtime error ends the call; the code that made it may catch it, *)
(* or else the calls it was made in end as well.                           *)

Requests ==
  [op : {"set", "configure", "remove", "mask", "unmask", "query", "masks"},
   prop : Props, checked : {"nosave", "saved"}, value : Values,
   config : [to : {"nosave", "saved"}, hook : Hooks], owner : Owners, seen : SUBSET Owners]

Request(op, p) ==
  [op |-> op, prop |-> p, checked |-> check_prop(p), value |-> Zero,
   config |-> [to |-> "saved", hook |-> NoHook], owner |-> This, seen |-> {}]

Disturb(p, stack) ==
  disturbed' = IF \E i \in DOMAIN stack : stack[i].prop = p
                 THEN disturbed \cup {p} ELSE disturbed

Error(stack) ==
  /\ calls' \in {stack, <<>>}
  /\ UNCHANGED <<tables, masks, alive, ghosts>>

\* set_prop()
set_rest(c, stack) ==
  /\ IF c.checked = "nosave"
       THEN /\ prop_values' = [prop_values EXCEPT ![c.prop] = c.value]
            /\ UNCHANGED saved_prop_values
       ELSE /\ saved_prop_values' = [saved_prop_values EXCEPT ![c.prop] = c.value]
            /\ UNCHANGED prop_values
  /\ written' = [written EXCEPT ![c.prop] = c.value]
  /\ calls' = stack
  /\ UNCHANGED <<props, saved_props, masks, alive, masked, restored, disturbed>>

ValueOf(values, p) == IF values[p] = Absent THEN Zero ELSE values[p]

\* Fault: the value is not moved to the other table.
MovedEmpty(values, other, p) ==
  [values EXCEPT ![p] = IF @ = Absent THEN Zero ELSE @]

\* The value goes where it is not yet.
Moved(values, other, p) ==
  [values EXCEPT ![p] = IF @ = Absent THEN ValueOf(other, p) ELSE @]

\* Fault: the property stays in the table it was in.
configure_rest_leaving(c, stack) ==
  LET p == c.prop
  IN  /\ IF c.config.to = "nosave"
           THEN /\ props' = [props EXCEPT ![p] = c.config.hook]
                /\ UNCHANGED saved_props
                /\ prop_values' = Moved(prop_values, saved_prop_values, p)
                /\ saved_prop_values' = [saved_prop_values EXCEPT ![p] = Absent]
           ELSE /\ saved_props' = [saved_props EXCEPT ![p] = c.config.hook]
                /\ UNCHANGED props
                /\ saved_prop_values' = Moved(saved_prop_values, prop_values, p)
                /\ prop_values' = [prop_values EXCEPT ![p] = Absent]
      /\ calls' = stack
      /\ Disturb(p, stack)
      /\ UNCHANGED <<masks, alive, written, masked, restored>>

\* configure_prop(): whichever table the property was in, it is in the right
\* one after.
configure_rest(c, stack) ==
  LET p == c.prop
  IN  /\ IF c.config.to = "nosave"
           THEN /\ props' = [props EXCEPT ![p] = c.config.hook]
                /\ saved_props' = [saved_props EXCEPT ![p] = Absent]
                /\ prop_values' = Moved(prop_values, saved_prop_values, p)
                /\ saved_prop_values' = [saved_prop_values EXCEPT ![p] = Absent]
           ELSE /\ saved_props' = [saved_props EXCEPT ![p] = c.config.hook]
                /\ props' = [props EXCEPT ![p] = Absent]
                /\ saved_prop_values' = Moved(saved_prop_values, prop_values, p)
                /\ prop_values' = [prop_values EXCEPT ![p] = Absent]
      /\ calls' = stack
      /\ Disturb(p, stack)
      /\ UNCHANGED <<masks, alive, written, masked, restored>>

\* remove_prop(): only the tables that the flags tell are cleared.
remove_rest(c, stack) ==
  LET p == c.prop
  IN  /\ IF c.checked = "nosave"
           THEN /\ props' = [props EXCEPT ![p] = Absent]
                /\ prop_values' = [prop_values EXCEPT ![p] = Absent]
                /\ UNCHANGED <<saved_props, saved_prop_values>>
           ELSE /\ saved_props' = [saved_props EXCEPT ![p] = Absent]
                /\ saved_prop_values' = [saved_prop_values EXCEPT ![p] = Absent]
                /\ UNCHANGED <<props, prop_values>>
      /\ masks' = [masks EXCEPT ![p] = Absent]
      /\ masked' = [masked EXCEPT ![p] = {}]
      /\ calls' = stack
      /\ Disturb(p, stack)
      /\ UNCHANGED <<alive, written, restored>>

\* mask_prop()
mask_rest(c, stack) ==
  LET p == c.prop
  IN  IF masks[p] = Absent THEN Error(stack)
        ELSE /\ masks' = [masks EXCEPT ![p] = @ \cup {c.owner}]
             /\ masked' = [masked EXCEPT ![p] = @ \cup {c.owner}]
             /\ calls' = stack
             /\ Disturb(p, stack)
             /\ UNCHANGED <<tables, alive, written, restored>>

\* unmask_prop(): masks of objects that are gone go with it.
unmask_rest(c, stack) ==
  LET p == c.prop
  IN  IF masks[p] = Absent THEN Error(stack)
        ELSE /\ masks' = [masks EXCEPT ![p] = (@ \cap Living) \ {c.owner}]
             /\ masked' = [masked EXCEPT ![p] = @ \ {c.owner}]
             /\ calls' = stack
             /\ Disturb(p, stack)
             /\ UNCHANGED <<tables, alive, written, restored>>

\* query_prop() up to the masks: the call waits while they run.
query_rest(c, stack) ==
  IF masks[c.prop] = Absent THEN Error(stack)
    ELSE /\ calls' = Append(stack, [Request("masks", c.prop) EXCEPT !.seen = masks[c.prop]])
         /\ UNCHANGED <<tables, masks, alive, ghosts>>

RestOfCall(c, stack) ==
  \/ c.op = "set" /\ set_rest(c, stack)
  \/ c.op = "configure" /\ configure_rest(c, stack)
  \/ c.op = "remove" /\ remove_rest(c, stack)
  \/ c.op = "mask" /\ mask_rest(c, stack)
  \/ c.op = "unmask" /\ unmask_rest(c, stack)
  \/ c.op = "query" /\ query_rest(c, stack)
-----------------------------------------------------------------------------
(* Calls.                                                                  *)

\* A call that found its property: it is allowed, fails or waits for the hook.
Try(c, by) ==
  \/ Allows(c.prop, by) /\ RestOfCall(c, calls)
  \/ Fails(c.prop, by) /\ Error(calls)
  \/ /\ Asks(c.prop, by)
     /\ calls' = Append(calls, c)
     /\ UNCHANGED <<tables, masks, alive, ghosts>>

Callers == IF Len(calls) < MaxCalls THEN Living ELSE {}

\* init_prop() of a property that does not exist.
init_prop(p, to, hook) ==
  /\ ~Exists(p)
  /\ IF to = "nosave"
       THEN /\ props' = [props EXCEPT ![p] = hook]
            /\ prop_values' = [prop_values EXCEPT ![p] = Zero]
            /\ UNCHANGED <<saved_props, saved_prop_values>>
       ELSE /\ saved_props' = [saved_props EXCEPT ![p] = hook]
            /\ saved_prop_values' = [saved_prop_values EXCEPT ![p] = Zero]
            /\ UNCHANGED <<props, prop_values>>
  /\ masks' = [masks EXCEPT ![p] = {}]
  /\ written' = [written EXCEPT ![p] = Zero]
  /\ masked' = [masked EXCEPT ![p] = {}]
  /\ restored' = restored \ {p}
  /\ UNCHANGED <<alive, calls, disturbed>>

InitProp(p) ==
  \E by \in Callers, to \in {"nosave", "saved"}, method \in Methods :
    init_prop(p, to, munge_method(method, by))

\* set_prop() of a property that does not exist makes a saved one of it, which
\* has no hook that could object.
SetNew(p) ==
  \E by \in Callers, value \in Values :
    /\ ~Exists(p)
    /\ saved_props' = [saved_props EXCEPT ![p] = NoHook]
    /\ saved_prop_values' = [saved_prop_values EXCEPT ![p] = value]
    /\ masks' = [masks EXCEPT ![p] = {}]
    /\ written' = [written EXCEPT ![p] = value]
    /\ masked' = [masked EXCEPT ![p] = {}]
    /\ restored' = restored \ {p}
    /\ UNCHANGED <<props, prop_values, alive, calls, disturbed>>

set_prop(p) ==
  \E by \in Callers, value \in Values :
    /\ Exists(p)
    /\ Try([Request("set", p) EXCEPT !.value = value], by)

configure_prop(p) ==
  \E by \in Callers, to \in {"nosave", "saved"}, method \in Methods :
    /\ Exists(p)
    /\ Try([Request("configure", p) EXCEPT
              !.config = [to |-> to, hook |-> munge_method(method, by)]], by)

query_prop(p) ==
  \E by \in Callers : Exists(p) /\ Try(Request("query", p), by)

remove_prop(p) ==
  \E by \in Callers : Exists(p) /\ Try(Request("remove", p), by)

\* Only one mask for each object; with no masks at all map() is an error.
mask_prop(p) ==
  \E by \in Callers : \E owner \in MaskOwners(by) :
    /\ Exists(p)
    /\ IF masks[p] = Absent THEN Error(calls)
         ELSE /\ owner \notin masks[p]
              /\ Try([Request("mask", p) EXCEPT !.owner = owner], by)

unmask_prop(p) ==
  \E by \in Callers, owner \in Living :
    Exists(p) /\ Try([Request("unmask", p) EXCEPT !.owner = owner], by)

Init ==
  /\ props = [p \in Props |-> Absent]
  /\ saved_props = [p \in Props |-> Absent]
  /\ prop_values = [p \in Props |-> Absent]
  /\ saved_prop_values = [p \in Props |-> Absent]
  /\ masks = [p \in Props |-> Absent]
  /\ alive = Objects
  /\ calls = <<>>
  /\ written = [p \in Props |-> Zero]
  /\ masked = [p \in Props |-> {}]
  /\ restored = {}
  /\ disturbed = {}

Stack == Front(calls)

\* The hook answers, or dies.
Answer ==
  /\ calls # <<>>
  /\ Last(calls).op # "masks"
  /\ \/ RestOfCall(Last(calls), Stack)  \* allowed
     \/ /\ calls' = Stack         \* denied
        /\ UNCHANGED <<tables, masks, alive, ghosts>>
     \/ Error(Stack)

\* The masks have run: those that were there when the query began stay, but
\* for those whose owner was gone when their turn came.
MasksRun ==
  /\ calls # <<>>
  /\ Last(calls).op = "masks"
  /\ \/ \E kept \in SUBSET Last(calls).seen :
          /\ Last(calls).seen \cap Living \subseteq kept
          /\ masks' = [masks EXCEPT ![Last(calls).prop] = kept]
          /\ calls' = Stack
          /\ UNCHANGED <<tables, alive, ghosts>>
     \/ Error(Stack)

Destruct(o) ==
  /\ o \in alive
  /\ alive' = alive \ {o}
  /\ UNCHANGED <<tables, masks, calls, ghosts>>

\* The object is saved, destructed, cloned anew and restored.  What is nosave
\* is empty then, the masks too, and closures are not saved.
Unsaved(hook) == IF hook # Absent /\ hook.by = "closure" THEN NoHook ELSE hook

Restore ==
  /\ calls = <<>>
  /\ props' = [p \in Props |-> Absent]
  /\ prop_values' = [p \in Props |-> Absent]
  /\ saved_props' = [p \in Props |-> Unsaved(saved_props[p])]
  /\ masks' = [p \in Props |-> Absent]
  /\ masked' = [p \in Props |-> {}]
  /\ restored' = {p \in Props : saved_props[p] # Absent}
  /\ UNCHANGED <<saved_prop_values, alive, calls, written, disturbed>>

Next ==
  \/ \E p \in Props :
       \/ InitProp(p) \/ SetNew(p) \/ set_prop(p) \/ configure_prop(p)
       \/ query_prop(p) \/ remove_prop(p) \/ mask_prop(p) \/ unmask_prop(p)
  \/ \E o \in Objects : Destruct(o)
  \/ Answer \/ MasksRun \/ Restore

Spec == Init /\ [][Next]_vars
-----------------------------------------------------------------------------
\* Type invariant.
TypeOK ==
  /\ props \in [Props -> Hooks \cup {Absent}]
  /\ saved_props \in [Props -> Hooks \cup {Absent}]
  /\ prop_values \in [Props -> Values \cup {Absent}]
  /\ saved_prop_values \in [Props -> Values \cup {Absent}]
  /\ masks \in [Props -> (SUBSET Owners) \cup {Absent}]
  /\ alive \subseteq Objects
  /\ calls \in Seq(Requests)
  /\ written \in [Props -> Values]
  /\ masked \in [Props -> SUBSET Owners]
  /\ restored \subseteq Props /\ disturbed \subseteq Props

OneTable(p) ==
  /\ props[p] = Absent \/ saved_props[p] = Absent
  /\ prop_values[p] = Absent <=> props[p] = Absent
  /\ saved_prop_values[p] = Absent <=> saved_props[p] = Absent

\* A property that no hook or mask changes in the middle of a call on it is in
\* one of the two tables, has its value in the table beside it, and has masks,
\* if it was not restored: then it has none and stays without, so that every
\* query of it errors (property.c:210).
TablesAgree ==
  \A p \in Props \ disturbed :
    OneTable(p) /\ (masks[p] # Absent <=> Exists(p) /\ p \notin restored)

\* What was set last is the value, through changes of the tables, restarts and
\* errors, and the masks are those that were added and not removed since, but
\* for those of objects that are gone.
LastWriteStays ==
  \A p \in Props \ disturbed :
    /\ props[p] # Absent => prop_values[p] = written[p]
    /\ saved_props[p] # Absent => saved_prop_values[p] = written[p]
    /\ masks[p] # Absent => masks[p] \cap Living = masked[p] \cap Living
=============================================================================
