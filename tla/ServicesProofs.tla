---------------------------- MODULE ServicesProofs ----------------------------
(***************************************************************************)
(* Proofs about services that share no state: the property mixin, the      *)
(* loggers, the client of the ERQ, and what the hooks of an object serve,  *)
(* its moves and the tables that track zones and programs.                 *)
(***************************************************************************)
EXTENDS PropertyMixin, Logger, RodneyClient, MoveHook, ObjectTrackers,
        SequenceTheorems, FiniteSetTheorems, TLAPS

-----------------------------------------------------------------------------
(***************************************************************************)
(* Proofs about PropertyMixin: the tables agree and the last write stays,  *)
(* for any properties, objects and depth of calls.  Neither is inductive   *)
(* alone: a call that waits for a hook uses the flags that it read before, *)
(* so they must still be those of the property, and a query puts back the  *)
(* masks that it saw, so they must still be those of the property.         *)
(***************************************************************************)
\* What a waiting call has read is still so, or the property is disturbed.
StillCurrent(c) ==
  c.prop \notin disturbed =>
    /\ Exists(c.prop)
    /\ c.checked = check_prop(c.prop)
    /\ c.op = "masks" => /\ masks[c.prop] # Absent
                         /\ c.seen \cap Living = masked[c.prop] \cap Living

CallsCurrent == \A i \in DOMAIN calls : StillCurrent(calls[i])

MixinInv == TypeOK /\ TablesAgree /\ LastWriteStays /\ CallsCurrent
-----------------------------------------------------------------------------
(* Facts about the parts of the state.                                     *)

\* The mark of a missing key is no hook, no value and no set of owners.
LEMMA AbsentIsNone ==
  /\ Absent \notin Hooks
  /\ Absent \notin Values
  /\ Absent \notin SUBSET Owners
<1>1. Absent \notin Hooks
  <2>1. Hooks \subseteq [by : {"nothing", "name", "closure"}, owner : Owners]
    BY DEF Hooks, NoHook, Owners
  <2> QED BY <2>1, AbsentIsNothing DEF Owners
<1> QED BY <1>1, AbsentIsNothing DEF Owners

\* Calls that are left when the last one ends.
LEMMA FrontOfCalls ==
  ASSUME NEW s \in Seq(Requests), s # <<>>
  PROVE  /\ Front(s) \in Seq(Requests)
         /\ Last(s) \in Requests
         /\ \A i \in DOMAIN Front(s) : i \in DOMAIN s /\ Front(s)[i] = s[i]
         /\ Last(s) = s[Len(s)] /\ Len(s) \in DOMAIN s
BY DEF Front, Last

\* A call made on a property that exists is one, and knows its flags.
LEMMA RequestIsCurrent ==
  ASSUME NEW p \in Props, NEW c \in Requests, Exists(p),
         c.prop = p, c.checked = check_prop(p), c.op # "masks"
  PROVE  StillCurrent(c)
BY DEF StillCurrent
-----------------------------------------------------------------------------
(* Steps.                                                                  *)

LEMMA MixinInitInv == Init => MixinInv
<1> SUFFICES ASSUME Init PROVE MixinInv
  OBVIOUS
<1>1. TypeOK
  BY ZeroIsAValue DEF Init, TypeOK
<1>2. TablesAgree /\ LastWriteStays /\ CallsCurrent
  BY DEF Init, TablesAgree, LastWriteStays, CallsCurrent, OneTable, Exists
<1> QED BY <1>1, <1>2 DEF MixinInv

\* A step that leaves everything alone but the calls, which remain current.
LEMMA CallsOnly ==
  ASSUME MixinInv, UNCHANGED <<tables, masks, alive, ghosts>>,
         calls' \in Seq(Requests), \A i \in DOMAIN calls' : StillCurrent(calls'[i])
  PROVE  MixinInv'
<1> USE DEF tables, ghosts
<1>1. TypeOK'
  BY DEF MixinInv, TypeOK
<1>2. TablesAgree' /\ LastWriteStays'
  BY DEF MixinInv, TablesAgree, LastWriteStays, OneTable, Exists, Living
<1>3. CallsCurrent'
  BY DEF CallsCurrent, StillCurrent, Exists, check_prop, Living
<1> QED BY <1>1, <1>2, <1>3 DEF MixinInv

\* An error leaves the calls around it or none.
LEMMA ErrorKeeps ==
  ASSUME MixinInv, NEW stack \in Seq(Requests),
         \A i \in DOMAIN stack : StillCurrent(stack[i]), Error(stack)
  PROVE  MixinInv'
<1>1. /\ UNCHANGED <<tables, masks, alive, ghosts>>
      /\ calls' = stack \/ calls' = <<>>
  BY DEF Error
<1>2. CASE calls' = stack
  BY <1>1, <1>2, CallsOnly
<1>3. CASE calls' = <<>>
  <2>1. calls' \in Seq(Requests) /\ DOMAIN calls' = {}
    BY <1>3
  <2> QED BY <1>1, <2>1, CallsOnly
<1> QED BY <1>1, <1>2, <1>3

\* The rest of a call, made with `stack` waiting, all of them current.
LEMMA RestKeeps ==
  ASSUME MixinInv, NEW c \in Requests, NEW stack \in Seq(Requests),
         StillCurrent(c), c.op # "masks",
         \A i \in DOMAIN stack : StillCurrent(stack[i]),
         RestOfCall(c, stack)
  PROVE  MixinInv'
<1> DEFINE p == c.prop
<1>0. /\ p \in Props /\ c.value \in Values /\ c.config.hook \in Hooks
      /\ c.owner \in Owners /\ c.checked \in {"nosave", "saved"}
  BY DEF Requests
<1> USE <1>0
<1>t. /\ TypeOK /\ TablesAgree /\ LastWriteStays
  BY DEF MixinInv
<1>a. ASSUME calls' = stack, UNCHANGED alive,
             \A q \in Props \ {p} :
               /\ props'[q] = props[q] /\ saved_props'[q] = saved_props[q]
               /\ prop_values'[q] = prop_values[q]
               /\ saved_prop_values'[q] = saved_prop_values[q]
               /\ masks'[q] = masks[q] /\ written'[q] = written[q]
               /\ masked'[q] = masked[q]
               /\ q \in restored' <=> q \in restored
               /\ q \in disturbed' <=> q \in disturbed,
             p \notin disturbed' =>
               /\ p \notin disturbed
               /\ OneTable(p)'
               /\ (masks'[p] # Absent <=> Exists(p)' /\ p \notin restored')
               /\ props'[p] # Absent => prop_values'[p] = written'[p]
               /\ saved_props'[p] # Absent => saved_prop_values'[p] = written'[p]
               /\ masks'[p] # Absent => masks'[p] \cap Living = masked'[p] \cap Living,
             p \notin disturbed' =>
               \/ \A i \in DOMAIN stack : stack[i].prop # p
               \/ /\ props' = props /\ saved_props' = saved_props
                  /\ masks' = masks /\ masked' = masked,
             TypeOK'
      PROVE  MixinInv'
  <2>1. \A q \in Props \ {p} : /\ OneTable(q)' <=> OneTable(q)
                               /\ Exists(q)' <=> Exists(q)
                               /\ check_prop(q)' = check_prop(q)
    BY <1>a DEF OneTable, Exists, check_prop
  <2>2. Living' = Living
    BY <1>a DEF Living
  <2>3. TablesAgree'
    BY <1>a, <1>t, <2>1 DEF TablesAgree
  <2>4. LastWriteStays'
    BY <1>a, <1>t, <2>2 DEF LastWriteStays
  <2>5. CallsCurrent'
    <3> SUFFICES ASSUME NEW i \in DOMAIN stack PROVE StillCurrent(stack[i])'
      BY <1>a DEF CallsCurrent
    <3>1. stack[i] \in Requests
      OBVIOUS
    <3>1a. stack[i].prop \in Props
      BY <3>1 DEF Requests
    <3>2. CASE stack[i].prop # p
      BY <3>1a, <3>2, <1>a, <2>1, <2>2 DEF StillCurrent
    <3>3. CASE stack[i].prop = p
      <4>1. CASE p \in disturbed'
        BY <4>1, <3>3 DEF StillCurrent
      <4>2. CASE p \notin disturbed'
        <5>1. /\ props' = props /\ saved_props' = saved_props
              /\ masks' = masks /\ masked' = masked /\ p \notin disturbed
          BY <4>2, <3>3, <1>a
        <5> QED BY <5>1, <2>2, <3>3 DEF StillCurrent, Exists, check_prop
      <4> QED BY <4>1, <4>2
    <3> QED BY <3>2, <3>3
  <2> QED BY <1>a, <2>3, <2>4, <2>5 DEF MixinInv
<1>c. p \notin disturbed => Exists(p) /\ c.checked = check_prop(p)
  BY DEF StillCurrent
<1>d. ASSUME Disturb(p, stack)
      PROVE  /\ \A q \in Props \ {p} : q \in disturbed' <=> q \in disturbed
             /\ disturbed' \subseteq Props
             /\ p \notin disturbed' => /\ p \notin disturbed
                                      /\ \A i \in DOMAIN stack : stack[i].prop # p
  BY <1>d, <1>t DEF Disturb, TypeOK
<1>1. CASE c.op = "set"
  <2> USE <1>1, AbsentIsNone DEF TypeOK
  <2>1. set_rest(c, stack)
    BY DEF RestOfCall
  <2>2. TypeOK'
    BY <2>1, <1>t DEF set_rest
  <2>3. p \notin disturbed => /\ OneTable(p)
                             /\ (masks[p] # Absent <=> Exists(p) /\ p \notin restored)
    BY <1>t DEF TablesAgree
  <2>4. p \notin disturbed' =>
               /\ p \notin disturbed
               /\ OneTable(p)'
               /\ (masks'[p] # Absent <=> Exists(p)' /\ p \notin restored')
               /\ props'[p] # Absent => prop_values'[p] = written'[p]
               /\ saved_props'[p] # Absent => saved_prop_values'[p] = written'[p]
               /\ masks'[p] # Absent => masks'[p] \cap Living = masked'[p] \cap Living
    BY <2>1, <2>3, <1>t, <1>c DEF set_rest, OneTable, Exists, check_prop, LastWriteStays
  <2> QED BY <2>1, <2>2, <2>4, <1>a, <1>t DEF set_rest
<1>2. CASE c.op = "configure"
  <2> USE <1>2, AbsentIsNone DEF TypeOK
  <2>1. configure_rest(c, stack) /\ Disturb(p, stack)
    BY DEF RestOfCall, configure_rest
  <2>2a. /\ Moved(prop_values, saved_prop_values, p) \in [Props -> Values \cup {Absent}]
         /\ Moved(saved_prop_values, prop_values, p) \in [Props -> Values \cup {Absent}]
    BY <1>t, ZeroIsAValue DEF Moved, ValueOf
  <2>2b. /\ props' \in [Props -> Hooks \cup {Absent}]
         /\ saved_props' \in [Props -> Hooks \cup {Absent}]
    BY <2>1, <1>t DEF configure_rest
  <2>2c. /\ prop_values' \in [Props -> Values \cup {Absent}]
         /\ saved_prop_values' \in [Props -> Values \cup {Absent}]
    BY <2>1, <2>2a, <1>t DEF configure_rest
  <2>2. TypeOK'
    BY <2>1, <2>2b, <2>2c, <1>t, <1>d DEF configure_rest
  <2>3. p \notin disturbed => /\ OneTable(p)
                             /\ (masks[p] # Absent <=> Exists(p) /\ p \notin restored)
    BY <1>t DEF TablesAgree
  <2>4. p \notin disturbed' =>
               /\ p \notin disturbed
               /\ OneTable(p)'
               /\ (masks'[p] # Absent <=> Exists(p)' /\ p \notin restored')
               /\ props'[p] # Absent => prop_values'[p] = written'[p]
               /\ saved_props'[p] # Absent => saved_prop_values'[p] = written'[p]
               /\ masks'[p] # Absent => masks'[p] \cap Living = masked'[p] \cap Living
    BY <2>1, <2>3, <1>t, <1>c, <1>d, ZeroIsAValue
       DEF configure_rest, OneTable, Exists, LastWriteStays, Moved, ValueOf
  <2>5. /\ \A q \in Props \ {p} :
             /\ props'[q] = props[q] /\ saved_props'[q] = saved_props[q]
             /\ prop_values'[q] = prop_values[q]
             /\ saved_prop_values'[q] = saved_prop_values[q]
             /\ masks'[q] = masks[q] /\ written'[q] = written[q]
             /\ masked'[q] = masked[q]
             /\ q \in restored' <=> q \in restored
        /\ calls' = stack /\ UNCHANGED alive
    BY <2>1, <1>t DEF configure_rest, Moved
  <2>6. /\ \A q \in Props \ {p} : q \in disturbed' <=> q \in disturbed
        /\ p \notin disturbed' => \A i \in DOMAIN stack : stack[i].prop # p
    BY <2>1, <1>d
  <2> HIDE DEF TypeOK
  <2> QED BY <2>2, <2>4, <2>5, <2>6, <1>a
<1>3. CASE c.op = "remove"
  <2> USE <1>3, AbsentIsNone DEF TypeOK
  <2>1. remove_rest(c, stack) /\ Disturb(p, stack)
    BY DEF RestOfCall, remove_rest
  <2>2. TypeOK'
    BY <2>1, <1>t, <1>d DEF remove_rest
  <2>3. p \notin disturbed => OneTable(p)
    BY <1>t DEF TablesAgree
  <2>4. p \notin disturbed' =>
               /\ p \notin disturbed
               /\ OneTable(p)'
               /\ (masks'[p] # Absent <=> Exists(p)' /\ p \notin restored')
               /\ props'[p] # Absent => prop_values'[p] = written'[p]
               /\ saved_props'[p] # Absent => saved_prop_values'[p] = written'[p]
               /\ masks'[p] # Absent => masks'[p] \cap Living = masked'[p] \cap Living
    BY <2>1, <2>3, <1>t, <1>c, <1>d DEF remove_rest, OneTable, Exists, check_prop
  <2>5. /\ \A q \in Props \ {p} :
             /\ props'[q] = props[q] /\ saved_props'[q] = saved_props[q]
             /\ prop_values'[q] = prop_values[q]
             /\ saved_prop_values'[q] = saved_prop_values[q]
             /\ masks'[q] = masks[q] /\ written'[q] = written[q]
             /\ masked'[q] = masked[q]
             /\ q \in restored' <=> q \in restored
        /\ calls' = stack /\ UNCHANGED alive
    BY <2>1, <1>t DEF remove_rest
  <2>6. /\ \A q \in Props \ {p} : q \in disturbed' <=> q \in disturbed
        /\ p \notin disturbed' => \A i \in DOMAIN stack : stack[i].prop # p
    BY <2>1, <1>d
  <2> HIDE DEF TypeOK
  <2> QED BY <2>2, <2>4, <2>5, <2>6, <1>a
<1>4. CASE c.op = "mask" /\ masks[p] # Absent
  <2> USE <1>4, AbsentIsNone DEF TypeOK
  <2>1. mask_rest(c, stack) /\ Disturb(p, stack)
    BY DEF RestOfCall, mask_rest
  <2>2a. masks[p] \in SUBSET Owners /\ masked[p] \in SUBSET Owners
    BY <1>4, <1>t
  <2>2b. /\ masks' = [masks EXCEPT ![p] = masks[p] \cup {c.owner}]
         /\ masked' = [masked EXCEPT ![p] = masked[p] \cup {c.owner}]
         /\ calls' = stack
         /\ UNCHANGED <<tables, alive, written, restored>>
    BY <2>1 DEF mask_rest
  <2>2c. /\ masks' \in [Props -> (SUBSET Owners) \cup {Absent}]
         /\ masked' \in [Props -> SUBSET Owners]
    BY <2>2a, <2>2b, <1>t
  <2>2. TypeOK'
    BY <2>1, <2>2b, <2>2c, <1>t, <1>d DEF tables
  <2>3. p \notin disturbed => /\ OneTable(p)
                             /\ (masks[p] # Absent <=> Exists(p) /\ p \notin restored)
    BY <1>t DEF TablesAgree
  <2>4. p \notin disturbed' =>
               /\ p \notin disturbed
               /\ OneTable(p)'
               /\ (masks'[p] # Absent <=> Exists(p)' /\ p \notin restored')
               /\ props'[p] # Absent => prop_values'[p] = written'[p]
               /\ saved_props'[p] # Absent => saved_prop_values'[p] = written'[p]
               /\ masks'[p] # Absent => masks'[p] \cap Living = masked'[p] \cap Living
    BY <2>1, <2>3, <1>t, <1>d DEF mask_rest, OneTable, Exists, LastWriteStays, tables
  <2> QED BY <2>1, <2>2, <2>4, <1>a, <1>d, <1>t DEF mask_rest, tables
<1>5. CASE c.op = "unmask" /\ masks[p] # Absent
  <2> USE <1>5, AbsentIsNone DEF TypeOK
  <2>1. unmask_rest(c, stack) /\ Disturb(p, stack)
    BY DEF RestOfCall, unmask_rest
  <2>2a. masks[p] \in SUBSET Owners /\ masked[p] \in SUBSET Owners
    BY <1>5, <1>t
  <2>2b. /\ masks' = [masks EXCEPT ![p] = (masks[p] \cap Living) \ {c.owner}]
         /\ masked' = [masked EXCEPT ![p] = masked[p] \ {c.owner}]
         /\ calls' = stack
         /\ UNCHANGED <<tables, alive, written, restored>>
    BY <2>1 DEF unmask_rest
  <2>2c. /\ masks' \in [Props -> (SUBSET Owners) \cup {Absent}]
         /\ masked' \in [Props -> SUBSET Owners]
    BY <2>2a, <2>2b, <1>t
  <2>2. TypeOK'
    BY <2>1, <2>2b, <2>2c, <1>t, <1>d DEF tables
  <2>3. p \notin disturbed => /\ OneTable(p)
                             /\ (masks[p] # Absent <=> Exists(p) /\ p \notin restored)
    BY <1>t DEF TablesAgree
  <2>4. p \notin disturbed' =>
               /\ p \notin disturbed
               /\ OneTable(p)'
               /\ (masks'[p] # Absent <=> Exists(p)' /\ p \notin restored')
               /\ props'[p] # Absent => prop_values'[p] = written'[p]
               /\ saved_props'[p] # Absent => saved_prop_values'[p] = written'[p]
               /\ masks'[p] # Absent => masks'[p] \cap Living = masked'[p] \cap Living
    BY <2>1, <2>3, <1>t, <1>d DEF unmask_rest, OneTable, Exists, LastWriteStays, tables
  <2> QED BY <2>1, <2>2, <2>4, <1>a, <1>d, <1>t DEF unmask_rest, tables
<1>6. CASE c.op = "query" /\ masks[p] # Absent
  <2> DEFINE d == [Request("masks", p) EXCEPT !.seen = masks[p]]
  <2>1. /\ calls' = Append(stack, d)
        /\ UNCHANGED <<tables, masks, alive, ghosts>>
    BY <1>6 DEF RestOfCall, query_rest
  <2>2. masks[p] \in SUBSET Owners
    BY <1>6, <1>t DEF TypeOK
  <2>3. /\ d \in Requests
        /\ d.prop = p /\ d.checked = check_prop(p) /\ d.seen = masks[p]
    BY <2>2, ZeroIsAValue DEF Requests, Request, check_prop, Hooks, Owners
  <2>5. StillCurrent(d)
    BY <2>3, <1>6, <1>t, <1>c DEF StillCurrent, LastWriteStays
  <2>6. /\ calls' \in Seq(Requests)
        /\ \A i \in DOMAIN calls' : StillCurrent(calls'[i])
    BY <2>1, <2>3, <2>5
  <2> QED BY <2>1, <2>6, CallsOnly
<1>7. CASE c.op \in {"mask", "unmask", "query"} /\ masks[p] = Absent
  <2>1. Error(stack)
    BY <1>7 DEF RestOfCall, mask_rest, unmask_rest, query_rest
  <2> QED BY <2>1, ErrorKeeps
<1> QED BY <1>1, <1>2, <1>3, <1>4, <1>5, <1>6, <1>7 DEF RestOfCall

\* What a call makes of its hook's consent, refusal or absence.
LEMMA TryKeeps ==
  ASSUME MixinInv, NEW p \in Props, NEW c \in Requests, NEW by, Exists(p),
         c.prop = p, c.checked = check_prop(p), c.op # "masks", Try(c, by)
  PROVE  MixinInv'
<1>1. StillCurrent(c)
  BY RequestIsCurrent
<1>2. calls \in Seq(Requests) /\ \A i \in DOMAIN calls : StillCurrent(calls[i])
  BY DEF MixinInv, TypeOK, CallsCurrent
<1>3. CASE RestOfCall(c, calls)
  BY <1>1, <1>2, <1>3, RestKeeps
<1>4. CASE Error(calls)
  BY <1>2, <1>4, ErrorKeeps
<1>5. CASE calls' = Append(calls, c) /\ UNCHANGED <<tables, masks, alive, ghosts>>
  <2>1. /\ calls' \in Seq(Requests)
        /\ \A i \in DOMAIN calls' : StillCurrent(calls'[i])
    BY <1>1, <1>2, <1>5
  <2> QED BY <2>1, <1>5, CallsOnly
<1> QED BY <1>3, <1>4, <1>5 DEF Try

\* The methods of hooks are hooks.
LEMMA MungedIsHook ==
  ASSUME NEW method \in Methods, NEW by \in Owners
  PROVE  munge_method(method, by) \in Hooks
BY DEF Methods, munge_method, Hooks, Owners

\* Requests are requests.
LEMMA RequestType ==
  ASSUME NEW p \in Props, NEW op \in {"set", "configure", "remove", "mask", "unmask", "query"}
  PROVE  /\ Request(op, p) \in Requests
         /\ Request(op, p).prop = p /\ Request(op, p).op = op
         /\ Request(op, p).checked = check_prop(p)
BY ZeroIsAValue DEF Request, Requests, Hooks, Owners, check_prop

LEMMA MixinStepInv == MixinInv /\ [Next]_vars => MixinInv'
<1> SUFFICES ASSUME MixinInv, [Next]_vars PROVE MixinInv'
  OBVIOUS
<1>t. TypeOK /\ TablesAgree /\ LastWriteStays /\ CallsCurrent
  BY DEF MixinInv
<1>l. Callers \subseteq Owners /\ Living \subseteq Owners
  BY <1>t DEF Callers, Living, Owners, TypeOK
<1>1. ASSUME NEW p \in Props, InitProp(p) \/ SetNew(p) PROVE MixinInv'
  <2>0. PICK to \in {"nosave", "saved"}, hook \in Hooks, value \in Values :
          \/ init_prop(p, to, hook) /\ value = Zero
          \/ SetNew(p) /\ to = "saved" /\ hook = NoHook /\ saved_prop_values'[p] = value
    <3>1. CASE InitProp(p)
      BY <1>1, <3>1, <1>l, MungedIsHook, ZeroIsAValue DEF InitProp
    <3>2. CASE SetNew(p)
      BY <1>1, <3>2, <1>t DEF SetNew, Hooks, TypeOK
    <3> QED BY <1>1, <3>1, <3>2
  <2>1. /\ ~Exists(p)
        /\ \/ /\ to = "nosave"
              /\ props' = [props EXCEPT ![p] = hook]
              /\ prop_values' = [prop_values EXCEPT ![p] = value]
              /\ UNCHANGED <<saved_props, saved_prop_values>>
           \/ /\ to = "saved"
              /\ saved_props' = [saved_props EXCEPT ![p] = hook]
              /\ saved_prop_values' = [saved_prop_values EXCEPT ![p] = value]
              /\ UNCHANGED <<props, prop_values>>
        /\ masks' = [masks EXCEPT ![p] = {}]
        /\ written' = [written EXCEPT ![p] = value]
        /\ masked' = [masked EXCEPT ![p] = {}]
        /\ restored' = restored \ {p}
        /\ UNCHANGED <<alive, calls, disturbed>>
    BY <2>0, <1>t DEF init_prop, SetNew, TypeOK
  <2>2. TypeOK'
    BY <2>1, <1>t DEF TypeOK
  <2>3. /\ props[p] = Absent /\ saved_props[p] = Absent
        /\ p \notin disturbed =>
             prop_values[p] = Absent /\ saved_prop_values[p] = Absent
    BY <2>1, <1>t DEF Exists, TablesAgree, OneTable
  <2>4. /\ OneTable(p)' \/ p \in disturbed
        /\ Exists(p)' /\ masks'[p] = {} /\ masked'[p] = {} /\ written'[p] = value
        /\ p \notin restored' /\ {} # Absent
        /\ p \notin disturbed =>
             /\ props'[p] # Absent => prop_values'[p] = value
             /\ saved_props'[p] # Absent => saved_prop_values'[p] = value
    BY <2>1, <2>3, <1>t, AbsentIsNone DEF OneTable, Exists, TypeOK
  <2>5. \A q \in Props \ {p} :
          /\ props'[q] = props[q] /\ saved_props'[q] = saved_props[q]
          /\ prop_values'[q] = prop_values[q]
          /\ saved_prop_values'[q] = saved_prop_values[q]
          /\ masks'[q] = masks[q] /\ written'[q] = written[q]
          /\ masked'[q] = masked[q]
          /\ q \in restored' <=> q \in restored
          /\ OneTable(q)' <=> OneTable(q)
          /\ Exists(q)' <=> Exists(q)
          /\ check_prop(q)' = check_prop(q)
    BY <2>1, <1>t DEF TypeOK, OneTable, Exists, check_prop
  <2>6. TablesAgree'
    BY <2>1, <2>4, <2>5, <1>t DEF TablesAgree
  <2>7. LastWriteStays'
    BY <2>1, <2>4, <2>5, <1>t DEF LastWriteStays, Living
  <2>8. CallsCurrent'
    <3> SUFFICES ASSUME NEW i \in DOMAIN calls PROVE StillCurrent(calls[i])'
      BY <2>1 DEF CallsCurrent
    <3>1. calls[i] \in Requests
      BY <1>t DEF TypeOK
    <3>2. calls[i].prop \in Props /\ StillCurrent(calls[i])
      BY <3>1, <1>t DEF Requests, CallsCurrent
    <3>3. CASE calls[i].prop = p
      BY <2>1, <3>2, <3>3 DEF StillCurrent
    <3>4. CASE calls[i].prop # p
      BY <2>1, <2>5, <3>2, <3>4 DEF StillCurrent, Living
    <3> QED BY <3>3, <3>4
  <2> QED BY <2>2, <2>6, <2>7, <2>8 DEF MixinInv
<1>2. ASSUME NEW p \in Props,
             \/ set_prop(p) \/ configure_prop(p) \/ query_prop(p)
             \/ remove_prop(p) \/ mask_prop(p) \/ unmask_prop(p)
      PROVE  MixinInv'
  <2> USE <1>l, RequestType
  <2>1. CASE set_prop(p)
    <3>1. PICK by \in Callers, value \in Values :
            Exists(p) /\ Try([Request("set", p) EXCEPT !.value = value], by)
      BY <2>1 DEF set_prop
    <3> DEFINE c == [Request("set", p) EXCEPT !.value = value]
    <3>2. c \in Requests /\ c.prop = p /\ c.checked = check_prop(p) /\ c.op = "set"
      BY DEF Requests
    <3> QED BY <3>1, <3>2, TryKeeps
  <2>2. CASE configure_prop(p)
    <3>1. PICK by \in Callers, to \in {"nosave", "saved"}, method \in Methods :
            /\ Exists(p)
            /\ Try([Request("configure", p) EXCEPT
                      !.config = [to |-> to, hook |-> munge_method(method, by)]], by)
      BY <2>2 DEF configure_prop
    <3> DEFINE hook == munge_method(method, by)
               c == [Request("configure", p) EXCEPT !.config = [to |-> to, hook |-> hook]]
    <3>2. hook \in Hooks
      BY MungedIsHook
    <3>3. c \in Requests /\ c.prop = p /\ c.checked = check_prop(p)
          /\ c.op = "configure"
      BY <3>2 DEF Requests
    <3> QED BY <3>1, <3>3, TryKeeps
  <2>3. CASE query_prop(p)
    BY <2>3, TryKeeps DEF query_prop
  <2>4. CASE remove_prop(p)
    BY <2>4, TryKeeps DEF remove_prop
  <2>5. CASE mask_prop(p)
    <3>1. PICK by \in Callers : \E owner \in MaskOwners(by) :
            /\ Exists(p)
            /\ \/ Error(calls)
               \/ Try([Request("mask", p) EXCEPT !.owner = owner], by)
      BY <2>5 DEF mask_prop
    <3>2. PICK owner \in MaskOwners(by) :
            /\ Exists(p)
            /\ \/ Error(calls)
               \/ Try([Request("mask", p) EXCEPT !.owner = owner], by)
      BY <3>1
    <3> DEFINE c == [Request("mask", p) EXCEPT !.owner = owner]
    <3>3. owner \in Owners
      BY <1>t DEF MaskOwners, TypeOK, Owners
    <3>4. c \in Requests /\ c.prop = p /\ c.checked = check_prop(p) /\ c.op = "mask"
      BY <3>3 DEF Requests
    <3>5. calls \in Seq(Requests) /\ \A i \in DOMAIN calls : StillCurrent(calls[i])
      BY <1>t DEF TypeOK, CallsCurrent
    <3> QED BY <3>2, <3>4, <3>5, TryKeeps, ErrorKeeps
  <2>6. CASE unmask_prop(p)
    <3>1. PICK by \in Callers, owner \in Living :
            Exists(p) /\ Try([Request("unmask", p) EXCEPT !.owner = owner], by)
      BY <2>6 DEF unmask_prop
    <3> DEFINE c == [Request("unmask", p) EXCEPT !.owner = owner]
    <3>2. c \in Requests /\ c.prop = p /\ c.checked = check_prop(p) /\ c.op = "unmask"
      BY DEF Requests
    <3> QED BY <3>1, <3>2, TryKeeps
  <2> QED BY <1>2, <2>1, <2>2, <2>3, <2>4, <2>5, <2>6
<1>3. ASSUME NEW o \in Objects, Destruct(o) PROVE MixinInv'
  <2>1. /\ alive' = alive \ {o} /\ Living' \subseteq Living
        /\ UNCHANGED <<props, saved_props, prop_values, saved_prop_values, masks,
                       calls, written, masked, restored, disturbed>>
    BY <1>3 DEF Destruct, Living, tables, ghosts
  <2>2. TypeOK'
    BY <2>1, <1>t DEF TypeOK
  <2>3. TablesAgree'
    BY <2>1, <1>t DEF TablesAgree, OneTable, Exists
  <2>4. LastWriteStays'
    BY <2>1, <1>t DEF LastWriteStays
  <2>5. CallsCurrent'
    BY <2>1, <1>t DEF CallsCurrent, StillCurrent, Exists, check_prop
  <2> QED BY <2>2, <2>3, <2>4, <2>5 DEF MixinInv
<1>s. ASSUME calls # <<>>
      PROVE  /\ Stack \in Seq(Requests) /\ Last(calls) \in Requests
             /\ StillCurrent(Last(calls))
             /\ \A i \in DOMAIN Stack : StillCurrent(Stack[i])
  <2>1. calls \in Seq(Requests) /\ \A i \in DOMAIN calls : StillCurrent(calls[i])
    BY <1>t DEF TypeOK, CallsCurrent
  <2> QED BY <1>s, <2>1, FrontOfCalls DEF Stack
<1>4. CASE Answer
  <2>1. CASE RestOfCall(Last(calls), Stack)
    BY <1>4, <1>s, <2>1, RestKeeps DEF Answer
  <2>2. CASE Error(Stack)
    BY <1>4, <1>s, <2>2, ErrorKeeps DEF Answer
  <2>3. CASE calls' = Stack /\ UNCHANGED <<tables, masks, alive, ghosts>>
    BY <1>4, <1>s, <2>3, CallsOnly DEF Answer
  <2> QED BY <1>4, <2>1, <2>2, <2>3 DEF Answer
<1>5. CASE MasksRun
  <2>1. CASE Error(Stack)
    BY <1>5, <1>s, <2>1, ErrorKeeps DEF MasksRun
  <2>2. ASSUME NEW kept \in SUBSET Last(calls).seen,
               Last(calls).seen \cap Living \subseteq kept,
               masks' = [masks EXCEPT ![Last(calls).prop] = kept],
               calls' = Stack, UNCHANGED <<tables, alive, ghosts>>
        PROVE  MixinInv'
    <3> DEFINE c == Last(calls)
               p == c.prop
    <3> USE DEF tables, ghosts
    <3>1. calls # <<>> /\ c.op = "masks"
      BY <1>5 DEF MasksRun
    <3>2. c \in Requests /\ p \in Props /\ c.seen \subseteq Owners /\ StillCurrent(c)
      BY <3>1, <1>s DEF Requests
    <3>3. Living' = Living
      BY <2>2 DEF Living
    <3>4. p \notin disturbed =>
            /\ Exists(p) /\ masks[p] # Absent
            /\ kept \cap Living = masked[p] \cap Living
      BY <3>1, <3>2, <2>2 DEF StillCurrent
    <3>5. kept \in SUBSET Owners /\ kept # Absent
      BY <3>2, AbsentIsNone
    <3>6. TypeOK'
      BY <2>2, <3>2, <3>5, <1>t, <1>s, <3>1 DEF TypeOK
    <3>7. /\ masks'[p] = kept
          /\ \A q \in Props \ {p} : masks'[q] = masks[q]
      BY <2>2, <3>2, <1>t DEF TypeOK
    <3>8. TablesAgree'
      BY <2>2, <3>4, <3>5, <3>7, <1>t DEF TablesAgree, OneTable, Exists
    <3>9. LastWriteStays'
      BY <2>2, <3>3, <3>4, <3>5, <3>7, <1>t DEF LastWriteStays
    <3>10. CallsCurrent'
      <4>1. PICK rest \in Seq(Requests) :
              calls' = rest /\ \A i \in DOMAIN rest : StillCurrent(rest[i])
        BY <2>2, <3>1, <1>s
      <4> SUFFICES ASSUME NEW i \in DOMAIN rest PROVE StillCurrent(rest[i])'
        BY <4>1 DEF CallsCurrent
      <4>2. rest[i] \in Requests /\ StillCurrent(rest[i])
        BY <4>1
      <4>3. rest[i].prop \in Props
        BY <4>2 DEF Requests
      <4>4. masks[rest[i].prop] # Absent => masks'[rest[i].prop] # Absent
        BY <4>3, <3>5, <3>7
      <4> QED BY <2>2, <4>2, <4>4, <3>3 DEF StillCurrent, Exists, check_prop
    <3> QED BY <3>6, <3>8, <3>9, <3>10 DEF MixinInv
  <2> QED BY <1>5, <2>1, <2>2 DEF MasksRun
<1>6. CASE Restore
  <2>1. /\ \A p \in Props :
             /\ props'[p] = Absent /\ prop_values'[p] = Absent /\ masks'[p] = Absent
             /\ saved_props'[p] = Unsaved(saved_props[p])
             /\ saved_prop_values'[p] = saved_prop_values[p]
             /\ p \in restored' <=> saved_props[p] # Absent
             /\ saved_props'[p] = Absent <=> saved_props[p] = Absent
    BY <1>6, AbsentIsNone DEF Restore, Unsaved, Hooks
  <2>2. TypeOK'
    <3>1. \A p \in Props : Unsaved(saved_props[p]) \in Hooks \cup {Absent}
      BY <1>t DEF TypeOK, Unsaved, Hooks
    <3> QED BY <1>6, <1>t, <3>1 DEF Restore, TypeOK
  <2>3. TablesAgree'
    BY <1>6, <1>t, <2>1 DEF Restore, TablesAgree, OneTable, Exists
  <2>4. LastWriteStays'
    BY <1>6, <1>t, <2>1 DEF Restore, LastWriteStays
  <2>5. CallsCurrent'
    BY <1>6 DEF Restore, CallsCurrent
  <2> QED BY <2>2, <2>3, <2>4, <2>5 DEF MixinInv
<1>7. CASE UNCHANGED vars
  BY <1>7, <1>t, CallsOnly DEF vars, TypeOK, CallsCurrent
<1> QED BY <1>1, <1>2, <1>3, <1>4, <1>5, <1>6, <1>7 DEF Next
-----------------------------------------------------------------------------
\* Type correctness.
THEOREM TypeCorrect == Spec => []TypeOK
<1>1. MixinInv => TypeOK
  BY DEF MixinInv
<1> QED BY MixinInitInv, MixinStepInv, <1>1, PTL DEF Spec

\* Whatever hooks, masks, errors and restarts do, a property that none of them
\* changes in the middle of a call on it is in one table, with its value and,
\* if it was not restored, with its masks (property.c:210).
THEOREM TablesAlwaysAgree == Spec => []TablesAgree
<1>1. MixinInv => TablesAgree
  BY DEF MixinInv
<1> QED BY MixinInitInv, MixinStepInv, <1>1, PTL DEF Spec

\* The value of such a property is what was set last, and its living masks are
\* those that were added and not removed since.
THEOREM LastWriteAlwaysStays == Spec => []LastWriteStays
<1>1. MixinInv => LastWriteStays
  BY DEF MixinInv
<1> QED BY MixinInitInv, MixinStepInv, <1>1, PTL DEF Spec

-----------------------------------------------------------------------------
(***************************************************************************)
(* Proof about Logger: messages reach their targets, for any programs,     *)
(* lines and users.  The property speaks of a message that has ended; the  *)
(* invariant says of one on its way that it has reached all the targets    *)
(* before the next, and that `hushed` is what the mapping mutes.           *)
(***************************************************************************)
MessageOK ==
  /\ DOMAIN message = {"at", "targets", "reached", "lost", "due"}
  /\ message.at \in 0..3 /\ message.targets \in Outputs
  /\ message.lost \in BOOLEAN /\ message.due \in BOOLEAN

MutedIsHushed ==
  /\ DOMAIN muted \subseteq LoggedPrograms
  /\ \A p \in DOMAIN muted : muted[p] = All \/ muted[p] \subseteq LoggedLines
  /\ hushed \subseteq LoggedPrograms \X LoggedLines
  /\ \A p \in LoggedPrograms, l \in LoggedLines : <<p, l>> \in hushed <=> is_muted(p, l)

OnItsWay ==
  message.at > 0 =>
    /\ logging /\ message.due /\ ~message.lost
    /\ message.at <= Len(message.targets) + 1
    /\ message.reached = 1..(message.at - 1)

LoggerInv ==
  /\ level \in Levels \cup {"DEBUG"} /\ output \in Outputs
  /\ logging \in BOOLEAN /\ failed \in BOOLEAN /\ MessageOK
  /\ MutedIsHushed /\ OnItsWay /\ MessagesReachTargets
-----------------------------------------------------------------------------
LEMMA NextInterval ==
  ASSUME NEW n \in 1..2
  PROVE  1..(n - 1) \cup {n} = 1..(n + 1 - 1)
<1>1. CASE n = 1
  BY <1>1
<1>2. CASE n = 2
  BY <1>2
<1> QED BY <1>1, <1>2

LEMMA LoggerInitInv == LoggerInit => LoggerInv
<1> SUFFICES ASSUME LoggerInit PROVE LoggerInv
  OBVIOUS
<1>1. MessageOK /\ OnItsWay /\ MessagesReachTargets
  BY DEF LoggerInit, MessageOK, OnItsWay, MessagesReachTargets, Outputs
<1>2. MutedIsHushed
  BY DEF LoggerInit, MutedIsHushed, is_muted
<1> QED BY <1>1, <1>2 DEF LoggerInit, LoggerInv, Outputs

\* Muting keeps the record of what is hushed: what is muted of the program at
\* hand is what is hushed of it, and nothing changes for the others.
LEMMA MutedAnew ==
  ASSUME MutedIsHushed, NEW program \in LoggedPrograms, NEW some,
         some = All \/ some \subseteq LoggedLines,
         muted' = Mutes(program, some),
         hushed' \subseteq LoggedPrograms \X LoggedLines,
         \A l \in LoggedLines : <<program, l>> \in hushed' <=> some = All \/ l \in some,
         \A p \in LoggedPrograms \ {program}, l \in LoggedLines :
           <<p, l>> \in hushed' <=> <<p, l>> \in hushed
  PROVE  MutedIsHushed'
<1>1. DOMAIN muted' = DOMAIN muted \cup {program}
  BY DEF Mutes
<1>2. muted'[program] = some
  BY DEF Mutes
<1>3. \A p \in DOMAIN muted \ {program} : muted'[p] = muted[p]
  BY DEF Mutes
<1>4. DOMAIN muted' \subseteq LoggedPrograms
  BY <1>1 DEF MutedIsHushed
<1>5. \A p \in DOMAIN muted' : muted'[p] = All \/ muted'[p] \subseteq LoggedLines
  BY <1>1, <1>2, <1>3 DEF MutedIsHushed
<1>6. ASSUME NEW p \in LoggedPrograms, NEW l \in LoggedLines
      PROVE  <<p, l>> \in hushed' <=> p \in DOMAIN muted' /\ (muted'[p] = All \/ l \in muted'[p])
  <2>1. CASE p = program
    BY <1>1, <1>2, <2>1
  <2>2. CASE p # program
    <3>1. <<p, l>> \in hushed' <=> <<p, l>> \in hushed
      BY <2>2
    <3>2. <<p, l>> \in hushed <=> p \in DOMAIN muted /\ (muted[p] = All \/ l \in muted[p])
      BY DEF MutedIsHushed, is_muted
    <3> QED BY <1>1, <1>3, <2>2, <3>1, <3>2
  <2> QED BY <2>1, <2>2
<1> QED BY <1>4, <1>5, <1>6 DEF MutedIsHushed, is_muted

LEMMA MuteKeeps ==
  ASSUME LoggerInv, NEW euid \in Euids, NEW program \in LoggedPrograms,
         NEW line \in LoggedLines \cup {0}, mute(euid, program, line)
  PROVE  MutedIsHushed'
<1>1. MutedIsHushed
  BY DEF LoggerInv
<1>2. CASE line = 0
  <2>1. muted' = Mutes(program, All) /\ hushed' = hushed \cup {program} \X LoggedLines
    BY <1>2 DEF mute
  <2>2. /\ hushed' \subseteq LoggedPrograms \X LoggedLines
        /\ \A l \in LoggedLines : <<program, l>> \in hushed'
        /\ \A p \in LoggedPrograms \ {program}, l \in LoggedLines :
             <<p, l>> \in hushed' <=> <<p, l>> \in hushed
    BY <1>1, <2>1 DEF MutedIsHushed
  <2> QED BY <1>1, <2>1, <2>2, MutedAnew
<1>3. CASE line # 0
  <2> DEFINE some == WithLine(program, line)
  <2>1. line \in LoggedLines
    BY <1>3
  <2>2. muted' = Mutes(program, some) /\ hushed' = hushed \cup {<<program, line>>}
    BY <1>3 DEF mute
  <2>3. some = All \/ some \subseteq LoggedLines
    BY <1>1, <2>1 DEF MutedIsHushed, WithLine
  <2>4. hushed' \subseteq LoggedPrograms \X LoggedLines
    BY <1>1, <2>1, <2>2 DEF MutedIsHushed
  <2>5. \A p \in LoggedPrograms \ {program}, l \in LoggedLines :
          <<p, l>> \in hushed' <=> <<p, l>> \in hushed
    BY <2>2
  <2>6. \A l \in LoggedLines : <<program, l>> \in hushed' <=> l = line \/ is_muted(program, l)
    BY <1>1, <2>2 DEF MutedIsHushed
  <2>7. \A l \in LoggedLines : l = line \/ is_muted(program, l) <=> some = All \/ l \in some
    BY <1>1, <2>1, NumbersAndNames DEF MutedIsHushed, WithLine, is_muted, All
  <2> HIDE DEF some
  <2> QED BY <1>1, <2>2, <2>3, <2>4, <2>5, <2>6, <2>7, MutedAnew
<1> QED BY <1>2, <1>3

LEMMA UnmuteKeeps ==
  ASSUME LoggerInv, NEW euid \in Euids, NEW program \in LoggedPrograms,
         NEW bare \in BOOLEAN, NEW line \in LoggedLines \cup {0},
         unmute(euid, program, bare, line)
  PROVE  MutedIsHushed'
<1>1. MutedIsHushed /\ program \in DOMAIN muted
  BY DEF LoggerInv, unmute
<1>2. CASE line = 0
  <2>1. /\ DOMAIN muted' = DOMAIN muted \ {program}
        /\ \A p \in DOMAIN muted' : muted'[p] = muted[p]
        /\ hushed' = hushed \ ({program} \X LoggedLines)
    BY <1>2 DEF unmute
  <2>2. \A p \in LoggedPrograms, l \in LoggedLines :
          <<p, l>> \in hushed' <=> p # program /\ <<p, l>> \in hushed
    BY <2>1
  <2> QED BY <1>1, <2>1, <2>2 DEF MutedIsHushed, is_muted
<1>3. CASE line # 0
  <2> DEFINE some == muted[program] \ {line}
  <2>1. line \in LoggedLines /\ muted[program] # All
    BY <1>3 DEF unmute
  <2>2. muted' = Mutes(program, some) /\ hushed' = hushed \ {<<program, line>>}
    BY <1>3 DEF unmute
  <2>3. muted[program] \subseteq LoggedLines /\ some \subseteq LoggedLines
    BY <1>1, <2>1 DEF MutedIsHushed
  <2>4. some # All
    BY <2>3, NumbersAndNames DEF All
  <2>5. hushed' \subseteq LoggedPrograms \X LoggedLines
    BY <1>1, <2>2 DEF MutedIsHushed
  <2>6. \A p \in LoggedPrograms \ {program}, l \in LoggedLines :
          <<p, l>> \in hushed' <=> <<p, l>> \in hushed
    BY <2>2
  <2>7. \A l \in LoggedLines : <<program, l>> \in hushed <=> l \in muted[program]
    BY <1>1, <2>1 DEF MutedIsHushed, is_muted
  <2>8. \A l \in LoggedLines : <<program, l>> \in hushed' <=> l \in some
    BY <2>2, <2>7
  <2> HIDE DEF some
  <2> QED BY <1>1, <2>2, <2>3, <2>4, <2>5, <2>6, <2>8, MutedAnew
<1> QED BY <1>2, <1>3

\* A message is due exactly if log() lets it pass.
LEMMA DueIfPassing ==
  ASSUME MutedIsHushed, NEW priority, NEW caller \in CallSites
  PROVE  Message(priority, caller, output).due
           <=> is_enabled(priority) /\ ~is_muted(parse_program(caller), caller.line)
<1>1. Message(priority, caller, output).due
        <=> /\ is_enabled(priority)
            /\ caller.inherited \/ <<caller.program, caller.line>> \notin hushed
  BY DEF Message, is_enabled
<1>2. CASE caller.inherited
  <2>1. ~is_muted(parse_program(caller), caller.line)
    BY <1>2, NumbersAndNames DEF MutedIsHushed, is_muted, parse_program
  <2> QED BY <1>1, <1>2, <2>1
<1>3. CASE ~caller.inherited
  <2>1. parse_program(caller) = caller.program
    BY <1>3 DEF parse_program
  <2>2. caller.program \in LoggedPrograms /\ caller.line \in LoggedLines
    BY DEF CallSites
  <2>3. <<caller.program, caller.line>> \in hushed <=> is_muted(caller.program, caller.line)
    BY <2>2 DEF MutedIsHushed
  <2> QED BY <1>1, <1>3, <2>1, <2>3
<1> QED BY <1>2, <1>3

LEMMA LogKeeps ==
  ASSUME LoggerInv, NEW zone, NEW priority, NEW caller \in CallSites,
         log(zone, priority, caller)
  PROVE  LoggerInv'
<1> DEFINE passes == is_enabled(priority) /\ ~is_muted(parse_program(caller), caller.line)
<1>1. Message(priority, caller, output).due <=> passes
  BY DueIfPassing DEF LoggerInv
<1>2. Message(priority, caller, output).due \in BOOLEAN
  BY DEF Message
<1>3. MutedIsHushed'
  BY DEF LoggerInv, log, MutedIsHushed, is_muted
<1>4. output \in Outputs /\ logging \in BOOLEAN /\ Len(output) \in Nat
  BY DEF LoggerInv, Outputs
<1>5. UNCHANGED <<level, output, failed>> /\ message.at = 0
  BY DEF log
<1>6. CASE passes /\ ~logging
  <2>1. message' = Message(priority, caller, output) /\ logging' = TRUE
    BY <1>6 DEF log
  <2>2. /\ message'.at = 1 /\ message'.targets = output /\ message'.reached = {}
        /\ ~message'.lost /\ MessageOK'
    BY <1>2, <1>4, <2>1 DEF Message, MessageOK
  <2>3. OnItsWay' /\ MessagesReachTargets'
    BY <1>1, <1>4, <1>6, <2>1, <2>2 DEF OnItsWay, MessagesReachTargets
  <2> QED BY <1>3, <1>5, <2>1, <2>2, <2>3 DEF LoggerInv
<1>7. CASE ~(passes /\ ~logging)
  <2>1. /\ message' = [Ended(Message(priority, caller, output)) EXCEPT !.lost = logging]
        /\ logging' = logging
    BY <1>7 DEF log
  <2>2. /\ message'.at = 0 /\ message'.targets = output /\ message'.reached = {}
        /\ message'.lost = logging /\ MessageOK'
        /\ message'.due = Message(priority, caller, output).due
    BY <1>2, <1>4, <2>1 DEF Message, Ended, MessageOK
  <2>3. logging => failed
    BY <1>5 DEF LoggerInv, MessagesReachTargets
  <2>4. OnItsWay' /\ MessagesReachTargets'
    BY <1>1, <1>4, <1>5, <1>7, <2>1, <2>2, <2>3 DEF OnItsWay, MessagesReachTargets
  <2> QED BY <1>3, <1>5, <2>1, <2>2, <2>4 DEF LoggerInv
<1> QED BY <1>6, <1>7

\* One more target is reached.
LEMMA TargetKeeps ==
  ASSUME LoggerInv, message.at \in 1..2, message.at <= Len(message.targets),
         message' = [message EXCEPT !.at = @ + 1, !.reached = @ \cup {message.at}],
         UNCHANGED <<level, output, muted, logging, hushed, failed>>
  PROVE  LoggerInv'
<1>1. MutedIsHushed'
  BY DEF LoggerInv, MutedIsHushed, is_muted
<1>2. MessageOK
  BY DEF LoggerInv
<1>3. /\ message'.at = message.at + 1 /\ message'.targets = message.targets
      /\ message'.reached = message.reached \cup {message.at}
      /\ message'.lost = message.lost /\ message'.due = message.due
      /\ MessageOK'
  BY <1>2 DEF MessageOK
<1>4. Len(message.targets) \in Nat
  BY <1>2 DEF MessageOK, Outputs
<1>5. 1..(message.at - 1) \cup {message.at} = 1..(message.at + 1 - 1)
  BY NextInterval
<1>6. OnItsWay'
  <2>1. /\ logging /\ message.due /\ ~message.lost
        /\ message.reached = 1..(message.at - 1)
    BY DEF LoggerInv, OnItsWay
  <2>2. message'.reached = 1..(message'.at - 1)
    BY <1>3, <1>5, <2>1
  <2>3. message'.at <= Len(message'.targets) + 1
    BY <1>3, <1>4
  <2> QED BY <1>3, <2>1, <2>2, <2>3 DEF OnItsWay
<1>7. MessagesReachTargets'
  BY <1>3 DEF MessagesReachTargets
<1>8. UNCHANGED <<level, output, logging, failed>>
  OBVIOUS
<1> QED BY <1>1, <1>3, <1>6, <1>7, <1>8 DEF LoggerInv

\* The message ends: at its last target, or by an error.
LEMMA EndKeeps ==
  ASSUME LoggerInv, message.at > 0, message' = Ended(message),
         UNCHANGED <<level, output, muted, hushed>>, logging' \in BOOLEAN,
         \/ message.at > Len(message.targets) /\ failed' = failed /\ logging' = FALSE
         \/ failed' = TRUE
  PROVE  LoggerInv'
<1>1. MutedIsHushed'
  BY DEF LoggerInv, MutedIsHushed, is_muted
<1>2. MessageOK /\ failed' \in BOOLEAN
  BY DEF LoggerInv
<1>3. /\ message'.at = 0 /\ message'.targets = message.targets
      /\ message'.reached = message.reached
      /\ message'.lost = message.lost /\ message'.due = message.due
      /\ MessageOK'
  BY <1>2 DEF MessageOK, Ended
<1>4. /\ Len(message.targets) \in Nat /\ message.at \in Nat
      /\ DOMAIN message.targets = 1..Len(message.targets)
  BY <1>2 DEF MessageOK, Outputs
<1>5. /\ message.due /\ ~message.lost
      /\ message.at <= Len(message.targets) + 1
      /\ message.reached = 1..(message.at - 1)
  BY DEF LoggerInv, OnItsWay
<1>6. message.at > Len(message.targets) => message.reached = DOMAIN message.targets
  <2>1. message.at > Len(message.targets) => message.at - 1 = Len(message.targets)
    BY <1>4, <1>5
  <2> QED BY <1>4, <1>5, <2>1
<1>7. MessagesReachTargets'
  BY <1>3, <1>5, <1>6 DEF MessagesReachTargets
<1>8. OnItsWay'
  BY <1>3 DEF OnItsWay
<1> QED BY <1>1, <1>2, <1>3, <1>7, <1>8 DEF LoggerInv

LEMMA LoggerStepInv ==
  ASSUME LoggerInv, [LoggerNext]_loggerVars
  PROVE  LoggerInv'
<1>1. ASSUME NEW euid \in Euids, NEW name \in Levels, set_level(euid, name) PROVE LoggerInv'
  BY <1>1 DEF LoggerInv, MessageOK, set_level, MutedIsHushed, is_muted, OnItsWay, MessagesReachTargets
<1>2. ASSUME NEW euid \in Euids, NEW targets \in Outputs, set_output(euid, targets)
      PROVE  LoggerInv'
  BY <1>2 DEF LoggerInv, MessageOK, set_output, MutedIsHushed, is_muted, OnItsWay, MessagesReachTargets
<1>3. ASSUME NEW euid \in Euids, NEW program \in LoggedPrograms, NEW line \in LoggedLines \cup {0},
             mute(euid, program, line)
      PROVE  LoggerInv'
  <2>1. UNCHANGED <<level, output, logging, message, failed>>
    BY <1>3 DEF mute
  <2> QED BY <1>3, <2>1, MuteKeeps DEF LoggerInv, MessageOK, OnItsWay, MessagesReachTargets
<1>4. ASSUME NEW euid \in Euids, NEW program \in LoggedPrograms, NEW line \in LoggedLines \cup {0},
             NEW bare \in BOOLEAN, unmute(euid, program, bare, line)
      PROVE  LoggerInv'
  <2>1. UNCHANGED <<level, output, logging, message, failed>>
    BY <1>4 DEF unmute
  <2> QED BY <1>4, <2>1, UnmuteKeeps DEF LoggerInv, MessageOK, OnItsWay, MessagesReachTargets
<1>5. ASSUME NEW zone \in LoggedZones, NEW priority \in Priorities, NEW caller \in CallSites,
             log(zone, priority, caller)
      PROVE  LoggerInv'
  BY <1>5, LogKeeps
<1>6. CASE console
  BY <1>6, TargetKeeps DEF console
<1>7. CASE file
  <2>1. CASE UNCHANGED failed /\ message' = [message EXCEPT !.at = @ + 1, !.reached = @ \cup {message.at}]
    BY <1>7, <2>1, TargetKeeps DEF file
  <2>2. CASE message' = Ended(message) /\ failed' = TRUE
    BY <1>7, <2>2, EndKeeps DEF file, LoggerInv
  <2> QED BY <1>7, <2>1, <2>2 DEF file
<1>8. CASE do_output_end
  BY <1>8, EndKeeps DEF do_output_end
<1>9. CASE UNCHANGED loggerVars
  BY <1>9 DEF loggerVars, LoggerInv, MessageOK, MutedIsHushed, is_muted, OnItsWay, MessagesReachTargets
<1> QED BY <1>1, <1>2, <1>3, <1>4, <1>5, <1>6, <1>7, <1>8, <1>9 DEF LoggerNext
-----------------------------------------------------------------------------
\* A message that is due reaches all its targets and others reach none, until a
\* file target has failed (logger.c:419), whoever configures the logger while
\* messages are on their way.
THEOREM MessagesAlwaysReachTargets == LoggerSpec => []MessagesReachTargets
<1>1. LoggerInv /\ [LoggerNext]_loggerVars => LoggerInv'
  BY LoggerStepInv
<1>2. LoggerInv => MessagesReachTargets
  BY DEF LoggerInv
<1> QED BY LoggerInitInv, <1>1, <1>2, PTL DEF LoggerSpec

-----------------------------------------------------------------------------
(***************************************************************************)
(* Proofs about RodneyClient, for queries of any length, cut in any way,   *)
(* over any number of lines.                                               *)
(*                                                                         *)
(* Answers reach those who asked: the property speaks of callbacks that    *)
(* were applied; the invariant says of every query in the queue, piece on  *)
(* its way to the ERQ and answer on a line that its transaction id is its  *)
(* own: nobody else's callback is filed under it.                          *)
(*                                                                         *)
(* Queries arrive in order: the queue, the piece that is under way and the *)
(* line agree how far the first query is sent, unless a line has broken:   *)
(* then the query starts over on the next.                                 *)
(***************************************************************************)
Tids == Nat \X Nat

AtMost(t, u) == t[1] < u[1] \/ (t[1] = u[1] /\ t[2] <= u[2])

\* Queries with transaction ids that are theirs.
Own ==
  {p \in (1..asked) \X Tids :
     /\ AtMost(p[2], last_transaction_id)
     /\ p[2] \in DOMAIN callbacks => callbacks[p[2]] = p[1]}

\* What is queued, requested and sent back, for queries in S and n lines.
Queued(S) == {q \in [of : Nat, tid : Tids, cursor : Int] : <<q.of, q.tid>> \in S}

Pieces == [header : BOOLEAN, from : Int, to : Int, move : Int]

Sends(S, n) ==
  {r \in [kind : {"send"}, ticket : 1..n, of : Nat, tid : Tids, piece : Pieces] :
     <<r.of, r.tid>> \in S}

ErqRequests(S, n) == [kind : {"open"}] \cup Sends(S, n)

Packets(S) == {p \in [of : Nat, tid : Tids, part : Int] : <<p.of, p.tid>> \in S}

Frames == [of : Int, have : Int]

LinesOf(S) == [open : BOOLEAN, frame : Frames, back : Seq(Packets(S))]

RodneyTypes ==
  /\ erq_ticket \in 0..Len(lines)
  /\ sending \in Int
  /\ last_transaction_id \in Tids
  /\ utime \in Nat /\ last_transaction_id[1] <= utime
  /\ asked \in Nat
  /\ applied \in Seq(Nat \X Nat)

\* The callbacks are filed under different ids for different queries, none of
\* which was applied.
Booking ==
  /\ \A t \in DOMAIN callbacks :
       t \in Tids /\ AtMost(t, last_transaction_id) /\ callbacks[t] \in 1..asked
  /\ \A t, u \in DOMAIN callbacks : callbacks[t] = callbacks[u] => t = u
  /\ \A i \in DOMAIN applied : applied[i][1] \in 1..asked
  /\ \A t \in DOMAIN callbacks, i \in DOMAIN applied : callbacks[t] # applied[i][1]

InOwn(S) ==
  /\ queue \in Seq(Queued(S))
  /\ requests \in Seq(ErqRequests(S, Len(lines)))
  /\ lines \in Seq(LinesOf(S))

RodneyInv == RodneyTypes /\ InOwn(Own) /\ Booking /\ AnswersReachAskers
-----------------------------------------------------------------------------
(* Facts about the parts of a step.                                        *)

LEMMA Grows ==
  ASSUME NEW S, NEW T, S \subseteq T, InOwn(S)
  PROVE  InOwn(T)
<1>1. Queued(S) \subseteq Queued(T)
  BY DEF Queued
<1>2. ErqRequests(S, Len(lines)) \subseteq ErqRequests(T, Len(lines))
  BY DEF ErqRequests, Sends
<1>3. Packets(S) \subseteq Packets(T)
  BY DEF Packets
<1>4. LinesOf(S) \subseteq LinesOf(T)
  BY <1>3 DEF LinesOf
<1> QED BY <1>1, <1>2, <1>4 DEF InOwn

LEMMA MoreLines ==
  ASSUME NEW S, NEW n \in Nat, NEW m \in Nat, n <= m
  PROVE  ErqRequests(S, n) \subseteq ErqRequests(S, m)
BY DEF ErqRequests, Sends

LEMMA PieceOK ==
  ASSUME NEW S, NEW out \in Queued(S)
  PROVE  Piece(out) \in Pieces
BY SizesAreNumbers DEF Queued, Piece, Pieces

LEMMA FlushKeeps ==
  ASSUME NEW S, NEW n \in Nat, NEW waiting \in Seq(ErqRequests(S, n)),
         NEW ticket \in 0..n, NEW q \in Seq(Queued(S)), NEW pending, NEW sent \in Int,
         flush_queue(waiting, ticket, q, pending, sent)
  PROVE  requests' \in Seq(ErqRequests(S, n)) /\ sending' \in Int
<1>1. CASE pending \/ ticket = 0 \/ q = <<>>
  BY <1>1 DEF flush_queue
<1>2. CASE ~(pending \/ ticket = 0 \/ q = <<>>)
  <2> DEFINE r == [kind |-> "send", ticket |-> ticket, of |-> Head(q).of,
                   tid |-> Head(q).tid, piece |-> Piece(Head(q))]
  <2>1. Head(q) \in Queued(S)
    BY <1>2
  <2>2. Piece(Head(q)) \in Pieces
    BY <2>1, PieceOK
  <2>3. r \in Sends(S, n)
    BY <1>2, <2>1, <2>2 DEF Sends, Queued
  <2>4. requests' = Append(waiting, r) /\ sending' = Piece(Head(q)).move
    BY <1>2 DEF flush_queue, Requested
  <2>5. r \in ErqRequests(S, n)
    BY <2>3 DEF ErqRequests
  <2>6. sending' \in Int
    BY <2>2, <2>4 DEF Pieces
  <2> HIDE DEF r
  <2> QED BY <2>4, <2>5, <2>6
<1> QED BY <1>1, <1>2

\* A piece is taken by a line: what comes back, if anything, is the answer to
\* the query that it is of.
LEMMA WrittenOK ==
  ASSUME NEW S, NEW n \in Nat, NEW line \in LinesOf(S), NEW r \in Sends(S, n),
         NEW header, NEW count \in Int
  PROVE  Written(line, r, header, count) \in LinesOf(S)
<1> DEFINE start == IF header /\ line.frame = Idle THEN [of |-> r.of, have |-> 0]
                      ELSE IF header THEN Garbled ELSE line.frame
           more == [of |-> r.of, have |-> start.have + count]
           answer == AnswerOf(r.of, r.tid)
<1>1. /\ line.open \in BOOLEAN /\ line.frame \in Frames /\ line.back \in Seq(Packets(S))
  BY DEF LinesOf
<1>2. r.of \in Nat /\ r.tid \in Tids /\ <<r.of, r.tid>> \in S
  BY DEF Sends
<1>3. start \in Frames
  BY <1>1, <1>2 DEF Frames, Garbled
<1>4. Garbled \in Frames /\ Idle \in Frames /\ more \in Frames
  BY <1>2, <1>3 DEF Frames, Garbled, Idle
<1>5. \A part \in 1..3 : answer[part] \in Packets(S)
  BY <1>2 DEF AnswerOf, Packets
<1>6. answer \in Seq(Packets(S))
  BY <1>5 DEF AnswerOf
<1>7. line.back \o answer \in Seq(Packets(S))
  BY <1>1, <1>6
<1>8. \A frame \in Frames : [line EXCEPT !.frame = frame] \in LinesOf(S)
  BY DEF LinesOf
<1>9. [line EXCEPT !.frame = Idle, !.back = @ \o answer] \in LinesOf(S)
  BY <1>4, <1>7 DEF LinesOf
<1> QED BY <1>4, <1>8, <1>9 DEF Written
-----------------------------------------------------------------------------
(* The steps.                                                              *)

LEMMA RodneyInitInv == RodneyInit => RodneyInv
<1> SUFFICES ASSUME RodneyInit PROVE RodneyInv
  OBVIOUS
<1>1. RodneyTypes
  BY DEF RodneyInit, RodneyTypes, Tids
<1>2. InOwn(Own)
  BY DEF RodneyInit, InOwn
<1>3. Booking /\ AnswersReachAskers
  BY DEF RodneyInit, Booking, AnswersReachAskers
<1> QED BY <1>1, <1>2, <1>3 DEF RodneyInv

\* A step that asks nothing and applies no callback leaves the books alone.
LEMMA BooksStay ==
  ASSUME RodneyInv, UNCHANGED <<callbacks, last_transaction_id, asked, applied>>,
         utime' = utime \/ utime' = utime + 1,
         erq_ticket' \in 0..Len(lines'), sending' \in Int,
         queue' \in Seq(Queued(Own)), lines' \in Seq(LinesOf(Own)),
         requests' \in Seq(ErqRequests(Own, Len(lines')))
  PROVE  RodneyInv'
<1>1. UNCHANGED <<callbacks, last_transaction_id, asked, applied>>
  OBVIOUS
<1>2. Own' = Own
  BY <1>1 DEF Own
<1>3. InOwn(Own)'
  BY <1>2 DEF InOwn
<1>4. RodneyTypes'
  BY <1>1 DEF RodneyInv, RodneyTypes, Tids
<1>5. Booking' /\ AnswersReachAskers'
  BY <1>1 DEF RodneyInv, Booking, AnswersReachAskers
<1> QED BY <1>3, <1>4, <1>5 DEF RodneyInv

LEMMA NewTid ==
  ASSUME RodneyInv
  PROVE  /\ get_transaction_id \in Tids
         /\ get_transaction_id[1] <= utime
         /\ ~AtMost(get_transaction_id, last_transaction_id)
         /\ \A t \in Tids : AtMost(t, last_transaction_id)
                               => AtMost(t, get_transaction_id)
<1>1. utime \in Nat /\ last_transaction_id \in Nat \X Nat
        /\ last_transaction_id[1] <= utime
  BY DEF RodneyInv, RodneyTypes, Tids
<1>2. CASE utime = last_transaction_id[1]
  BY <1>1, <1>2 DEF get_transaction_id, Tids, AtMost
<1>3. CASE utime # last_transaction_id[1]
  BY <1>1, <1>3 DEF get_transaction_id, Tids, AtMost
<1> QED BY <1>2, <1>3

LEMMA QueryKeeps == ASSUME RodneyInv, rodney_query PROVE RodneyInv'
<1> DEFINE tid == get_transaction_id
           entry == [of |-> asked + 1, tid |-> tid, cursor |-> -1]
           q == Append(queue, entry)
<1>1. /\ asked' = asked + 1 /\ last_transaction_id' = tid /\ queue' = q
      /\ callbacks' = Filed(tid, asked + 1)
      /\ UNCHANGED <<erq_ticket, utime, lines, applied>>
  BY DEF rodney_query
<1>2. /\ asked \in Nat /\ utime \in Nat /\ last_transaction_id \in Tids
      /\ erq_ticket \in 0..Len(lines) /\ sending \in Int
      /\ applied \in Seq(Nat \X Nat)
  BY DEF RodneyInv, RodneyTypes
<1>3. /\ tid \in Tids /\ tid[1] <= utime /\ ~AtMost(tid, last_transaction_id)
      /\ \A t \in Tids : AtMost(t, last_transaction_id) => AtMost(t, tid)
  BY NewTid
<1>4. AtMost(tid, tid) /\ asked + 1 \in Nat
  BY <1>2, <1>3 DEF AtMost, Tids
<1> HIDE DEF tid
<1>5. DOMAIN callbacks' = DOMAIN callbacks \cup {tid}
        /\ callbacks'[tid] = asked + 1
        /\ \A t \in DOMAIN callbacks : t # tid /\ callbacks'[t] = callbacks[t]
  BY <1>1, <1>3 DEF Filed, RodneyInv, Booking
<1>6. Own \subseteq Own'
  <2> SUFFICES ASSUME NEW p \in Own PROVE p \in Own'
    OBVIOUS
  <2>1. p \in (1..asked) \X Tids /\ AtMost(p[2], last_transaction_id)
          /\ (p[2] \in DOMAIN callbacks => callbacks[p[2]] = p[1])
    BY DEF Own
  <2>2. p \in (1..(asked + 1)) \X Tids
    BY <1>2, <2>1
  <2>3. p[2] # tid /\ AtMost(p[2], tid)
    BY <1>3, <2>1
  <2> QED BY <1>1, <1>5, <2>1, <2>2, <2>3 DEF Own
<1>7. <<asked + 1, tid>> \in Own'
  <2>1. <<asked + 1, tid>> \in (1..(asked + 1)) \X Tids
    BY <1>2, <1>3
  <2> QED BY <1>1, <1>4, <1>5, <2>1 DEF Own
<1>8. InOwn(Own')
  BY <1>6, Grows DEF RodneyInv
<1>9. entry \in Queued(Own')
  BY <1>3, <1>4, <1>7 DEF Queued
<1>10. q \in Seq(Queued(Own'))
  BY <1>8, <1>9 DEF InOwn
<1>11. requests' \in Seq(ErqRequests(Own', Len(lines))) /\ sending' \in Int
  <2>1. requests \in Seq(ErqRequests(Own', Len(lines))) /\ Len(lines) \in Nat
    BY <1>8 DEF InOwn
  <2>2. CASE erq_ticket = 0
    <3>1. requests' = Append(requests, [kind |-> "open"]) /\ sending' = sending
      BY <2>2 DEF rodney_query, Requested
    <3>2. [kind |-> "open"] \in ErqRequests(Own', Len(lines))
      BY DEF ErqRequests
    <3> QED BY <1>2, <2>1, <3>1, <3>2
  <2>3. CASE erq_ticket # 0
    <3>1. flush_queue(requests, erq_ticket, q, flushing, sending)
      BY <2>3 DEF rodney_query, tid
    <3> HIDE DEF q
    <3> QED BY <1>2, <1>10, <2>1, <3>1, FlushKeeps
  <2> QED BY <2>2, <2>3
<1>12. InOwn(Own)'
  BY <1>1, <1>8, <1>10, <1>11 DEF InOwn
<1>13. RodneyTypes'
  BY <1>1, <1>2, <1>3, <1>4, <1>11 DEF RodneyTypes
<1>14. Booking'
  <2>1. /\ \A t \in DOMAIN callbacks :
             t \in Tids /\ AtMost(t, last_transaction_id) /\ callbacks[t] \in 1..asked
        /\ \A t, u \in DOMAIN callbacks : callbacks[t] = callbacks[u] => t = u
        /\ \A i \in DOMAIN applied : applied[i][1] \in 1..asked
        /\ \A t \in DOMAIN callbacks, i \in DOMAIN applied : callbacks[t] # applied[i][1]
    BY DEF RodneyInv, Booking
  <2>2. \A t \in DOMAIN callbacks' :
          t \in Tids /\ AtMost(t, tid) /\ callbacks'[t] \in 1..(asked + 1)
    BY <1>2, <1>3, <1>4, <1>5, <2>1
  <2>3. \A t, u \in DOMAIN callbacks' : callbacks'[t] = callbacks'[u] => t = u
    BY <1>2, <1>5, <2>1
  <2>4. /\ \A i \in DOMAIN applied : applied[i][1] \in 1..(asked + 1)
        /\ \A t \in DOMAIN callbacks', i \in DOMAIN applied : callbacks'[t] # applied[i][1]
    BY <1>2, <1>5, <2>1
  <2> QED BY <1>1, <2>2, <2>3, <2>4 DEF Booking
<1>15. AnswersReachAskers'
  BY <1>1 DEF RodneyInv, AnswersReachAskers
<1> QED BY <1>12, <1>13, <1>14, <1>15 DEF RodneyInv

LEMMA Updated ==
  ASSUME NEW T, NEW s \in Seq(T), NEW i \in DOMAIN s, NEW e \in T
  PROVE  [s EXCEPT ![i] = e] \in Seq(T) /\ Len([s EXCEPT ![i] = e]) = Len(s)
OBVIOUS

\* What the steps start from, for citing.
LEMMA Known ==
  ASSUME RodneyInv
  PROVE  /\ erq_ticket \in 0..Len(lines) /\ sending \in Int /\ utime \in Nat
         /\ Len(lines) \in Nat
         /\ queue \in Seq(Queued(Own)) /\ lines \in Seq(LinesOf(Own))
         /\ requests \in Seq(ErqRequests(Own, Len(lines)))
BY DEF RodneyInv, RodneyTypes, InOwn

LEMMA HeadOK ==
  ASSUME RodneyInv, queue # <<>>
  PROVE  /\ Head(queue) \in Queued(Own) /\ Head(queue) = queue[1]
         /\ Tail(queue) \in Seq(Queued(Own)) /\ 1 \in DOMAIN queue
         /\ Head(queue).cursor \in Int
<1>1. /\ Head(queue) \in Queued(Own) /\ Head(queue) = queue[1]
      /\ Tail(queue) \in Seq(Queued(Own)) /\ 1 \in DOMAIN queue
  BY Known
<1>2. \A q \in Queued(Own) : q.cursor \in Int
  BY DEF Queued
<1> QED BY <1>1, <1>2

\* A query keeps its id when its cursor moves.
LEMMA MovedOn ==
  ASSUME NEW S, NEW q \in Queued(S), NEW cursor \in Int
  PROVE  [q EXCEPT !.cursor = cursor] \in Queued(S)
BY DEF Queued

LEMMA CallOutKeeps == ASSUME RodneyInv, call_out PROVE RodneyInv'
<1>1. UNCHANGED <<erq_ticket, queue, callbacks, last_transaction_id, utime,
                  lines, asked, applied>>
  BY DEF call_out
<1>2. flush_queue(requests, erq_ticket, queue, FALSE, sending)
  BY DEF call_out
<1>3. requests' \in Seq(ErqRequests(Own, Len(lines))) /\ sending' \in Int
  BY <1>2, Known, FlushKeeps
<1> QED BY <1>1, <1>3, Known, BooksStay

LEMMA OpenedKeeps == ASSUME RodneyInv, opened PROVE RodneyInv'
<1> DEFINE n == Len(lines) + 1
<1>1. /\ lines' = Append(lines, Line) /\ erq_ticket' = n
      /\ UNCHANGED <<queue, callbacks, last_transaction_id, utime, asked, applied>>
  BY DEF opened
<1>2. Line \in LinesOf(Own)
  BY DEF Line, LinesOf, Frames, Idle
<1>3. lines' \in Seq(LinesOf(Own)) /\ Len(lines') = n /\ n \in Nat
  BY <1>1, <1>2, Known
<1>4. requests \in Seq(ErqRequests(Own, n))
  BY <1>3, Known, MoreLines
<1>5. Tail(requests) \in Seq(ErqRequests(Own, n))
  BY <1>4 DEF opened
<1>6. flush_queue(Tail(requests), n, queue, flushing, sending)
  BY DEF opened
<1>7. n \in 0..n
  BY <1>3
<1> HIDE DEF n
<1>8. requests' \in Seq(ErqRequests(Own, n)) /\ sending' \in Int
  BY <1>3, <1>5, <1>6, <1>7, Known, FlushKeeps
<1> QED BY <1>1, <1>3, <1>7, <1>8, Known, BooksStay

LEMMA NotOpenedKeeps == ASSUME RodneyInv, not_opened PROVE RodneyInv'
<1>1. UNCHANGED <<erq_ticket, sending, queue, callbacks, last_transaction_id,
                  utime, lines, asked, applied>>
  BY DEF not_opened
<1>2. requests' \in Seq(ErqRequests(Own, Len(lines)))
  BY Known DEF not_opened
<1> QED BY <1>1, <1>2, Known, BooksStay

\* The request that is answered, if it was to send.
LEMMA AnsweredOK ==
  ASSUME RodneyInv, Answered
  PROVE  /\ Head(requests) \in Sends(Own, Len(lines))
         /\ Head(requests).ticket \in DOMAIN lines
         /\ Tail(requests) \in Seq(ErqRequests(Own, Len(lines)))
<1>1. requests \in Seq(ErqRequests(Own, Len(lines))) /\ requests # <<>>
  BY Known DEF Answered
<1>2. Head(requests) \in ErqRequests(Own, Len(lines))
        /\ Tail(requests) \in Seq(ErqRequests(Own, Len(lines)))
  BY <1>1
<1>3. Head(requests) \in Sends(Own, Len(lines))
  BY <1>2 DEF ErqRequests, Answered
<1> QED BY <1>2, <1>3, Known DEF Sends

LEMMA WriteKeeps ==
  ASSUME RodneyInv, Answered, NEW count \in Int, Write(Head(requests), count)
  PROVE  lines' \in Seq(LinesOf(Own)) /\ Len(lines') = Len(lines)
<1> DEFINE r == Head(requests)
           line == Written(lines[r.ticket], r, r.piece.header, count)
<1>1. r \in Sends(Own, Len(lines)) /\ r.ticket \in DOMAIN lines
  BY AnsweredOK
<1>2. lines[r.ticket] \in LinesOf(Own) /\ Len(lines) \in Nat
  BY <1>1, Known
<1> HIDE DEF r
<1>3. line \in LinesOf(Own)
  BY <1>1, <1>2, WrittenOK
<1>4. lines' = [lines EXCEPT ![r.ticket] = line]
  BY DEF Write, r
<1> HIDE DEF line
<1> QED BY <1>1, <1>3, <1>4, Known

LEMMA SendDoneKeeps ==
  ASSUME RodneyInv, Answered, queue # <<>>, NEW cursor \in Int,
         send_done(cursor)
  PROVE  /\ queue' \in Seq(Queued(Own)) /\ sending' \in Int
         /\ requests' \in Seq(ErqRequests(Own, Len(lines)))
<1> DEFINE out == [Head(queue) EXCEPT !.cursor = cursor]
           q == IF cursor >= Size - 1 THEN Tail(queue) ELSE <<out>> \o Tail(queue)
<1>1. Head(queue) \in Queued(Own) /\ Tail(queue) \in Seq(Queued(Own))
  BY HeadOK
<1>2. out \in Queued(Own)
  BY <1>1, MovedOn
<1> HIDE DEF out
<1>3. q \in Seq(Queued(Own))
  BY <1>1, <1>2
<1>4. queue' = q
        /\ \E sent \in Int :
             flush_queue(Tail(requests), erq_ticket, q, flushing, sent)
  BY DEF send_done, out
<1> HIDE DEF q
<1>5. /\ Len(lines) \in Nat /\ erq_ticket \in 0..Len(lines)
      /\ Tail(requests) \in Seq(ErqRequests(Own, Len(lines)))
  BY Known, AnsweredOK
<1>6. requests' \in Seq(ErqRequests(Own, Len(lines))) /\ sending' \in Int
  BY <1>3, <1>4, <1>5, FlushKeeps
<1> QED BY <1>3, <1>4, <1>6

LEMMA VanishedKeeps ==
  ASSUME RodneyInv, Answered, vanished
  PROVE  /\ queue' \in Seq(Queued(Own)) /\ sending' \in Int
         /\ requests' \in Seq(ErqRequests(Own, Len(lines)))
BY Known, AnsweredOK DEF vanished

LEMMA SentOKKeeps == ASSUME RodneyInv, sent_ok PROVE RodneyInv'
<1>1. Answered /\ Write(Head(requests), Length(Head(requests)))
        /\ UNCHANGED <<erq_ticket, callbacks, last_transaction_id, utime, asked,
                       applied>>
  BY DEF sent_ok
<1>2. Length(Head(requests)) \in Int
  BY <1>1, AnsweredOK DEF Length, Sends, Pieces
<1>3. lines' \in Seq(LinesOf(Own)) /\ Len(lines') = Len(lines)
  BY <1>1, <1>2, WriteKeeps
<1>4. queue' \in Seq(Queued(Own)) /\ sending' \in Int
        /\ requests' \in Seq(ErqRequests(Own, Len(lines)))
  <2>1. CASE vanished
    BY <1>1, <2>1, VanishedKeeps
  <2>2. CASE queue # <<>> /\ send_done(Head(queue).cursor + sending)
    <3>1. Head(queue).cursor + sending \in Int
      BY <2>2, Known, HeadOK
    <3> QED BY <1>1, <2>2, <3>1, SendDoneKeeps
  <2> QED BY <2>1, <2>2 DEF sent_ok
<1> QED BY <1>1, <1>3, <1>4, Known, BooksStay

LEMMA IncompleteKeeps == ASSUME RodneyInv, incomplete PROVE RodneyInv'
<1> DEFINE r == Head(requests)
           head == IF r.piece.header THEN 1 ELSE 0
<1>1. Answered /\ UNCHANGED <<erq_ticket, callbacks, last_transaction_id, utime,
                              asked, applied>>
  BY DEF incomplete
<1>2. Length(r) \in Int
  BY <1>1, AnsweredOK DEF Length, Sends, Pieces
<1>3. PICK n \in 1..(Length(r) + head - 1) :
        /\ Write(r, n - head)
        /\ vanished \/ (queue # <<>> /\ send_done(Head(queue).cursor + n))
  BY DEF incomplete
<1>4. n \in Int /\ n - head \in Int
  BY <1>2
<1>5. lines' \in Seq(LinesOf(Own)) /\ Len(lines') = Len(lines)
  BY <1>1, <1>3, <1>4, WriteKeeps
<1>6. queue' \in Seq(Queued(Own)) /\ sending' \in Int
        /\ requests' \in Seq(ErqRequests(Own, Len(lines)))
  <2>1. CASE vanished
    BY <1>1, <2>1, VanishedKeeps
  <2>2. CASE queue # <<>> /\ send_done(Head(queue).cursor + n)
    <3>1. Head(queue).cursor + n \in Int
      BY <1>4, <2>2, Known, HeadOK
    <3> QED BY <1>1, <2>2, <3>1, SendDoneKeeps
  <2> QED BY <1>3, <2>1, <2>2
<1> QED BY <1>1, <1>5, <1>6, Known, BooksStay

LEMMA WouldBlockKeeps == ASSUME RodneyInv, would_block PROVE RodneyInv'
<1>1. Answered /\ UNCHANGED <<erq_ticket, queue, callbacks, last_transaction_id,
                              utime, lines, asked, applied>>
  BY DEF would_block, Unwritten
<1>2. requests' = Tail(requests) /\ sending' \in {sending, 0}
  BY DEF would_block
<1> QED BY <1>1, <1>2, Known, AnsweredOK, BooksStay

LEMMA BadTicketKeeps == ASSUME RodneyInv, bad_ticket PROVE RodneyInv'
<1>1. Answered /\ UNCHANGED <<erq_ticket, callbacks, last_transaction_id, utime,
                              lines, asked, applied>>
  BY DEF bad_ticket, Unwritten
<1>2. queue' \in Seq(Queued(Own)) /\ sending' \in Int
        /\ requests' \in Seq(ErqRequests(Own, Len(lines)))
  <2>1. CASE vanished
    BY <1>1, <2>1, VanishedKeeps
  <2>2. CASE /\ queue # <<>>
             /\ queue' = [queue EXCEPT ![1].cursor = -1]
             /\ Requested(Tail(requests), [kind |-> "open"])
             /\ UNCHANGED sending
    <3> DEFINE out == [queue[1] EXCEPT !.cursor = -1]
    <3>1. queue' = [queue EXCEPT ![1] = out] /\ sending' \in Int
      BY <2>2, Known
    <3>2. queue[1] \in Queued(Own) /\ 1 \in DOMAIN queue
      BY <2>2, HeadOK
    <3>3. out \in Queued(Own)
      BY <3>2, MovedOn
    <3> HIDE DEF out
    <3>4. queue' \in Seq(Queued(Own))
      BY <3>1, <3>2, <3>3, Known
    <3>5. [kind |-> "open"] \in ErqRequests(Own, Len(lines))
      BY DEF ErqRequests
    <3>6. requests' = Append(Tail(requests), [kind |-> "open"])
      BY <2>2 DEF Requested
    <3> QED BY <1>1, <3>1, <3>4, <3>5, <3>6, AnsweredOK
  <2> QED BY <2>1, <2>2 DEF bad_ticket
<1> QED BY <1>1, <1>2, Known, BooksStay

LEMMA SendFailedKeeps == ASSUME RodneyInv, send_failed PROVE RodneyInv'
<1>1. Answered /\ UNCHANGED <<erq_ticket, callbacks, last_transaction_id, utime,
                              lines, asked, applied>>
  BY DEF send_failed, Unwritten
<1>2. queue' \in Seq(Queued(Own)) /\ sending' \in Int
        /\ requests' \in Seq(ErqRequests(Own, Len(lines)))
  <2>1. CASE vanished
    BY <1>1, <2>1, VanishedKeeps
  <2>2. CASE queue # <<>> /\ send_done(Head(queue).cursor)
    <3>1. Head(queue).cursor \in Int
      BY <2>2, Known, HeadOK
    <3> QED BY <1>1, <2>2, <3>1, SendDoneKeeps
  <2> QED BY <2>1, <2>2 DEF send_failed
<1> QED BY <1>1, <1>2, Known, BooksStay

\* Packets on a line are cut off from its front.
LEMMA PacketLines ==
  ASSUME RodneyInv, NEW c \in DOMAIN lines, NEW n \in 1..4, n <= Len(lines[c].back),
         lines' = [lines EXCEPT ![c].back = SubSeq(@, n + 1, Len(@))]
  PROVE  lines' \in Seq(LinesOf(Own)) /\ Len(lines') = Len(lines)
<1> DEFINE rest == SubSeq(lines[c].back, n + 1, Len(lines[c].back))
           line == [lines[c] EXCEPT !.back = rest]
<1>1. lines[c] \in LinesOf(Own)
  BY Known
<1>2. lines[c].back \in Seq(Packets(Own))
  BY <1>1 DEF LinesOf
<1>3. rest \in Seq(Packets(Own))
  BY <1>2
<1>4. lines' = [lines EXCEPT ![c] = line]
  OBVIOUS
<1> HIDE DEF rest
<1>5. line \in LinesOf(Own)
  BY <1>1, <1>3 DEF LinesOf
<1> HIDE DEF line
<1>6. [lines EXCEPT ![c] = line] \in Seq(LinesOf(Own))
        /\ Len([lines EXCEPT ![c] = line]) = Len(lines)
  BY <1>5, Known, Updated
<1> QED BY <1>4, <1>6

\* A callback goes as it is applied: to the answer whose id it is filed under.
LEMMA ResponseKeeps ==
  ASSUME RodneyInv, NEW u \in Packets(Own), handle_response(u),
         UNCHANGED <<last_transaction_id, asked>>
  PROVE  /\ Own \subseteq Own' /\ Booking' /\ AnswersReachAskers'
         /\ applied' \in Seq(Nat \X Nat)
<1>1. /\ u.of \in Nat /\ u.tid \in Tids /\ <<u.of, u.tid>> \in Own
      /\ asked \in Nat /\ applied \in Seq(Nat \X Nat)
  BY DEF Packets, RodneyInv, RodneyTypes
<1>2. u.tid \in DOMAIN callbacks => callbacks[u.tid] = u.of
  BY <1>1 DEF Own
<1>3. /\ UNCHANGED <<last_transaction_id, asked>>
      /\ DOMAIN callbacks' = DOMAIN callbacks \ {u.tid}
      /\ \A t \in DOMAIN callbacks' : callbacks'[t] = callbacks[t]
  BY DEF handle_response
<1>4. Own \subseteq Own'
  BY <1>3 DEF Own
<1>5. /\ \A t \in DOMAIN callbacks :
           t \in Tids /\ AtMost(t, last_transaction_id) /\ callbacks[t] \in 1..asked
      /\ \A t, v \in DOMAIN callbacks : callbacks[t] = callbacks[v] => t = v
      /\ \A i \in DOMAIN applied : applied[i][1] \in 1..asked
      /\ \A t \in DOMAIN callbacks, i \in DOMAIN applied : callbacks[t] # applied[i][1]
  BY DEF RodneyInv, Booking
<1>6. /\ \A i \in DOMAIN applied : applied[i][1] = applied[i][2]
      /\ \A i, j \in DOMAIN applied : applied[i][1] = applied[j][1] => i = j
  BY DEF RodneyInv, AnswersReachAskers
<1>7. CASE u.tid \in DOMAIN callbacks
  <2> DEFINE pair == <<callbacks[u.tid], u.of>>
  <2>1. applied' = Append(applied, pair)
    BY <1>7 DEF handle_response
  <2>2. pair \in Nat \X Nat /\ pair[1] \in 1..asked /\ pair[1] = pair[2]
          /\ pair[1] = callbacks[u.tid]
    BY <1>1, <1>2, <1>5, <1>7
  <2> HIDE DEF pair
  <2>3. applied' \in Seq(Nat \X Nat)
    BY <1>1, <2>1, <2>2
  <2>4. DOMAIN applied' = DOMAIN applied \cup {Len(applied) + 1}
          /\ applied'[Len(applied) + 1] = pair
          /\ \A i \in DOMAIN applied : applied'[i] = applied[i]
                                         /\ i # Len(applied) + 1
    BY <1>1, <2>1, <2>2
  <2>5. \A i \in DOMAIN applied : applied[i][1] # pair[1]
    BY <1>5, <1>7, <2>2
  <2>6. Booking'
    <3>1. \A i \in DOMAIN applied' : applied'[i][1] \in 1..asked
      BY <1>5, <2>2, <2>4
    <3>2. \A t \in DOMAIN callbacks' : callbacks'[t] # pair[1]
      BY <1>3, <1>5, <1>7, <2>2
    <3>3. \A t \in DOMAIN callbacks', i \in DOMAIN applied' : callbacks'[t] # applied'[i][1]
      BY <1>3, <1>5, <2>4, <3>2
    <3> QED BY <1>3, <1>5, <3>1, <3>3 DEF Booking
  <2>7. AnswersReachAskers'
    <3>1. \A i \in DOMAIN applied' : applied'[i][1] = applied'[i][2]
      BY <1>6, <2>2, <2>4
    <3>2. \A i, j \in DOMAIN applied' : applied'[i][1] = applied'[j][1] => i = j
      BY <1>6, <2>4, <2>5
    <3> QED BY <3>1, <3>2 DEF AnswersReachAskers
  <2> QED BY <1>4, <2>3, <2>6, <2>7
<1>8. CASE u.tid \notin DOMAIN callbacks
  <2>1. applied' = applied
    BY <1>8 DEF handle_response
  <2> QED BY <1>1, <1>3, <1>4, <1>5, <1>6, <2>1 DEF Booking, AnswersReachAskers
<1> QED BY <1>7, <1>8

LEMMA PacketKeeps ==
  ASSUME RodneyInv, NEW c \in DOMAIN lines, packet(c)
  PROVE  RodneyInv'
<1>1. UNCHANGED <<erq_ticket, sending, queue, last_transaction_id, utime, requests,
                  asked>>
  BY DEF packet
<1> DEFINE p(n) == SubSeq(lines[c].back, 1, n)
<1>2. PICK n \in 1..4 :
        /\ n <= Len(lines[c].back)
        /\ lines' = [lines EXCEPT ![c].back = SubSeq(@, n + 1, Len(@))]
        /\ IF PutTogether(p(n)).have = 3 THEN handle_response(p(n)[1])
             ELSE UNCHANGED <<callbacks, applied>>
  BY DEF packet
<1>3. lines' \in Seq(LinesOf(Own)) /\ Len(lines') = Len(lines)
  BY <1>2, PacketLines
<1>4. CASE UNCHANGED <<callbacks, applied>>
  BY <1>1, <1>3, <1>4, Known, BooksStay
<1>5. CASE handle_response(p(n)[1])
  <2>1. lines[c].back \in Seq(Packets(Own))
    <3>1. lines[c] \in LinesOf(Own)
      BY Known
    <3> QED BY <3>1 DEF LinesOf
  <2>2. p(n)[1] \in Packets(Own)
    BY <1>2, <2>1
  <2> HIDE DEF p
  <2>3. /\ Own \subseteq Own' /\ Booking' /\ AnswersReachAskers'
        /\ applied' \in Seq(Nat \X Nat)
    BY <1>1, <1>5, <2>2, ResponseKeeps
  <2>4. InOwn(Own)'
    <3>1. Queued(Own) \subseteq Queued(Own')
      BY <2>3 DEF Queued
    <3>2. ErqRequests(Own, Len(lines)) \subseteq ErqRequests(Own', Len(lines))
      BY <2>3 DEF ErqRequests, Sends
    <3>3. Packets(Own) \subseteq Packets(Own')
      BY <2>3 DEF Packets
    <3>4. LinesOf(Own) \subseteq LinesOf(Own')
      BY <3>3 DEF LinesOf
    <3>5. /\ queue \in Seq(Queued(Own')) /\ lines' \in Seq(LinesOf(Own'))
          /\ requests \in Seq(ErqRequests(Own', Len(lines)))
      BY <1>3, <3>1, <3>2, <3>4, Known
    <3> QED BY <1>1, <1>3, <3>5 DEF InOwn
  <2>5. RodneyTypes'
    BY <1>1, <1>3, <2>3 DEF RodneyInv, RodneyTypes
  <2> QED BY <2>3, <2>4, <2>5 DEF RodneyInv
<1> QED BY <1>2, <1>4, <1>5

LEMMA HangupKeeps ==
  ASSUME RodneyInv, NEW c \in DOMAIN lines, Hangup(c)
  PROVE  RodneyInv'
<1> DEFINE line == [Line EXCEPT !.open = FALSE]
<1>1. UNCHANGED <<erq_ticket, sending, queue, callbacks, last_transaction_id,
                  utime, requests, asked, applied>>
  BY DEF Hangup
<1>2. Line \in LinesOf(Own)
  BY DEF Line, LinesOf, Frames, Idle
<1>3. \A l \in LinesOf(Own) : [l EXCEPT !.open = FALSE] \in LinesOf(Own)
  BY DEF LinesOf
<1>4. line \in LinesOf(Own) /\ lines' = [lines EXCEPT ![c] = line]
  BY <1>2, <1>3 DEF Hangup
<1> HIDE DEF line
<1>5. lines' \in Seq(LinesOf(Own)) /\ Len(lines') = Len(lines)
  BY <1>4, Known
<1> QED BY <1>1, <1>5, Known, BooksStay

LEMMA TickKeeps == ASSUME RodneyInv, Tick PROVE RodneyInv'
<1>1. UNCHANGED <<erq_ticket, sending, queue, callbacks, last_transaction_id,
                  requests, lines, asked, applied>> /\ utime' = utime + 1
  BY DEF Tick
<1> QED BY <1>1, Known, BooksStay

LEMMA StutterKeeps == ASSUME RodneyInv, UNCHANGED rodneyVars PROVE RodneyInv'
<1>1. UNCHANGED <<erq_ticket, sending, queue, callbacks, last_transaction_id,
                  utime, requests, lines, asked, applied>>
  BY DEF rodneyVars
<1> QED BY <1>1, Known, BooksStay

LEMMA RodneyStepInv == ASSUME RodneyInv, [RodneyNext]_rodneyVars PROVE RodneyInv'
<1>1. CASE rodney_query
  BY <1>1, QueryKeeps
<1>2. CASE call_out
  BY <1>2, CallOutKeeps
<1>3. CASE opened
  BY <1>3, OpenedKeeps
<1>4. CASE not_opened
  BY <1>4, NotOpenedKeeps
<1>5. CASE sent_ok
  BY <1>5, SentOKKeeps
<1>6. CASE would_block
  BY <1>6, WouldBlockKeeps
<1>7. CASE incomplete
  BY <1>7, IncompleteKeeps
<1>8. CASE bad_ticket
  BY <1>8, BadTicketKeeps
<1>9. CASE send_failed
  BY <1>9, SendFailedKeeps
<1>10. CASE \E c \in DOMAIN lines : packet(c) \/ Hangup(c)
  BY <1>10, PacketKeeps, HangupKeeps
<1>11. CASE Tick
  BY <1>11, TickKeeps
<1>12. CASE UNCHANGED rodneyVars
  BY <1>12, StutterKeeps
<1> QED BY <1>1, <1>2, <1>3, <1>4, <1>5, <1>6, <1>7, <1>8, <1>9, <1>10, <1>11,
           <1>12 DEF RodneyNext

\* Every callback is applied to the answer to its own query and once, however
\* long the queries are, whatever the ERQ and the network do and however often
\* a query is sent again (rodney_query(), handle_response()).
THEOREM AnswersAlwaysReachAskers == RodneySpec => []AnswersReachAskers
<1>1. RodneyInv => AnswersReachAskers
  BY DEF RodneyInv
<1>2. RodneyInv /\ [RodneyNext]_rodneyVars => RodneyInv'
  BY RodneyStepInv
<1> QED BY <1>1, <1>2, RodneyInitInv, PTL DEF RodneySpec
-----------------------------------------------------------------------------
(* The order of the queries: as long as one request at a time is under way *)
(* and no header is cut, everybody agrees how far the first query is sent. *)

\* The queries wait in the order in which they were made, and only the first is
\* sent in part.
Orderly(q, n) ==
  /\ Len(q) <= n
  /\ \A i \in DOMAIN q :
       /\ q[i].of = n - Len(q) + i
       /\ q[i].cursor \in -1..(Size - 2)
       /\ i # 1 => q[i].cursor = -1

\* What is under way to the ERQ is a piece of the first query, the one after
\* its cursor, or the opening of a line on which it is sent from its beginning.
Under(rs, q, ticket, sent) ==
  /\ Len(rs) <= 1
  /\ rs # <<>> =>
       /\ q # <<>>
       /\ rs[1].kind = "open" => Head(q).cursor = -1
       /\ rs[1].kind = "send" =>
            /\ ticket # 0 /\ rs[1].ticket = ticket
            /\ rs[1].of = Head(q).of /\ rs[1].piece = Piece(Head(q))
            /\ sent = Piece(Head(q)).move

\* What the service has of the first query, if it is right about the cursor.
FrameAt(q) ==
  IF q = <<>> \/ Head(q).cursor = -1 THEN Idle
    ELSE [of |-> Head(q).of, have |-> Head(q).cursor + 1]

Framed(ls, ticket, q) ==
  /\ ticket = 0 => FrameAt(q) = Idle
  /\ ticket # 0 => (ls[ticket].open => ls[ticket].frame = FrameAt(q))

GotThem(got, n) == got \in Seq(Nat) /\ Len(got) = n /\ \A i \in DOMAIN got : got[i] = i

InStep ==
  /\ Orderly(queue, asked)
  /\ Under(requests, queue, erq_ticket, sending)
  /\ Framed(lines, erq_ticket, queue)
  /\ GotThem(received, asked - Len(queue))

InOrder == ~overlapped /\ ~cut => InStep

LEMMA Single ==
  ASSUME NEW S, NEW r \in S
  PROVE  /\ Append(<<>>, r) # <<>> /\ Len(Append(<<>>, r)) = 1
         /\ Append(<<>>, r)[1] = r
OBVIOUS

LEMMA Emptied ==
  ASSUME NEW S, NEW s \in Seq(S), Len(s) <= 1, s # <<>>
  PROVE  Tail(s) = <<>> /\ Head(s) = s[1]
OBVIOUS

\* flush_queue() sends the piece after the cursor.
LEMMA Flushed ==
  ASSUME NEW waiting, NEW q, NEW ticket, NEW pending, NEW sent,
         Under(waiting, q, ticket, sent),
         flush_queue(waiting, ticket, q, pending, sent), ~overlapped'
  PROVE  Under(requests', q, ticket, sending')
<1>1. CASE pending \/ ticket = 0 \/ q = <<>>
  BY <1>1 DEF flush_queue
<1>2. CASE ~(pending \/ ticket = 0 \/ q = <<>>)
  <2> DEFINE r == [kind |-> "send", ticket |-> ticket, of |-> Head(q).of,
                   tid |-> Head(q).tid, piece |-> Piece(Head(q))]
  <2>1. /\ Requested(waiting, r) /\ sending' = Piece(Head(q)).move
    BY <1>2 DEF flush_queue
  <2>2. waiting = <<>> /\ requests' = Append(waiting, r)
    BY <2>1 DEF Requested
  <2>3. /\ r.kind = "send" /\ r.ticket = ticket /\ r.of = Head(q).of
        /\ r.piece = Piece(Head(q))
    OBVIOUS
  <2> HIDE DEF r
  <2>4. requests' # <<>> /\ Len(requests') = 1 /\ requests'[1] = r
    BY <2>2, Single
  <2> QED BY <1>2, <2>1, <2>3, <2>4 DEF Under
<1> QED BY <1>1, <1>2

LEMMA NothingUnder ==
  ASSUME NEW q, NEW ticket, NEW sent
  PROVE  Under(<<>>, q, ticket, sent)
BY DEF Under

\* The piece after the cursor, and where it ends.
LEMMA PieceSizes ==
  ASSUME NEW out, out.cursor \in -1..(Size - 2)
  PROVE  /\ Piece(out).header <=> out.cursor = -1
         /\ Piece(out).from = out.cursor + 1
         /\ Piece(out).to \in Int /\ Piece(out).move \in Nat
         /\ Piece(out).to <= Size - 1 /\ Piece(out).to >= out.cursor
         /\ out.cursor = -1 => Piece(out).to >= 0 /\ Piece(out).move >= 1
         /\ out.cursor + Piece(out).move >= Size - 1 <=> Piece(out).to = Size - 1
         /\ out.cursor + Piece(out).move < Size - 1
              => out.cursor + Piece(out).move = Piece(out).to
<1> DEFINE c == out.cursor
           room == IF c < 0 THEN FirstMax ELSE NextMax
           move == IF c + room > Size THEN Size - c ELSE room
           to == IF c + move < Size THEN c + move ELSE Size - 1
<1>1. /\ Piece(out).header = (c < 0) /\ Piece(out).from = c + 1
      /\ Piece(out).to = to /\ Piece(out).move = move
  BY DEF Piece
<1>2. Size \in Nat /\ Size >= 1 /\ FirstMax \in Nat /\ FirstMax >= 1 /\ NextMax \in Nat
  BY SizesAreNumbers
<1>3. c \in Int /\ -1 <= c /\ c <= Size - 2
  BY <1>2
<1> HIDE DEF c
<1>4. room \in Nat /\ (c = -1 => room >= 1)
  BY <1>2, <1>3
<1> HIDE DEF room
<1>5. move \in Nat /\ (c = -1 => move >= 1)
  BY <1>2, <1>3, <1>4
<1> HIDE DEF move
<1>6. /\ to \in Int /\ to <= Size - 1 /\ to >= c
      /\ c = -1 => to >= 0
      /\ c + move >= Size - 1 <=> to = Size - 1
      /\ c + move < Size - 1 => c + move = to
  BY <1>2, <1>3, <1>5
<1>7. c < 0 <=> c = -1
  BY <1>3
<1> QED BY <1>1, <1>5, <1>6, <1>7 DEF c

\* A line takes a part of the piece that is under way.
LEMMA Taken ==
  ASSUME NEW S, NEW line \in LinesOf(S), NEW r, NEW out, NEW count \in Nat,
         r.of = out.of, out.of \in Nat \ {0}, out.cursor \in -1..(Size - 2),
         r.piece = Piece(out), out.cursor + 1 + count <= Size,
         line.frame = IF out.cursor = -1 THEN Idle
                        ELSE [of |-> out.of, have |-> out.cursor + 1]
  PROVE  /\ Written(line, r, r.piece.header, count).open = line.open
         /\ Written(line, r, r.piece.header, count).frame =
              IF out.cursor + 1 + count < Size
                THEN [of |-> out.of, have |-> out.cursor + 1 + count] ELSE Idle
         /\ Got(line, r, count) <=> out.cursor + 1 + count = Size
<1> DEFINE header == r.piece.header
           start == IF header /\ line.frame = Idle THEN [of |-> r.of, have |-> 0]
                      ELSE IF header THEN Garbled ELSE line.frame
           more == [of |-> r.of, have |-> start.have + count]
           answer == AnswerOf(r.of, r.tid)
<1>1. /\ header <=> out.cursor = -1
      /\ r.piece.from = out.cursor + 1
  BY PieceSizes
<1>2. start = [of |-> out.of, have |-> out.cursor + 1]
  BY <1>1
<1>3. start.of = r.of /\ start.have = r.piece.from
  BY <1>1, <1>2
<1>4. line.frame # Garbled
  BY DEF Idle, Garbled
<1>5. more = [of |-> out.of, have |-> out.cursor + 1 + count] /\ more # Idle
  BY <1>2 DEF Idle
<1>6. \A frame : /\ [line EXCEPT !.frame = frame].frame = frame
                 /\ [line EXCEPT !.frame = frame].open = line.open
  BY DEF LinesOf
<1>7. /\ [line EXCEPT !.frame = Idle, !.back = @ \o answer].frame = Idle
      /\ [line EXCEPT !.frame = Idle, !.back = @ \o answer].open = line.open
  BY DEF LinesOf
<1>8. Written(line, r, header, count) =
        IF start.have + count < Size THEN [line EXCEPT !.frame = more]
          ELSE [line EXCEPT !.frame = Idle, !.back = @ \o answer]
  BY <1>3 DEF Written
<1>9. start.have = out.cursor + 1
  BY <1>2
<1> HIDE DEF start, more, answer
<1>10. CASE out.cursor + 1 + count < Size
  <2>1. Written(line, r, header, count) = [line EXCEPT !.frame = more]
    BY <1>8, <1>9, <1>10
  <2>2. Written(line, r, header, count).frame = more
          /\ Written(line, r, header, count).open = line.open
    BY <1>6, <2>1
  <2>3. ~Got(line, r, count)
    BY <1>1, <1>5, <1>10, <2>2 DEF Got
  <2> QED BY <1>5, <1>10, <2>2, <2>3
<1>11. CASE ~(out.cursor + 1 + count < Size)
  <2>1. Written(line, r, header, count)
          = [line EXCEPT !.frame = Idle, !.back = @ \o answer]
    BY <1>8, <1>9, <1>11
  <2>2. Written(line, r, header, count).frame = Idle
          /\ Written(line, r, header, count).open = line.open
    BY <1>7, <2>1
  <2>3. out.cursor + 1 + count = Size
    BY <1>11, SizesAreNumbers
  <2>4. Got(line, r, count)
    BY <1>1, <1>4, <2>2, <2>3 DEF Got
  <2> QED BY <1>11, <2>2, <2>3, <2>4
<1> QED BY <1>10, <1>11

LEMMA FirstOf ==
  ASSUME NEW S, NEW q \in Seq(Queued(S)), NEW n \in Nat, Orderly(q, n), q # <<>>
  PROVE  /\ Head(q) = q[1] /\ Head(q) \in Queued(S)
         /\ Head(q).of = n - Len(q) + 1 /\ Head(q).of \in Nat \ {0}
         /\ Head(q).cursor \in -1..(Size - 2)
         /\ FrameAt(q) = IF Head(q).cursor = -1 THEN Idle
                           ELSE [of |-> Head(q).of, have |-> Head(q).cursor + 1]
         /\ FrameAt(q) = Idle => Head(q).cursor = -1
<1>1. 1 \in DOMAIN q /\ Head(q) = q[1] /\ Head(q) \in Queued(S) /\ Len(q) \in Nat
  OBVIOUS
<1>2. q[1].of = n - Len(q) + 1 /\ q[1].cursor \in -1..(Size - 2) /\ Len(q) <= n
  BY <1>1 DEF Orderly
<1>3. n - Len(q) + 1 \in Nat \ {0}
  BY <1>1, <1>2
<1>4. FrameAt(q) = IF Head(q).cursor = -1 THEN Idle
                     ELSE [of |-> Head(q).of, have |-> Head(q).cursor + 1]
  BY DEF FrameAt
<1>5. ASSUME FrameAt(q) = Idle, Head(q).cursor # -1 PROVE FALSE
  <2>1. [of |-> Head(q).of, have |-> Head(q).cursor + 1] = Idle
    BY <1>4, <1>5
  <2>2. Head(q).of = 0
    BY <2>1 DEF Idle
  <2> QED BY <1>1, <1>2, <1>3, <2>2
<1> QED BY <1>1, <1>2, <1>3, <1>4, <1>5

\* A query joins the queue.
LEMMA Joined ==
  ASSUME NEW S, NEW q \in Seq(Queued(S)), NEW n \in Nat, Orderly(q, n),
         NEW e \in Queued(S), e.of = n + 1, e.cursor = -1
  PROVE  /\ Orderly(Append(q, e), n + 1) /\ Append(q, e) # <<>>
         /\ n + 1 - Len(Append(q, e)) = n - Len(q)
         /\ FrameAt(Append(q, e)) = FrameAt(q)
         /\ q # <<>> => Head(Append(q, e)) = Head(q)
<1> DEFINE p == Append(q, e)
<1>1. /\ p # <<>> /\ Len(p) = Len(q) + 1 /\ Len(q) \in Nat
      /\ \A i \in DOMAIN q : p[i] = q[i]
      /\ \A i \in DOMAIN p : i \in DOMAIN q \/ i = Len(q) + 1
      /\ p[Len(q) + 1] = e
      /\ Head(p) = p[1]
  OBVIOUS
<1>2. /\ q # <<>> => Head(p) = Head(q)
      /\ q = <<>> => Head(p) = e /\ Len(q) = 0
  BY <1>1
<1> HIDE DEF p
<1>3. -1 \in -1..(Size - 2)
  BY SizesAreNumbers
<1>4. Orderly(p, n + 1)
  <2>1. Len(p) <= n + 1
    BY <1>1 DEF Orderly
  <2> SUFFICES ASSUME NEW i \in DOMAIN p
               PROVE  /\ p[i].of = n + 1 - Len(p) + i
                      /\ p[i].cursor \in -1..(Size - 2)
                      /\ i # 1 => p[i].cursor = -1
    BY <2>1 DEF Orderly
  <2>2. CASE i \in DOMAIN q
    <3>1. /\ q[i].of = n - Len(q) + i /\ q[i].cursor \in -1..(Size - 2)
          /\ i # 1 => q[i].cursor = -1
      BY <2>2 DEF Orderly
    <3>2. i \in Nat
      BY <2>2
    <3>3. n + 1 - Len(p) + i = n - Len(q) + i
      BY <1>1, <3>2
    <3> QED BY <1>1, <2>2, <3>1, <3>3
  <2>3. CASE i = Len(q) + 1
    <3>1. n + 1 - Len(p) + i = n + 1
      BY <1>1, <2>3
    <3> QED BY <1>1, <1>3, <2>3, <3>1
  <2> QED BY <1>1, <2>2, <2>3
<1>5. FrameAt(p) = FrameAt(q)
  BY <1>1, <1>2 DEF FrameAt
<1> QED BY <1>1, <1>2, <1>4, <1>5 DEF p

\* The first query leaves the queue.
LEMMA Left ==
  ASSUME NEW S, NEW q \in Seq(Queued(S)), NEW n \in Nat, Orderly(q, n), q # <<>>
  PROVE  /\ Orderly(Tail(q), n) /\ n - Len(Tail(q)) = n - Len(q) + 1
         /\ FrameAt(Tail(q)) = Idle
<1> DEFINE p == Tail(q)
<1>1. /\ Len(p) = Len(q) - 1 /\ Len(q) \in Nat
      /\ \A i \in DOMAIN p : i \in Nat \ {0} /\ i + 1 \in DOMAIN q /\ p[i] = q[i + 1]
      /\ p # <<>> => Head(p) = p[1] /\ 1 \in DOMAIN p
      /\ p \in Seq(Queued(S))
  OBVIOUS
<1> HIDE DEF p
<1>2. Len(q) <= n /\ \A i \in DOMAIN q : /\ q[i].of = n - Len(q) + i
                                         /\ q[i].cursor \in -1..(Size - 2)
                                         /\ i # 1 => q[i].cursor = -1
  BY DEF Orderly
<1>3. ASSUME NEW i \in DOMAIN p
      PROVE  /\ p[i].of = n - Len(p) + i
             /\ p[i].cursor \in -1..(Size - 2)
             /\ p[i].cursor = -1
  <2>1. /\ q[i + 1].of = n - Len(q) + (i + 1)
        /\ q[i + 1].cursor \in -1..(Size - 2)
        /\ i + 1 # 1 => q[i + 1].cursor = -1
    BY <1>1, <1>2
  <2>2. i \in Nat \ {0} /\ Len(p) = Len(q) - 1 /\ Len(q) \in Nat
    BY <1>1
  <2>3. i + 1 # 1 /\ n - Len(q) + (i + 1) = n - Len(p) + i
    BY <2>2
  <2> QED BY <1>1, <2>1, <2>3
<1>4. Len(p) <= n /\ n - Len(p) = n - Len(q) + 1
  BY <1>1, <1>2
<1>5. Orderly(p, n)
  BY <1>3, <1>4 DEF Orderly
<1>6. FrameAt(p) = Idle
  BY <1>1, <1>3 DEF FrameAt
<1> QED BY <1>4, <1>5, <1>6 DEF p

\* The cursor of the first query moves.
LEMMA Replaced ==
  ASSUME NEW S, NEW q \in Seq(Queued(S)), NEW n \in Nat, Orderly(q, n), q # <<>>,
         NEW out \in Queued(S), out.of = Head(q).of, out.cursor \in -1..(Size - 2),
         NEW p \in Seq(Queued(S)), Len(p) = Len(q), p[1] = out,
         \A i \in DOMAIN p : i # 1 => p[i] = q[i]
  PROVE  Orderly(p, n) /\ p # <<>> /\ Head(p) = out
<1>1. /\ DOMAIN p = DOMAIN q /\ p # <<>> /\ Head(p) = out /\ Head(q) = q[1]
      /\ 1 \in DOMAIN q /\ Len(q) \in Nat
  OBVIOUS
<1>2. Len(q) <= n /\ \A i \in DOMAIN q : /\ q[i].of = n - Len(q) + i
                                         /\ q[i].cursor \in -1..(Size - 2)
                                         /\ i # 1 => q[i].cursor = -1
  BY DEF Orderly
<1>3. ASSUME NEW i \in DOMAIN p
      PROVE  /\ p[i].of = n - Len(p) + i
             /\ p[i].cursor \in -1..(Size - 2)
             /\ i # 1 => p[i].cursor = -1
  <2>1. CASE i = 1
    <3>1. q[1].of = n - Len(q) + 1
      BY <1>1, <1>2
    <3> QED BY <1>1, <2>1, <3>1
  <2>2. CASE i # 1
    BY <1>1, <1>2, <2>2
  <2> QED BY <2>1, <2>2
<1> QED BY <1>1, <1>2, <1>3 DEF Orderly

LEMMA Fronted ==
  ASSUME NEW T, NEW q \in Seq(T), q # <<>>, NEW out \in T
  PROVE  /\ <<out>> \o Tail(q) \in Seq(T) /\ Len(<<out>> \o Tail(q)) = Len(q)
         /\ (<<out>> \o Tail(q))[1] = out
         /\ \A i \in DOMAIN (<<out>> \o Tail(q)) : i # 1 => (<<out>> \o Tail(q))[i] = q[i]
OBVIOUS

LEMMA GotOneMore ==
  ASSUME NEW got, NEW n \in Nat, GotThem(got, n)
  PROVE  GotThem(Append(got, n + 1), n + 1)
<1> DEFINE more == Append(got, n + 1)
<1>1. /\ more \in Seq(Nat) /\ Len(more) = n + 1 /\ more[n + 1] = n + 1
      /\ \A i \in DOMAIN more : i = n + 1 \/ (i \in DOMAIN got /\ more[i] = got[i])
  BY DEF GotThem
<1> HIDE DEF more
<1>2. \A i \in DOMAIN more : more[i] = i
  BY <1>1 DEF GotThem
<1>3. GotThem(more, n + 1)
  BY <1>1, <1>2 DEF GotThem
<1> QED BY <1>3 DEF more
-----------------------------------------------------------------------------
(* The steps once more, for the order of the queries.                      *)

LEMMA InitInOrder == RodneyInit => InOrder
<1> SUFFICES ASSUME RodneyInit PROVE InStep
  BY DEF InOrder
<1>1. queue = <<>> /\ asked = 0 /\ requests = <<>> /\ erq_ticket = 0 /\ received = <<>>
  BY DEF RodneyInit
<1>2. Orderly(queue, asked)
  BY <1>1 DEF Orderly
<1>3. Under(requests, queue, erq_ticket, sending)
  BY <1>1, NothingUnder
<1>4. Framed(lines, erq_ticket, queue)
  BY <1>1 DEF Framed, FrameAt
<1>5. GotThem(received, asked - Len(queue))
  <2>0. asked = 0 /\ Len(queue) = 0
    BY <1>1
  <2>1. asked - Len(queue) = 0
    BY <2>0
  <2>2. <<>> \in Seq(Nat) /\ Len(<<>>) = 0 /\ \A i \in DOMAIN <<>> : <<>>[i] = i
    OBVIOUS
  <2> QED BY <1>1, <2>1, <2>2 DEF GotThem
<1> QED BY <1>2, <1>3, <1>4, <1>5 DEF InStep

\* What is answered is the only request.
LEMMA OnlyRequest ==
  ASSUME RodneyInv, InStep, requests # <<>>
  PROVE  /\ Tail(requests) = <<>> /\ Head(requests) = requests[1] /\ queue # <<>>
         /\ Head(requests).kind = "open" => Head(queue).cursor = -1
         /\ Head(requests).kind = "send" =>
              /\ erq_ticket # 0 /\ Head(requests).ticket = erq_ticket
              /\ Head(requests).of = Head(queue).of
              /\ Head(requests).piece = Piece(Head(queue))
              /\ sending = Piece(Head(queue)).move
<1>1. Under(requests, queue, erq_ticket, sending)
  BY DEF InStep
<1>2. Tail(requests) = <<>> /\ Head(requests) = requests[1]
  BY <1>1, Known, Emptied DEF Under
<1> QED BY <1>1, <1>2 DEF Under

LEMMA Numbers ==
  ASSUME RodneyInv, InStep
  PROVE  /\ asked \in Nat /\ Len(queue) \in Nat /\ asked - Len(queue) \in Nat
         /\ queue \in Seq(Queued(Own)) /\ Orderly(queue, asked)
         /\ Under(requests, queue, erq_ticket, sending)
         /\ Framed(lines, erq_ticket, queue)
         /\ GotThem(received, asked - Len(queue))
<1>1. asked \in Nat /\ Len(queue) \in Nat /\ queue \in Seq(Queued(Own))
  BY Known DEF RodneyInv, RodneyTypes
<1>2. Len(queue) <= asked
  BY DEF InStep, Orderly
<1> QED BY <1>1, <1>2 DEF InStep

LEMMA QueryInStep ==
  ASSUME RodneyInv, InStep, rodney_query, ~overlapped'
  PROVE  InStep'
<1> DEFINE entry == [of |-> asked + 1, tid |-> get_transaction_id, cursor |-> -1]
           q == Append(queue, entry)
<1>1. /\ asked' = asked + 1 /\ queue' = q /\ UNCHANGED <<erq_ticket, lines, received>>
  BY DEF rodney_query
<1>2. get_transaction_id \in Tids /\ asked + 1 \in Nat
  BY NewTid, Numbers
<1>3. entry.of = asked + 1 /\ entry.cursor = -1
  OBVIOUS
<1>4. entry \in Queued({<<asked + 1, get_transaction_id>>})
  BY <1>2 DEF Queued
<1> DEFINE S == Own \cup {<<asked + 1, get_transaction_id>>}
<1>5. Queued(Own) \subseteq Queued(S)
        /\ Queued({<<asked + 1, get_transaction_id>>}) \subseteq Queued(S)
  BY DEF Queued
<1> HIDE DEF S, entry
<1>6. queue \in Seq(Queued(S)) /\ entry \in Queued(S)
  <2>1. queue \in Seq(Queued(Own))
    BY Numbers
  <2>2. queue \in Seq(Queued(S))
    BY <1>5, <2>1
  <2> QED BY <1>4, <1>5, <2>2
<1>7. /\ Orderly(q, asked + 1) /\ q # <<>>
      /\ asked + 1 - Len(q) = asked - Len(queue)
      /\ FrameAt(q) = FrameAt(queue)
      /\ queue # <<>> => Head(q) = Head(queue)
  BY <1>3, <1>6, Numbers, Joined
<1>8. Head(q).cursor = -1 \/ FrameAt(q) # Idle
  <2>1. q \in Seq(Queued(S)) /\ asked + 1 \in Nat
    BY <1>2, <1>6
  <2> HIDE DEF q
  <2> QED BY <1>7, <2>1, FirstOf
<1> HIDE DEF q
<1>9. Framed(lines', erq_ticket', queue')
  BY <1>1, <1>7, Numbers DEF Framed
<1>10. Under(requests, q, erq_ticket, sending)
  BY <1>7, Numbers DEF Under
<1>11. Under(requests', queue', erq_ticket', sending')
  <2>1. CASE erq_ticket = 0
    <3> DEFINE open == [kind |-> "open"]
    <3>1. Requested(requests, open)
      BY <2>1 DEF rodney_query
    <3>2. requests = <<>> /\ requests' = Append(requests, open)
      BY <3>1 DEF Requested
    <3>3. open.kind = "open"
      OBVIOUS
    <3> HIDE DEF open
    <3>4. requests' # <<>> /\ Len(requests') = 1 /\ requests'[1] = open
      BY <3>2, Single
    <3>5. FrameAt(q) = Idle
      BY <1>7, <2>1, Numbers DEF Framed
    <3> QED BY <1>1, <1>7, <1>8, <3>3, <3>4, <3>5 DEF Under
  <2>2. CASE erq_ticket # 0
    <3>1. flush_queue(requests, erq_ticket, q, flushing, sending)
      BY <2>2 DEF rodney_query, q, entry
    <3> QED BY <1>1, <1>10, <3>1, Flushed
  <2> QED BY <2>1, <2>2
<1>12. GotThem(received', asked' - Len(queue'))
  BY <1>1, <1>7, Numbers
<1> QED BY <1>1, <1>7, <1>9, <1>11, <1>12 DEF InStep

LEMMA CallOutInStep ==
  ASSUME RodneyInv, InStep, call_out, ~overlapped'
  PROVE  InStep'
<1>1. UNCHANGED <<erq_ticket, queue, lines, asked, received>>
        /\ flush_queue(requests, erq_ticket, queue, FALSE, sending)
  BY DEF call_out
<1>2. Under(requests', queue, erq_ticket, sending')
  BY <1>1, Numbers, Flushed
<1> QED BY <1>1, <1>2 DEF InStep

LEMMA OpenedInStep ==
  ASSUME RodneyInv, InStep, opened, ~overlapped'
  PROVE  InStep'
<1> DEFINE n == Len(lines) + 1
<1>1. /\ lines' = Append(lines, Line) /\ erq_ticket' = n
      /\ UNCHANGED <<queue, asked, received>>
      /\ flush_queue(Tail(requests), n, queue, flushing, sending)
      /\ requests # <<>> /\ Head(requests).kind = "open"
  BY DEF opened
<1>2. Tail(requests) = <<>> /\ Head(queue).cursor = -1
  BY <1>1, OnlyRequest
<1>3. lines'[n] = Line /\ n # 0
  BY <1>1, Known
<1> HIDE DEF n
<1>4. Line.frame = Idle
  BY DEF Line
<1>5. Framed(lines', n, queue)
  BY <1>2, <1>3, <1>4 DEF Framed, FrameAt
<1>6. Under(requests', queue, n, sending')
  BY <1>1, <1>2, NothingUnder, Flushed
<1> QED BY <1>1, <1>5, <1>6 DEF InStep

LEMMA NotOpenedInStep ==
  ASSUME RodneyInv, InStep, not_opened
  PROVE  InStep'
<1>1. UNCHANGED <<erq_ticket, sending, queue, lines, asked, received>>
        /\ requests # <<>> /\ requests' = Tail(requests)
  BY DEF not_opened
<1>2. requests' = <<>>
  BY <1>1, OnlyRequest
<1> QED BY <1>1, <1>2, NothingUnder DEF InStep

\* A piece that is under way is always one of a query that waits.
LEMMA NothingVanished ==
  ASSUME RodneyInv, InStep, Answered
  PROVE  queue # <<>> /\ ~vanished
<1>1. requests # <<>>
  BY DEF Answered
<1>2. queue # <<>>
  BY <1>1, OnlyRequest
<1> QED BY <1>2 DEF vanished

\* send_callback() with a cursor that is right about what the line has got.
LEMMA GoesOn ==
  ASSUME RodneyInv, InStep, Answered, ~overlapped', UNCHANGED <<erq_ticket, asked>>,
         NEW cursor \in Int, cursor >= -1, send_done(cursor)
  PROVE  /\ Orderly(queue', asked) /\ Under(requests', queue', erq_ticket', sending')
         /\ cursor >= Size - 1 =>
              /\ asked - Len(queue') = asked - Len(queue) + 1
              /\ FrameAt(queue') = Idle
         /\ cursor < Size - 1 =>
              /\ Len(queue') = Len(queue)
              /\ FrameAt(queue') =
                   IF cursor = -1 THEN Idle
                     ELSE [of |-> Head(queue).of, have |-> cursor + 1]
<1> DEFINE out == [Head(queue) EXCEPT !.cursor = cursor]
           q == IF cursor >= Size - 1 THEN Tail(queue) ELSE <<out>> \o Tail(queue)
<1>1. queue # <<>> /\ Tail(requests) = <<>>
  BY NothingVanished, OnlyRequest DEF Answered
<1>2. Head(queue) \in Queued(Own)
  BY <1>1, HeadOK
<1>3. out \in Queued(Own) /\ out.of = Head(queue).of /\ out.cursor = cursor
  BY <1>2, MovedOn DEF Queued
<1>4. queue' = q /\ flush_queue(Tail(requests), erq_ticket, q, flushing, 0)
  BY DEF send_done
<1> HIDE DEF out
<1>5. Under(requests', queue', erq_ticket', sending')
  BY <1>1, <1>4, NothingUnder, Flushed
<1>6. CASE cursor >= Size - 1
  <2>1. queue' = Tail(queue)
    BY <1>4, <1>6
  <2>2. /\ Orderly(Tail(queue), asked) /\ FrameAt(Tail(queue)) = Idle
        /\ asked - Len(Tail(queue)) = asked - Len(queue) + 1
    BY <1>1, Numbers, Left
  <2> QED BY <1>5, <1>6, <2>1, <2>2, SizesAreNumbers
<1>7. CASE cursor < Size - 1
  <2>1. queue' = <<out>> \o Tail(queue)
    BY <1>4, <1>7, SizesAreNumbers
  <2>2. /\ queue' \in Seq(Queued(Own)) /\ Len(queue') = Len(queue) /\ queue'[1] = out
        /\ \A i \in DOMAIN queue' : i # 1 => queue'[i] = queue[i]
    BY <1>1, <1>3, <2>1, Numbers, Fronted
  <2>3. out.cursor \in -1..(Size - 2)
    BY <1>3, <1>7, SizesAreNumbers
  <2>4. Orderly(queue', asked) /\ queue' # <<>> /\ Head(queue') = out
    BY <1>1, <1>3, <2>2, <2>3, Numbers, Replaced
  <2>5. FrameAt(queue') = IF cursor = -1 THEN Idle
                            ELSE [of |-> Head(queue).of, have |-> cursor + 1]
    BY <1>3, <2>4 DEF FrameAt
  <2> QED BY <1>5, <1>7, <2>2, <2>4, <2>5, SizesAreNumbers
<1> QED BY <1>6, <1>7, SizesAreNumbers

\* A part of the piece is written and the cursor follows.
LEMMA Progress ==
  ASSUME RodneyInv, InStep, Answered, Alive, ~overlapped', UNCHANGED <<erq_ticket, asked>>,
         NEW count \in Nat, Write(Head(requests), count),
         NEW cursor \in Int, send_done(cursor),
         \/ Head(queue).cursor + 1 + count = Size /\ cursor >= Size - 1
         \/ /\ Head(queue).cursor + 1 + count < Size
            /\ cursor = Head(queue).cursor + count /\ cursor >= 0
  PROVE  InStep'
<1> DEFINE r == Head(requests)
           out == Head(queue)
           line == lines[r.ticket]
           changed == Written(line, r, r.piece.header, count)
<1>1. /\ queue # <<>> /\ r.kind = "send" /\ erq_ticket # 0 /\ r.ticket = erq_ticket
      /\ r.of = out.of /\ r.piece = Piece(out)
  BY NothingVanished, OnlyRequest DEF Answered
<1>2. /\ out.of = asked - Len(queue) + 1 /\ out.of \in Nat \ {0}
      /\ out.cursor \in -1..(Size - 2)
      /\ FrameAt(queue) = IF out.cursor = -1 THEN Idle
                            ELSE [of |-> out.of, have |-> out.cursor + 1]
  BY <1>1, Numbers, FirstOf
<1>3. line \in LinesOf(Own) /\ line.open /\ erq_ticket \in DOMAIN lines
        /\ line.frame = FrameAt(queue)
  BY <1>1, Known, AnsweredOK, Numbers DEF Alive, Framed
<1>4. /\ lines' = [lines EXCEPT ![erq_ticket] = changed]
      /\ received' = IF Got(line, r, count) THEN Append(received, out.of) ELSE received
  BY <1>1 DEF Write
<1> HIDE DEF r, out, line
<1>5. out.cursor + 1 + count <= Size
  BY <1>2, SizesAreNumbers DEF out
<1>6. /\ changed.open = line.open
      /\ changed.frame = IF out.cursor + 1 + count < Size
                           THEN [of |-> out.of, have |-> out.cursor + 1 + count] ELSE Idle
      /\ Got(line, r, count) <=> out.cursor + 1 + count = Size
  <2>1. line.frame = IF out.cursor = -1 THEN Idle
                       ELSE [of |-> out.of, have |-> out.cursor + 1]
    BY <1>2, <1>3
  <2>2. r.of = out.of /\ r.piece = Piece(out) /\ line \in LinesOf(Own)
    BY <1>1, <1>3
  <2>3. out.of \in Nat \ {0} /\ out.cursor \in -1..(Size - 2)
    BY <1>2
  <2> QED BY <1>5, <2>1, <2>2, <2>3, Taken
<1> HIDE DEF changed
<1>7. lines'[erq_ticket] = changed
  BY <1>3, <1>4
<1>8. CASE out.cursor + 1 + count = Size /\ cursor >= Size - 1
  <2>1. /\ Orderly(queue', asked) /\ Under(requests', queue', erq_ticket', sending')
        /\ asked - Len(queue') = asked - Len(queue) + 1
        /\ FrameAt(queue') = Idle
    BY <1>8, GoesOn, SizesAreNumbers
  <2>2. changed.frame = Idle /\ received' = Append(received, out.of)
    BY <1>4, <1>6, <1>8, SizesAreNumbers
  <2>3. GotThem(received', asked - Len(queue) + 1)
    BY <1>2, <2>2, Numbers, GotOneMore
  <2>4. Framed(lines', erq_ticket', queue')
    BY <1>1, <1>7, <2>1, <2>2 DEF Framed
  <2> QED BY <2>1, <2>3, <2>4 DEF InStep
<1>9. CASE out.cursor + 1 + count < Size /\ cursor = out.cursor + count /\ cursor >= 0
  <2>1. cursor < Size - 1 /\ cursor # -1 /\ cursor >= -1 /\ cursor + 1 = out.cursor + 1 + count
    BY <1>2, <1>9, SizesAreNumbers
  <2>2. /\ Orderly(queue', asked) /\ Under(requests', queue', erq_ticket', sending')
        /\ Len(queue') = Len(queue)
        /\ FrameAt(queue') = [of |-> out.of, have |-> cursor + 1]
    BY <2>1, GoesOn DEF out
  <2>3. ~(out.cursor + 1 + count = Size)
    BY <1>2, <1>9, SizesAreNumbers
  <2>4. changed.frame = [of |-> out.of, have |-> cursor + 1] /\ received' = received
    BY <1>4, <1>6, <1>9, <2>1, <2>3
  <2>5. Framed(lines', erq_ticket', queue')
    BY <1>1, <1>7, <2>2, <2>4 DEF Framed
  <2> QED BY <2>2, <2>4, <2>5, Numbers DEF InStep
<1> QED BY <1>8, <1>9 DEF out

\* Nothing is written: it is for the line and the cursor to be right still.
LEMMA Unsent ==
  ASSUME RodneyInv, InStep, UNCHANGED <<erq_ticket, queue, asked, lines, received>>,
         requests' = <<>>
  PROVE  InStep'
BY NothingUnder DEF InStep

LEMMA SentOKInStep ==
  ASSUME RodneyInv, InStep, sent_ok, ~overlapped'
  PROVE  InStep'
<1> DEFINE out == Head(queue)
           r == Head(requests)
<1>1. /\ Answered /\ Alive /\ Write(r, Length(r)) /\ UNCHANGED <<erq_ticket, asked>>
      /\ vanished \/ send_done(out.cursor + sending)
  BY DEF sent_ok
<1>2. queue # <<>> /\ send_done(out.cursor + sending)
  BY <1>1, NothingVanished
<1>3. r.piece = Piece(out) /\ sending = Piece(out).move
  BY <1>1, OnlyRequest DEF Answered
<1>4. out.cursor \in -1..(Size - 2)
  BY <1>2, Numbers, FirstOf
<1>5. /\ Piece(out).from = out.cursor + 1
      /\ Piece(out).to \in Int /\ Piece(out).move \in Nat
      /\ Piece(out).to <= Size - 1 /\ Piece(out).to >= out.cursor
      /\ out.cursor = -1 => Piece(out).to >= 0
      /\ out.cursor + Piece(out).move >= Size - 1 <=> Piece(out).to = Size - 1
      /\ out.cursor + Piece(out).move < Size - 1
           => out.cursor + Piece(out).move = Piece(out).to
  BY <1>4, PieceSizes
<1>6. Length(r) = Piece(out).to - Piece(out).from + 1
  BY <1>3 DEF Length
<1> DEFINE count == Length(r)
           cursor == out.cursor + sending
           to == Piece(out).to
<1>7. cursor = out.cursor + Piece(out).move /\ cursor \in Int
  BY <1>3, <1>4, <1>5
<1>8. count \in Nat /\ out.cursor + 1 + count = to + 1
  BY <1>4, <1>5, <1>6
<1>9. \/ out.cursor + 1 + count = Size /\ cursor >= Size - 1
      \/ out.cursor + 1 + count < Size /\ cursor = out.cursor + count /\ cursor >= 0
  <2>1. CASE to = Size - 1
    <3>1. to + 1 = Size
      BY <2>1, SizesAreNumbers
    <3> QED BY <1>5, <1>7, <1>8, <2>1, <3>1
  <2>2. CASE to # Size - 1
    <3>1. to < Size - 1 /\ cursor < Size - 1 /\ cursor = to
      BY <1>5, <1>7, <2>2, SizesAreNumbers
    <3>2. out.cursor + 1 + count < Size /\ cursor = out.cursor + count
      BY <1>4, <1>5, <1>8, <3>1, SizesAreNumbers
    <3>3. cursor >= 0
      BY <1>4, <1>5, <3>1, SizesAreNumbers
    <3> QED BY <3>2, <3>3
  <2> QED BY <2>1, <2>2
<1>10. Write(r, count) /\ send_done(cursor)
  BY <1>1, <1>2
<1> HIDE DEF count, cursor
<1> QED BY <1>1, <1>7, <1>8, <1>9, <1>10, Progress

LEMMA IncompleteInStep ==
  ASSUME RodneyInv, InStep, incomplete, ~overlapped', ~cut'
  PROVE  InStep'
<1> DEFINE out == Head(queue)
           r == Head(requests)
           head == IF r.piece.header THEN 1 ELSE 0
<1>1. Answered /\ Alive /\ UNCHANGED <<erq_ticket, asked>>
  BY DEF incomplete
<1>2. PICK n \in 1..(Length(r) + head - 1) :
        /\ Write(r, n - head)
        /\ cut' = (cut \/ r.piece.header)
        /\ vanished \/ send_done(out.cursor + n)
  BY DEF incomplete
<1>3. ~r.piece.header /\ head = 0
  BY <1>2
<1>4. queue # <<>> /\ send_done(out.cursor + n)
  BY <1>1, <1>2, NothingVanished
<1>5. r.piece = Piece(out)
  BY <1>1, OnlyRequest DEF Answered
<1>6. out.cursor \in -1..(Size - 2)
  BY <1>4, Numbers, FirstOf
<1>7. /\ Piece(out).from = out.cursor + 1 /\ out.cursor # -1
      /\ Piece(out).to \in Int /\ Piece(out).to <= Size - 1
  BY <1>3, <1>5, <1>6, PieceSizes
<1>8. Length(r) = Piece(out).to - out.cursor
  BY <1>5, <1>6, <1>7 DEF Length
<1> HIDE DEF head
<1>9. n \in Nat /\ 1 <= n /\ n < Piece(out).to - out.cursor
  BY <1>3, <1>6, <1>7, <1>8
<1>10. n - head = n
  BY <1>3, <1>9
<1> DEFINE cursor == out.cursor + n
<1>11. /\ cursor \in Int /\ cursor >= 0
       /\ out.cursor + 1 + n < Size
  BY <1>6, <1>7, <1>9, SizesAreNumbers
<1>12. Write(r, n) /\ send_done(cursor) /\ cursor = out.cursor + n
  BY <1>2, <1>4, <1>10
<1> HIDE DEF cursor
<1> QED BY <1>1, <1>9, <1>11, <1>12, Progress

LEMMA WouldBlockInStep ==
  ASSUME RodneyInv, InStep, would_block
  PROVE  InStep'
<1>1. Answered /\ requests' = Tail(requests)
        /\ UNCHANGED <<erq_ticket, queue, asked, lines, received>>
  BY DEF would_block, Unwritten
<1>2. requests' = <<>>
  BY <1>1, OnlyRequest DEF Answered
<1> QED BY <1>1, <1>2, Unsent

LEMMA BadTicketInStep ==
  ASSUME RodneyInv, InStep, bad_ticket, ~overlapped'
  PROVE  InStep'
<1> DEFINE out == [queue[1] EXCEPT !.cursor = -1]
           open == [kind |-> "open"]
<1>1. Answered /\ ~Alive /\ UNCHANGED <<erq_ticket, asked, lines, received>>
  BY DEF bad_ticket, Unwritten
<1>2. /\ queue # <<>>
      /\ queue' = [queue EXCEPT ![1] = out]
      /\ Requested(Tail(requests), open)
  BY <1>1, NothingVanished DEF bad_ticket
<1>3. /\ queue[1] = Head(queue) /\ queue[1] \in Queued(Own) /\ 1 \in DOMAIN queue
  BY <1>2, HeadOK
<1>4. out \in Queued(Own) /\ out.of = Head(queue).of /\ out.cursor = -1
  BY <1>3, MovedOn DEF Queued
<1>5. open.kind = "open"
  OBVIOUS
<1> HIDE DEF out, open
<1>6. /\ queue' \in Seq(Queued(Own)) /\ Len(queue') = Len(queue) /\ queue'[1] = out
      /\ \A i \in DOMAIN queue' : i # 1 => queue'[i] = queue[i]
  BY <1>2, <1>3, <1>4, Numbers
<1>7. out.cursor \in -1..(Size - 2)
  BY <1>4, SizesAreNumbers
<1>8. Orderly(queue', asked) /\ queue' # <<>> /\ Head(queue') = out
  <2>1. queue # <<>>
    BY <1>2
  <2> QED BY <1>4, <1>6, <1>7, <2>1, Numbers, Replaced
<1>9. Tail(requests) = <<>> /\ erq_ticket # 0 /\ Head(requests).ticket = erq_ticket
  BY <1>1, OnlyRequest DEF Answered
<1>10. requests' = Append(<<>>, open)
  BY <1>2, <1>9 DEF Requested
<1>11. requests' # <<>> /\ Len(requests') = 1 /\ requests'[1] = open
  BY <1>10, Single
<1>12. Under(requests', queue', erq_ticket, sending')
  BY <1>4, <1>5, <1>8, <1>11 DEF Under
<1>13. Framed(lines, erq_ticket, queue')
  BY <1>1, <1>9 DEF Framed, Alive
<1> QED BY <1>1, <1>6, <1>8, <1>12, <1>13, Numbers DEF InStep

LEMMA SendFailedInStep ==
  ASSUME RodneyInv, InStep, send_failed, ~overlapped'
  PROVE  InStep'
<1> DEFINE out == Head(queue)
           cursor == out.cursor
<1>1. Answered /\ UNCHANGED <<erq_ticket, asked, lines, received>>
        /\ (vanished \/ send_done(cursor))
  BY DEF send_failed, Unwritten
<1>2. queue # <<>> /\ send_done(cursor)
  BY <1>1, NothingVanished
<1>3. /\ cursor \in -1..(Size - 2)
      /\ FrameAt(queue) = IF cursor = -1 THEN Idle
                            ELSE [of |-> out.of, have |-> cursor + 1]
  BY <1>2, Numbers, FirstOf
<1> HIDE DEF cursor
<1>4. cursor \in Int /\ cursor >= -1 /\ cursor < Size - 1
  BY <1>3, SizesAreNumbers
<1>5. /\ Orderly(queue', asked) /\ Under(requests', queue', erq_ticket', sending')
      /\ Len(queue') = Len(queue) /\ FrameAt(queue') = FrameAt(queue)
  BY <1>1, <1>2, <1>3, <1>4, GoesOn
<1> QED BY <1>1, <1>5, Numbers DEF InStep, Framed

\* A line of which only the packets change, or that ends.
LEMMA LineInStep ==
  ASSUME RodneyInv, InStep, UNCHANGED <<erq_ticket, sending, queue, requests, asked, received>>,
         NEW c \in DOMAIN lines, NEW line, lines' = [lines EXCEPT ![c] = line],
         line.open => lines[c].open /\ line.frame = lines[c].frame
  PROVE  InStep'
<1>1. Framed(lines', erq_ticket, queue)
  <2>1. CASE erq_ticket = 0
    BY <2>1, Numbers DEF Framed
  <2>2. CASE erq_ticket # 0
    <3>1. erq_ticket \in DOMAIN lines
      BY <2>2, Known
    <3>2. lines'[erq_ticket] = IF erq_ticket = c THEN line ELSE lines[erq_ticket]
      BY <3>1, Known
    <3> QED BY <2>2, <3>2, Numbers DEF Framed
  <2> QED BY <2>1, <2>2
<1> QED BY <1>1 DEF InStep

LEMMA PacketInStep ==
  ASSUME RodneyInv, InStep, NEW c \in DOMAIN lines, packet(c)
  PROVE  InStep'
<1>1. UNCHANGED <<erq_ticket, sending, queue, requests, asked, received>>
  BY DEF packet
<1>2. PICK n \in 1..4 : lines' = [lines EXCEPT ![c].back = SubSeq(@, n + 1, Len(@))]
  BY DEF packet
<1> DEFINE back == SubSeq(lines[c].back, n + 1, Len(lines[c].back))
           line == [lines[c] EXCEPT !.back = back]
<1>3. lines' = [lines EXCEPT ![c] = line]
  BY <1>2
<1>4. lines[c] \in LinesOf(Own)
  BY Known
<1> HIDE DEF back
<1>5. line.open = lines[c].open /\ line.frame = lines[c].frame
  BY <1>4 DEF LinesOf
<1> HIDE DEF line
<1> QED BY <1>1, <1>3, <1>5, LineInStep

LEMMA HangupInStep ==
  ASSUME RodneyInv, InStep, NEW c \in DOMAIN lines, Hangup(c)
  PROVE  InStep'
<1> DEFINE line == [Line EXCEPT !.open = FALSE]
<1>1. lines' = [lines EXCEPT ![c] = line]
        /\ UNCHANGED <<erq_ticket, sending, queue, requests, asked, received>>
  BY DEF Hangup
<1>2. ~line.open
  BY DEF Line
<1> HIDE DEF line
<1> QED BY <1>1, <1>2, LineInStep

\* What was overlapped or cut stays so.
LEMMA OnceDisturbed ==
  ASSUME RodneyNext, ~overlapped', ~cut'
  PROVE  ~overlapped /\ ~cut
<1>1. \A waiting, r : Requested(waiting, r) => ~overlapped
  BY DEF Requested
<1>2. \A waiting, ticket, q, pending, sent :
        flush_queue(waiting, ticket, q, pending, sent) => ~overlapped
  BY <1>1 DEF flush_queue
<1>3. \A cursor : send_done(cursor) => ~overlapped
  BY <1>2 DEF send_done
<1>4. vanished => ~overlapped
  BY DEF vanished
<1>5. ~overlapped
  <2>1. CASE rodney_query
    BY <1>1, <1>2, <2>1 DEF rodney_query
  <2>2. CASE call_out \/ opened
    BY <1>2, <2>2 DEF call_out, opened
  <2>3. CASE not_opened \/ would_block \/ Tick
    BY <2>3 DEF not_opened, would_block, Tick
  <2>4. CASE sent_ok \/ send_failed
    BY <1>3, <1>4, <2>4 DEF sent_ok, send_failed
  <2>5. CASE incomplete
    BY <1>3, <1>4, <2>5 DEF incomplete
  <2>6. CASE bad_ticket
    BY <1>1, <1>4, <2>6 DEF bad_ticket
  <2>7. CASE \E c \in DOMAIN lines : packet(c) \/ Hangup(c)
    BY <2>7 DEF packet, Hangup
  <2> QED BY <2>1, <2>2, <2>3, <2>4, <2>5, <2>6, <2>7 DEF RodneyNext
<1>6. ~cut
  <2>1. CASE incomplete
    BY <2>1 DEF incomplete
  <2>2. CASE ~incomplete
    BY <2>2 DEF RodneyNext, rodney_query, call_out, opened, not_opened, sent_ok,
                would_block, bad_ticket, send_failed, packet, Hangup, Tick
  <2> QED BY <2>1, <2>2
<1> QED BY <1>5, <1>6

LEMMA StepInOrder ==
  ASSUME RodneyInv, InOrder, [RodneyNext]_rodneyVars
  PROVE  InOrder'
<1>1. CASE UNCHANGED rodneyVars
  BY <1>1 DEF rodneyVars, InOrder, InStep, Orderly, Under, Framed, FrameAt, GotThem
<1>2. CASE RodneyNext
  <2> SUFFICES ASSUME ~overlapped', ~cut' PROVE InStep'
    BY DEF InOrder
  <2>1. InStep
    BY <1>2, OnceDisturbed DEF InOrder
  <2>2. CASE rodney_query
    BY <2>1, <2>2, QueryInStep
  <2>3. CASE call_out
    BY <2>1, <2>3, CallOutInStep
  <2>4. CASE opened
    BY <2>1, <2>4, OpenedInStep
  <2>5. CASE not_opened
    BY <2>1, <2>5, NotOpenedInStep
  <2>6. CASE sent_ok
    BY <2>1, <2>6, SentOKInStep
  <2>7. CASE would_block
    BY <2>1, <2>7, WouldBlockInStep
  <2>8. CASE incomplete
    BY <2>1, <2>8, IncompleteInStep
  <2>9. CASE bad_ticket
    BY <2>1, <2>9, BadTicketInStep
  <2>10. CASE send_failed
    BY <2>1, <2>10, SendFailedInStep
  <2>11. CASE \E c \in DOMAIN lines : packet(c) \/ Hangup(c)
    BY <2>1, <2>11, PacketInStep, HangupInStep
  <2>12. CASE Tick
    BY <2>1, <2>12 DEF Tick, InStep
  <2> QED BY <1>2, <2>2, <2>3, <2>4, <2>5, <2>6, <2>7, <2>8, <2>9, <2>10, <2>11,
             <2>12 DEF RodneyNext
<1> QED BY <1>1, <1>2

\* The service gets the queries whole, once and in their order, over lines that
\* block, break and are opened again, whatever the sizes of queries and packets,
\* as long as one request at a time is with the ERQ and no header is cut
\* (flush_queue(), send_callback(), open_callback()).
THEOREM QueriesAlwaysArriveInOrder == RodneySpec => []QueriesArriveInOrder
<1>1. RodneyInv /\ InOrder => QueriesArriveInOrder
  BY DEF InOrder, InStep, GotThem, QueriesArriveInOrder
<1>2. RodneyInv /\ InOrder /\ [RodneyNext]_rodneyVars => RodneyInv' /\ InOrder'
  BY RodneyStepInv, StepInOrder
<1>3. RodneyInit => RodneyInv /\ InOrder
  BY RodneyInitInv, InitInOrder
<1> QED BY <1>1, <1>2, <1>3, PTL DEF RodneySpec
-----------------------------------------------------------------------------
(***************************************************************************)
(* Proofs about MoveHook, for any objects and any depth of moves within    *)
(* moves: a move gives back this_player(), and makes all meet who should.  *)
(*                                                                         *)
(* The first invariant is about the moves that are going on, but for the   *)
(* misled: one that has noted its player has noted what it found, as far   *)
(* as that still exists; one that has not yet will find it: it is what the *)
(* move within it found, or, for the innermost, the player.  That is also  *)
(* where the item of a move is found that is in the destination's init().  *)
(* The second is about the moves that nothing has disturbed.               *)
(***************************************************************************)
Movable == Rooms \cup Things

Unnoted ==
  {"begun", "prevent_leave", "left", "prevent_move", "prevent_enter",
   "leave_signal", "moved", "move_signal", "enter_signal"}

Noting ==
  {"entered", "dest_init", "item_init", "other_init", "met", "dest_met", "done"}

Moves ==
  [item : Things, dest : Movable, origin : Movable, at : Unnoted \cup Noting,
   others : SUBSET Things, oldp : Movable \cup {Nobody},
   found : Movable \cup {Nobody}, met : SUBSET (Movable \X Movable),
   disturbed : BOOLEAN, strayed : BOOLEAN, misled : BOOLEAN]

Types ==
  /\ env \in [Things -> Movable] /\ present \subseteq Things
  /\ player \in Movable \cup {Nobody}
  /\ moves \in Seq(Moves)

HasNoted(m) == m.at \in Noting

\* `sees` is the player that the move finds when it goes on.
GivesBack(m, sees) ==
  /\ ~m.misled => /\ HasNoted(m) => Now(m.oldp) = Now(m.found)
                  /\ ~HasNoted(m) => sees = Now(m.found)
  /\ m.at = "dest_init" /\ ~m.strayed => sees = Now(m.item)

Sees(i) == IF i = Len(moves) THEN player ELSE Now(moves[i + 1].found)

AllGiveBack == \A i \in 1..Len(moves) : GivesBack(moves[i], Sees(i))

HookInv == Types /\ player = Now(player) /\ AllGiveBack /\ PlayerIsRestored
-----------------------------------------------------------------------------
LEMMA Tops ==
  ASSUME NEW S, NEW s \in Seq(S), s # <<>>
  PROVE  /\ Len(s) \in Nat \ {0}
         /\ Front(s) \in Seq(S) /\ Len(Front(s)) = Len(s) - 1
         /\ Last(s) = s[Len(s)] /\ Last(s) \in S
         /\ \A i \in 1..(Len(s) - 1) : Front(s)[i] = s[i]
<1>1. Len(s) \in Nat \ {0}
  BY EmptySeq
<1>2. Last(s) = s[Len(s)] /\ Last(s) \in S
  BY <1>1 DEF Last
<1>3. Front(s) = SubSeq(s, 1, Len(s) - 1)
  BY DEF Front
<1>4. /\ Front(s) \in Seq(S) /\ Len(Front(s)) = Len(s) - 1
      /\ \A i \in 1..(Len(s) - 1) : Front(s)[i] = s[i]
  <2> DEFINE k == Len(s) - 1
  <2>1. k \in Nat /\ (\A i \in 1..k : s[i] \in S)
    BY <1>1
  <2>2. /\ SubSeq(s, 1, k) \in Seq(S)
        /\ Len(SubSeq(s, 1, k)) = IF 1 <= k THEN k - 1 + 1 ELSE 0
        /\ \A i \in 1..(k - 1 + 1) : SubSeq(s, 1, k)[i] = s[1 + i - 1]
    <3> HIDE DEF k
    <3> QED BY <2>1, SubSeqProperties
  <2> HIDE DEF k
  <2>3. Len(SubSeq(s, 1, k)) = k /\ (\A i \in 1..k : SubSeq(s, 1, k)[i] = s[i])
    BY <2>1, <2>2
  <2> QED BY <1>3, <2>2, <2>3 DEF k
<1> QED BY <1>1, <1>2, <1>4

LEMMA NowOf ==
  ASSUME Types
  PROVE  /\ \A o \in Movable \cup {Nobody} :
              Now(o) \in Movable \cup {Nobody} /\ Now(Now(o)) = Now(o)
         /\ \A o \in Rooms \cup present : Now(o) = o
         /\ Now(Nobody) = Nobody
BY DEF Types, Now, IsThere, Movable

\* Moves that differ in nothing that the player depends on.
Alike(a, b) ==
  /\ a.at = b.at /\ a.oldp = b.oldp /\ a.found = b.found /\ a.item = b.item
  /\ a.strayed = b.strayed /\ a.misled = b.misled

LEMMA DisturbedAreAlike ==
  ASSUME NEW s \in Seq(Moves)
  PROVE  /\ Disturbs(s) \in Seq(Moves) /\ Len(Disturbs(s)) = Len(s)
         /\ \A i \in 1..Len(s) : Alike(Disturbs(s)[i], s[i])
<1>1. ASSUME NEW i \in 1..Len(s)
      PROVE  [s[i] EXCEPT !.disturbed = TRUE] \in Moves
               /\ Alike([s[i] EXCEPT !.disturbed = TRUE], s[i])
  <2>1. s[i] \in Moves
    OBVIOUS
  <2> QED BY <2>1 DEF Moves, Unnoted, Noting, Alike
<1>2. Disturbs(s) = [i \in 1..Len(s) |-> [s[i] EXCEPT !.disturbed = TRUE]]
  BY DEF Disturbs
<1> QED BY <1>1, <1>2

\* The innermost move goes on, with a player that it can give back, or is
\* disturbed.
LEMMA AsBefore ==
  ASSUME HookInv, moves # <<>>, NEW m \in Moves, NEW outer \in Seq(Moves),
         moves' = Append(outer, m), Len(outer) = Len(moves) - 1,
         \A i \in 1..(Len(moves) - 1) : Alike(outer[i], moves[i]),
         m.found = Move.found, present' = present, GivesBack(m, player')
  PROVE  moves' \in Seq(Moves) /\ AllGiveBack'
<1>1. Len(moves) \in Nat \ {0} /\ Move = moves[Len(moves)]
  BY Tops DEF HookInv, Types, Move
<1>2. /\ moves' \in Seq(Moves) /\ Len(moves') = Len(moves) /\ moves'[Len(moves)] = m
      /\ \A i \in 1..(Len(moves) - 1) : moves'[i] = outer[i]
  BY <1>1
<1>3. ASSUME NEW o PROVE Now(o)' = Now(o)
  BY DEF Now, IsThere
<1>4. ASSUME NEW i \in 1..Len(moves), NEW sees, sees = Sees(i)',
             GivesBack(moves'[i], sees)
      PROVE  GivesBack(moves[i], Sees(i))'
  BY <1>3, <1>4 DEF GivesBack, HasNoted, Noting, Now, IsThere
<1>5. ASSUME NEW i \in 1..(Len(moves) - 1) PROVE GivesBack(moves[i], Sees(i))'
  <2>1. i \in 1..Len(moves) /\ i + 1 \in 1..Len(moves) /\ i # Len(moves)
    BY <1>1
  <2>2. Alike(moves'[i], moves[i]) /\ moves'[i + 1].found = moves[i + 1].found
    BY <1>1, <1>2, <2>1 DEF Alike
  <2>3. GivesBack(moves[i], Now(moves[i + 1].found))
    BY <2>1 DEF HookInv, AllGiveBack, Sees
  <2>4. GivesBack(moves'[i], Now(moves[i + 1].found))
    BY <2>2, <2>3 DEF Alike, GivesBack, HasNoted, Noting
  <2>5. Sees(i)' = Now(moves'[i + 1].found)
    BY <1>2, <1>3, <2>1 DEF Sees
  <2> QED BY <1>4, <2>1, <2>2, <2>4, <2>5
<1>6. GivesBack(moves[Len(moves)], Sees(Len(moves)))'
  BY <1>1, <1>2, <1>3 DEF Sees, GivesBack, HasNoted, Noting, Now, IsThere
<1> QED BY <1>1, <1>2, <1>5, <1>6 DEF AllGiveBack

\* The move is at another place, or has met more, and has noted its player or
\* has not as before; or it has just noted it.
LEMMA GoesOnAsItIs ==
  ASSUME HookInv, moves # <<>>, NEW m \in Moves, Goes(m), present' = present,
         m.found = Move.found, m.misled = Move.misled,
         m.at = "dest_init" => player' = Now(m.item),
         \/ m.oldp = Move.oldp /\ HasNoted(Move) /\ HasNoted(m)
         \/ player' = player /\ ~HasNoted(Move) /\ ~HasNoted(m)
         \/ m.oldp = player /\ ~HasNoted(Move) /\ HasNoted(m)
  PROVE  moves' \in Seq(Moves) /\ AllGiveBack'
<1>1. /\ Len(moves) \in Nat \ {0} /\ Move = moves[Len(moves)]
      /\ Outer \in Seq(Moves) /\ Len(Outer) = Len(moves) - 1
      /\ \A i \in 1..(Len(moves) - 1) : Alike(Outer[i], moves[i])
  BY Tops DEF HookInv, Types, Move, Outer, Alike
<1>2. GivesBack(Move, player) /\ player = Now(player)
  BY <1>1 DEF HookInv, AllGiveBack, Sees
<1>3. GivesBack(m, player')
  BY <1>2 DEF GivesBack
<1>4. moves' = Append(Outer, m)
  BY DEF Goes
<1> QED BY <1>1, <1>3, <1>4, AsBefore

\* The innermost move ends and has given back the player, or is astray and
\* misleads the one around it if that has not noted its player.
LEMMA Ending ==
  ASSUME HookInv, moves # <<>>, NEW how, NEW astray \in BOOLEAN,
         Ends(Move, how, astray), present' = present,
         Move.at = "dest_init" => player' = player,
         astray \/ Move.misled \/ player' = Now(Move.found)
  PROVE  moves' \in Seq(Moves) /\ AllGiveBack' /\ PlayerIsRestored'
<1> DEFINE n == Len(moves)
           wrong == astray \/ Move.misled
<1>1. /\ n \in Nat \ {0} /\ Move = moves[n] /\ Move \in Moves
      /\ Outer \in Seq(Moves) /\ Len(Outer) = n - 1
      /\ \A i \in 1..(n - 1) : Outer[i] = moves[i]
  BY Tops DEF HookInv, Types, Move, Outer
<1>2. ASSUME NEW o PROVE Now(o)' = Now(o)
  BY DEF Now, IsThere
<1>3. PlayerIsRestored'
  <2>1. ended'.move = Move /\ (ended'.astray <=> wrong)
    BY DEF Ends
  <2>2. ~wrong => player' = Now(Move.found)
    BY <1>1 DEF Moves, Unnoted, Noting
  <2>3. GivesBack(Move, player)
    BY <1>1 DEF HookInv, AllGiveBack, Sees
  <2>4. Move.at = "dest_init" /\ ~Move.strayed => player' = Now(Move.item)
    BY <2>3 DEF GivesBack
  <2>5. ~ended'.astray => player' = Now(Move.found)
    BY <2>1, <2>2
  <2> QED BY <1>2, <2>1, <2>4, <2>5 DEF PlayerIsRestored, Now, IsThere
<1>4. ASSUME NEW i \in 1..n, NEW sees, sees = Sees(i)', GivesBack(moves'[i], sees)
      PROVE  GivesBack(moves[i], Sees(i))'
  BY <1>2, <1>4 DEF GivesBack, HasNoted, Noting, Now, IsThere
<1>5. ASSUME NEW i \in 1..(n - 1)
      PROVE  GivesBack(moves[i], Now(moves[i + 1].found)) /\ i \in 1..n /\ i + 1 \in 1..n
  <2>1. i \in 1..n /\ i + 1 \in 1..n /\ i # n
    BY <1>1
  <2> QED BY <2>1 DEF HookInv, AllGiveBack, Sees
<1>6. CASE Outer = <<>> \/ ~wrong
  <2>1. moves' = Outer
    BY <1>6 DEF Ends
  <2>2. ASSUME NEW i \in 1..(n - 1) PROVE GivesBack(moves[i], Sees(i))'
    <3>1. Outer # <<>> /\ ~wrong
      BY <1>1, <1>6, <2>2
    <3>2. player' = Now(moves[n].found)
      BY <1>1, <3>1
    <3>3. Sees(i)' = Now(moves[i + 1].found)
      <4>1. CASE i = n - 1
        BY <1>1, <2>1, <3>2, <4>1 DEF Sees
      <4>2. CASE i # n - 1
        <5>1. i + 1 \in 1..(n - 1) /\ i # Len(moves')
          BY <1>1, <2>1, <4>2
        <5> QED BY <1>1, <1>2, <2>1, <5>1 DEF Sees
      <4> QED BY <4>1, <4>2
    <3> QED BY <1>1, <1>4, <1>5, <2>1, <3>3
  <2> QED BY <1>1, <1>3, <2>1, <2>2 DEF AllGiveBack
<1>7. CASE Outer # <<>> /\ wrong
  <2> DEFINE misled == Last(Outer).misled \/ ~Noted(Last(Outer))
             m == [Last(Outer) EXCEPT !.strayed = TRUE, !.misled = misled]
  <2>1. moves' = Append(Front(Outer), m)
    BY <1>7 DEF Ends
  <2>2. /\ n - 1 \in 1..n /\ Last(Outer) = moves[n - 1] /\ Last(Outer) \in Moves
        /\ Front(Outer) \in Seq(Moves) /\ Len(Front(Outer)) = n - 2
        /\ \A i \in 1..(n - 2) : Front(Outer)[i] = moves[i]
    <3>1. /\ Len(Outer) \in Nat \ {0} /\ Last(Outer) = Outer[Len(Outer)]
          /\ Last(Outer) \in Moves
          /\ Front(Outer) \in Seq(Moves) /\ Len(Front(Outer)) = Len(Outer) - 1
          /\ \A i \in 1..(Len(Outer) - 1) : Front(Outer)[i] = Outer[i]
      BY <1>1, <1>7, Tops
    <3>2. n - 1 \in 1..(n - 1) /\ n - 1 \in 1..n
          /\ \A i \in 1..(n - 2) : i \in 1..(n - 1)
      BY <1>1, <3>1
    <3> QED BY <1>1, <3>1, <3>2
  <2>3. /\ m \in Moves /\ m.found = moves[n - 1].found /\ m.at = moves[n - 1].at
        /\ m.oldp = moves[n - 1].oldp /\ m.strayed
        /\ m.misled = (moves[n - 1].misled \/ ~Noted(moves[n - 1]))
    BY <2>2 DEF Moves, Unnoted, Noting, Noted
  <2>4. /\ moves' \in Seq(Moves) /\ Len(moves') = n - 1 /\ moves'[n - 1] = m
        /\ \A i \in 1..(n - 2) : moves'[i] = moves[i]
    BY <1>1, <2>1, <2>2, <2>3
  <2>5. ASSUME NEW i \in 1..(n - 2) PROVE GivesBack(moves[i], Sees(i))'
    <3>1. i \in 1..(n - 1) /\ i # Len(moves') /\ i + 1 \in 1..(n - 1)
      BY <1>1, <2>4
    <3>2. moves'[i] = moves[i] /\ moves'[i + 1].found = moves[i + 1].found
      <4>1. moves'[i] = moves[i]
        BY <2>4, <2>5
      <4>2. CASE i + 1 = n - 1
        BY <2>3, <2>4, <4>1, <4>2
      <4>3. CASE i + 1 # n - 1
        <5>1. i + 1 \in 1..(n - 2)
          BY <1>1, <2>5, <4>3
        <5> QED BY <2>4, <4>1, <5>1
      <4> QED BY <4>2, <4>3
    <3>3. Sees(i)' = Now(moves[i + 1].found)
      BY <1>2, <3>1, <3>2 DEF Sees
    <3> QED BY <1>4, <1>5, <3>1, <3>2, <3>3
  <2>6. ASSUME NEW i \in 1..(n - 1), i = n - 1 PROVE GivesBack(moves[i], Sees(i))'
    <3>1. GivesBack(moves[n - 1], Now(moves[n].found))
      BY <1>1, <1>5, <2>6
    <3>2. ASSUME NEW sees PROVE GivesBack(m, sees)
      BY <2>3, <3>1 DEF GivesBack, Noted, HasNoted, Noting
    <3>3. \E sees : sees = Sees(i)' /\ GivesBack(moves'[i], sees)
      BY <2>4, <2>6, <3>2
    <3> QED BY <1>4, <1>5, <3>3
  <2>7. ASSUME NEW i \in 1..(n - 1) PROVE GivesBack(moves[i], Sees(i))'
    <3>1. i \in 1..(n - 2) \/ i = n - 1
      BY <1>1, <2>7
    <3> QED BY <2>5, <2>6, <3>1
  <2> QED BY <1>1, <1>3, <2>4, <2>7 DEF AllGiveBack
<1> QED BY <1>6, <1>7
-----------------------------------------------------------------------------
LEMMA TopMove ==
  ASSUME HookInv, moves # <<>>
  PROVE  Move \in Moves /\ GivesBack(Move, player) /\ player = Now(player)
<1>1. Len(moves) \in Nat \ {0} /\ Move = moves[Len(moves)] /\ Move \in Moves
  BY Tops DEF HookInv, Types, Move
<1> QED BY <1>1 DEF HookInv, AllGiveBack, Sees

LEMMA Going ==
  ASSUME HookInv, moves # <<>>, NEW m \in Moves, Goes(m), Stays, ended' = NoEnd,
         player' \in Movable \cup {Nobody}, player' = Now(player'),
         m.found = Move.found, m.misled = Move.misled,
         m.at = "dest_init" => player' = Now(m.item),
         \/ m.oldp = Move.oldp /\ HasNoted(Move) /\ HasNoted(m)
         \/ player' = player /\ ~HasNoted(Move) /\ ~HasNoted(m)
         \/ m.oldp = player /\ ~HasNoted(Move) /\ HasNoted(m)
  PROVE  HookInv'
<1>1. moves' \in Seq(Moves) /\ AllGiveBack'
  BY GoesOnAsItIs DEF Stays
<1>2. Types'
  BY <1>1 DEF HookInv, Types, Stays
<1>3. player' = Now(player)'
  BY DEF Now, IsThere, Stays
<1>4. PlayerIsRestored'
  BY DEF NoEnd, PlayerIsRestored
<1> QED BY <1>1, <1>2, <1>3, <1>4 DEF HookInv

LEMMA EndingKeeps ==
  ASSUME HookInv, moves # <<>>, NEW how, NEW astray \in BOOLEAN,
         Ends(Move, how, astray), env' = env, present' = present,
         player' \in Movable \cup {Nobody}, player' = Now(player'),
         Move.at = "dest_init" => player' = player,
         astray \/ Move.misled \/ player' = Now(Move.found)
  PROVE  HookInv'
<1>1. moves' \in Seq(Moves) /\ AllGiveBack' /\ PlayerIsRestored'
  BY Ending
<1>2. Types'
  BY <1>1 DEF HookInv, Types
<1>3. player' = Now(player)'
  BY DEF Now, IsThere
<1> QED BY <1>1, <1>2, <1>3 DEF HookInv

\* A move that has not noted its player leaves it where it is.
LEMMA EndingEarly ==
  ASSUME HookInv, moves # <<>>, NEW how, NEW astray \in BOOLEAN, ~HasNoted(Move) \/ astray,
         Ends(Move, how, astray), env' = env, present' = present, player' = player
  PROVE  HookInv'
<1>1. astray \/ Move.misled \/ player' = Now(Move.found)
  BY TopMove DEF GivesBack
<1>2. player' \in Movable \cup {Nobody} /\ player' = Now(player')
  BY DEF HookInv, Types
<1> QED BY <1>1, <1>2, EndingKeeps

LEMMA NextPlace ==
  ASSUME HookInv, moves # <<>>, NEW place \in (Unnoted \cup Noting) \ {"dest_init"},
         Proceeds(Move, place), Stays,
         ended' = NoEnd, player' = player \/ HasNoted(Move),
         player' \in Movable \cup {Nobody}, player' = Now(player'),
         HasNoted(Move) <=> place \in Noting
  PROVE  HookInv'
<1> DEFINE m == [Move EXCEPT !.at = place]
<1>1. Move \in Moves
  BY TopMove
<1>2. /\ m \in Moves /\ m.found = Move.found /\ m.misled = Move.misled
      /\ m.oldp = Move.oldp /\ m.at = place
  BY <1>1 DEF Moves, Unnoted, Noting
<1>3. HasNoted(m) <=> HasNoted(Move)
  BY <1>2 DEF HasNoted, Noting
<1>4. Goes(m)
  BY DEF Proceeds
<1> HIDE DEF m
<1> QED BY <1>2, <1>3, <1>4, Going
-----------------------------------------------------------------------------
LEMMA AsksKeep ==
  ASSUME HookInv, moves # <<>>, NEW yes \in BOOLEAN,
         \/ prevent_leave \/ prevent_move(yes) \/ prevent_enter(yes)
         \/ move_signal(yes) \/ enter_signal
  PROVE  HookInv'
<1>1. player' = player /\ Stays /\ ~HasNoted(Move)
  BY DEF prevent_leave, prevent_move, prevent_enter, move_signal, enter_signal,
         HasNoted, Noting
<1>2. player' \in Movable \cup {Nobody} /\ player' = Now(player')
  BY <1>1 DEF HookInv, Types
<1>3. CASE \E how : Ends(Move, how, FALSE)
  BY <1>1, <1>3, EndingEarly DEF Stays
<1>4. CASE /\ ended' = NoEnd
           /\ \E place \in {"prevent_leave", "left", "prevent_move", "prevent_enter",
                             "move_signal", "enter_signal"} : Proceeds(Move, place)
  <2>1. PICK place \in {"prevent_leave", "left", "prevent_move", "prevent_enter",
                        "move_signal", "enter_signal"} : Proceeds(Move, place)
    BY <1>4
  <2>2. place \in (Unnoted \cup Noting) \ {"dest_init"} /\ place \notin Noting
    BY <2>1 DEF Unnoted, Noting
  <2> QED BY <1>1, <1>2, <1>4, <2>1, <2>2, NextPlace
<1> QED BY <1>3, <1>4 DEF prevent_leave, prevent_move, prevent_enter,
                          move_signal, enter_signal

LEMMA SetEnvironmentKeeps ==
  ASSUME HookInv, moves # <<>>, NEW yes \in BOOLEAN, set_environment(yes)
  PROVE  HookInv'
<1>1. player' = player /\ present' = present /\ ~HasNoted(Move)
  BY DEF set_environment, HasNoted, Noting
<1>2. Move \in Moves /\ GivesBack(Move, player) /\ player = Now(player)
  BY TopMove
<1>3. CASE yes \/ Gone(Move)
  BY <1>1, <1>3, EndingEarly DEF set_environment
<1>4. CASE ~(yes \/ Gone(Move))
  <2> DEFINE place == IF IsThere(Move.origin) THEN "leave_signal" ELSE "moved"
             m == [Move EXCEPT !.at = place]
  <2>0. place \in {"leave_signal", "moved"} /\ place \in Unnoted
    BY DEF Unnoted
  <2>1. /\ moves' = Append(Disturbs(Outer), m)
        /\ env' = [env EXCEPT ![Move.item] = Move.dest] /\ ended' = NoEnd
    BY <1>4 DEF set_environment
  <2>2. /\ m \in Moves /\ m.found = Move.found /\ m.misled = Move.misled
        /\ m.at \in {"leave_signal", "moved"}
    <3> HIDE DEF place
    <3> QED BY <1>2, <2>0 DEF Moves, Unnoted, Noting
  <2> HIDE DEF m
  <2>3. /\ Outer \in Seq(Moves) /\ Len(Outer) = Len(moves) - 1
        /\ \A i \in 1..(Len(moves) - 1) : Outer[i] = moves[i]
    BY Tops DEF HookInv, Types, Outer
  <2>4. /\ Disturbs(Outer) \in Seq(Moves) /\ Len(Disturbs(Outer)) = Len(moves) - 1
        /\ \A i \in 1..(Len(moves) - 1) : Alike(Disturbs(Outer)[i], moves[i])
    BY <2>3, DisturbedAreAlike
  <2>5. GivesBack(m, player')
    BY <1>1, <1>2, <2>2 DEF GivesBack, HasNoted, Noting
  <2>6. moves' \in Seq(Moves) /\ AllGiveBack'
    BY <1>1, <2>1, <2>2, <2>4, <2>5, AsBefore
  <2>7. Types'
    BY <1>1, <1>2, <2>1, <2>6 DEF HookInv, Types, Moves, Unnoted, Noting
  <2>8. player' = Now(player)'
    BY <1>1, <1>2 DEF Now, IsThere
  <2>9. PlayerIsRestored'
    BY <2>1 DEF NoEnd, PlayerIsRestored
  <2> QED BY <2>6, <2>7, <2>8, <2>9 DEF HookInv
<1> QED BY <1>3, <1>4

LEMMA DestInitKeeps ==
  ASSUME HookInv, moves # <<>>, dest_init
  PROVE  HookInv'
<1>1. Stays /\ ~HasNoted(Move)
  BY DEF dest_init, HasNoted, Noting
<1>2. Move \in Moves /\ player = Now(player) /\ player \in Movable \cup {Nobody}
  BY TopMove DEF HookInv, Types
<1>3. CASE Gone(Move) \/ env[Move.item] # Move.dest
  BY <1>1, <1>3, EndingEarly DEF dest_init, Stays
<1>4. CASE ~(Gone(Move) \/ env[Move.item] # Move.dest) /\ Move.item \in Livings
  <2> DEFINE pairs == {<<Move.item, Move.dest>>}
             m == [Move EXCEPT !.at = "dest_init", !.oldp = player, !.met = pairs]
  <2>2. Goes(m) /\ ended' = NoEnd /\ player' = Move.item
    BY <1>4 DEF dest_init
  <2>0. pairs \subseteq Movable \X Movable
    BY <1>2 DEF Moves, Movable
  <2> HIDE DEF pairs
  <2>1. /\ m \in Moves /\ m.found = Move.found /\ m.misled = Move.misled
        /\ m.oldp = player /\ m.at = "dest_init" /\ m.item = Move.item
    BY <1>2, <2>0 DEF Moves, Unnoted, Noting
  <2>3. player' \in Movable \cup {Nobody} /\ player' = Now(player')
          /\ player' = Now(m.item)
    BY <1>2, <1>4, <2>1, <2>2 DEF Moves, Gone, Now, Movable
  <2>4. HasNoted(m)
    BY <2>1 DEF HasNoted, Noting
  <2> HIDE DEF m
  <2> QED BY <1>1, <2>1, <2>2, <2>3, <2>4, Going
<1>5. CASE ~(Gone(Move) \/ env[Move.item] # Move.dest) /\ Move.item \notin Livings
  <2> DEFINE m == [Move EXCEPT !.at = "entered", !.oldp = player]
  <2>1. /\ m \in Moves /\ m.found = Move.found /\ m.misled = Move.misled
        /\ m.oldp = player /\ m.at = "entered"
    BY <1>2 DEF Moves, Unnoted, Noting
  <2>2. Goes(m) /\ ended' = NoEnd /\ player' = player
    BY <1>5 DEF dest_init
  <2>3. HasNoted(m)
    BY <2>1 DEF HasNoted, Noting
  <2> HIDE DEF m
  <2> QED BY <1>1, <1>2, <2>1, <2>2, <2>3, Going
<1> QED BY <1>3, <1>4, <1>5

LEMMA OthersListedKeeps ==
  ASSUME HookInv, moves # <<>>, others_listed
  PROVE  HookInv'
<1>1. Stays /\ player' = player /\ HasNoted(Move)
  BY DEF others_listed, HasNoted, Noting
<1>2. Move \in Moves /\ player = Now(player) /\ player \in Movable \cup {Nobody}
  BY TopMove DEF HookInv, Types
<1>3. CASE Gone(Move) \/ env[Move.item] # Move.dest
  BY <1>1, <1>3, EndingEarly DEF others_listed, Stays
<1>4. CASE ~(Gone(Move) \/ env[Move.item] # Move.dest)
  <2> DEFINE those == Inventory(Move.dest) \ {Move.item}
             m == [Move EXCEPT !.at = "item_init", !.others = those]
  <2>1. those \subseteq Things
    BY DEF Inventory, HookInv, Types
  <2>2. Goes(m) /\ ended' = NoEnd
    BY <1>4 DEF others_listed
  <2> HIDE DEF those
  <2>3. /\ m \in Moves /\ m.found = Move.found /\ m.misled = Move.misled
        /\ m.oldp = Move.oldp /\ m.at = "item_init"
    BY <1>2, <2>1 DEF Moves, Unnoted, Noting
  <2>4. HasNoted(m)
    BY <2>3 DEF HasNoted, Noting
  <2> HIDE DEF m
  <2> QED BY <1>1, <1>2, <2>2, <2>3, <2>4, Going
<1> QED BY <1>3, <1>4

\* init() of another thing by the item, or of the item by another.
LEMMA InitsKeep ==
  ASSUME HookInv, moves # <<>>, NEW o \in Things, item_init(o) \/ other_init(o)
  PROVE  HookInv'
<1>1. Stays /\ ended' = NoEnd /\ HasNoted(Move) /\ o \in present
  BY DEF item_init, other_init, HasNoted, Noting, ToMeetItem, ToBeMet
<1>2. Move \in Moves /\ player = Now(player) /\ player \in Movable \cup {Nobody}
  BY TopMove DEF HookInv, Types
<1>3. player' \in Movable \cup {Nobody} /\ player' = Now(player')
  BY <1>1, <1>2 DEF item_init, other_init, Now, IsThere, Movable
<1>4. \E meeting \in Movable \X Movable :
        Goes([Move EXCEPT !.met = @ \cup {meeting}])
  BY <1>2 DEF item_init, other_init, Moves, Movable
<1>5. PICK meeting \in Movable \X Movable :
        Goes([Move EXCEPT !.met = @ \cup {meeting}])
  BY <1>4
<1> DEFINE m == [Move EXCEPT !.met = @ \cup {meeting}]
<1>6. /\ m \in Moves /\ m.found = Move.found /\ m.misled = Move.misled
      /\ m.oldp = Move.oldp /\ m.at = Move.at
  BY <1>2, <1>5 DEF Moves
<1>7. HasNoted(m) /\ m.at # "dest_init"
  BY <1>1, <1>6 DEF HasNoted, item_init, other_init
<1>8. Goes(m)
  BY <1>5
<1> HIDE DEF m
<1> QED BY <1>1, <1>3, <1>6, <1>7, <1>8, Going

\* The turn passes from those who meet the item to the item, and to the end.
LEMMA TurnsKeep ==
  ASSUME HookInv, moves # <<>>, items_turn \/ all_met
  PROVE  HookInv'
<1>1. Stays /\ ended' = NoEnd /\ HasNoted(Move)
  BY DEF items_turn, all_met, HasNoted, Noting
<1>2. Move \in Moves /\ player = Now(player) /\ player \in Movable \cup {Nobody}
  BY TopMove DEF HookInv, Types
<1>3. player' = player \/ (player' = Move.item /\ IsThere(Move.item))
  BY DEF items_turn, all_met
<1>4. player' \in Movable \cup {Nobody} /\ player' = Now(player')
  BY <1>2, <1>3 DEF Moves, Movable, Now
<1>5. Proceeds(Move, "other_init") \/ Proceeds(Move, "met")
  BY DEF items_turn, all_met
<1>6. {"other_init", "met"} \subseteq Noting \ {"dest_init"}
  BY DEF Noting
<1> QED BY <1>1, <1>4, <1>5, <1>6, NextPlace

LEMMA DestMeetsKeeps ==
  ASSUME HookInv, moves # <<>>, dest_meets
  PROVE  HookInv'
<1>1. Stays /\ ended' = NoEnd /\ HasNoted(Move)
  BY DEF dest_meets, HasNoted, Noting
<1>2. Move \in Moves /\ player = Now(player) /\ player \in Movable \cup {Nobody}
  BY TopMove DEF HookInv, Types
<1>3. CASE ~Gone(Move) /\ Move.dest \in Livings
  <2> DEFINE pairs == Move.met \cup {<<Move.dest, Move.item>>}
             m == [Move EXCEPT !.at = "dest_met", !.met = pairs]
  <2>2. Goes(m) /\ player' = Move.dest
    BY <1>3 DEF dest_meets
  <2>0. pairs \subseteq Movable \X Movable
    BY <1>2 DEF Moves, Movable
  <2> HIDE DEF pairs
  <2>1. /\ m \in Moves /\ m.found = Move.found /\ m.misled = Move.misled
        /\ m.oldp = Move.oldp /\ m.at = "dest_met"
    BY <1>2, <2>0 DEF Moves, Unnoted, Noting
  <2>3. player' \in Movable \cup {Nobody} /\ player' = Now(player')
    BY <1>2, <1>3, <2>2 DEF Moves, Gone, Now
  <2>4. HasNoted(m)
    BY <2>1 DEF HasNoted, Noting
  <2> HIDE DEF m
  <2> QED BY <1>1, <2>1, <2>2, <2>3, <2>4, Going
<1>4. CASE ~(~Gone(Move) /\ Move.dest \in Livings)
  <2>1. player' = player /\ Proceeds(Move, "done")
    BY <1>4 DEF dest_meets
  <2>2. "done" \in Noting \ {"dest_init"}
    BY DEF Noting
  <2> QED BY <1>1, <1>2, <2>1, <2>2, NextPlace
<1> QED BY <1>3, <1>4

LEMMA RestoreKeeps ==
  ASSUME HookInv, moves # <<>>, restore
  PROVE  HookInv'
<1>1. /\ player' = Now(Move.oldp) /\ Stays /\ HasNoted(Move)
      /\ Ends(Move, "complete", FALSE)
  BY DEF restore, HasNoted, Noting
<1>2. Move.oldp \in Movable \cup {Nobody} /\ GivesBack(Move, player)
  BY TopMove DEF Moves
<1>3. player' \in Movable \cup {Nobody} /\ player' = Now(player')
  BY <1>1, <1>2, NowOf DEF HookInv
<1>4. Move.misled \/ player' = Now(Move.found)
  BY <1>1, <1>2 DEF GivesBack
<1>5. env' = env /\ present' = present /\ Move.at # "dest_init"
  BY <1>1 DEF Stays, restore
<1> QED BY <1>1, <1>3, <1>4, <1>5, EndingKeeps
-----------------------------------------------------------------------------
\* What was equal now is equal when t is gone.
LEMMA NowAfter ==
  ASSUME Types, NEW t \in present, present' = present \ {t},
         NEW o \in Movable \cup {Nobody}
  PROVE  Now(o)' = IF Now(o) = t THEN Nobody ELSE Now(o)
<1>1. t \in Things /\ t \notin Rooms /\ t # Nobody
  BY ObjectsAreDistinct DEF Types
<1>2. CASE o = t
  BY <1>1, <1>2 DEF Now, IsThere
<1>3. CASE o # t
  BY <1>1, <1>3 DEF Now, IsThere
<1> QED BY <1>2, <1>3

LEMMA DestructingKeeps ==
  ASSUME HookInv, NEW t \in Things, Destructing(t)
  PROVE  HookInv'
<1>1. /\ t \in present /\ present' = present \ {t} /\ moves' = Disturbs(moves)
      /\ player' = (IF player = t THEN Nobody ELSE player)
      /\ env' = env /\ ended' = NoEnd
  BY DEF Destructing
<1>2. Types /\ moves \in Seq(Moves) /\ player = Now(player) /\ Len(moves) \in Nat
  BY DEF HookInv, Types
<1>3. /\ moves' \in Seq(Moves) /\ Len(moves') = Len(moves)
      /\ \A i \in 1..Len(moves) : Alike(moves'[i], moves[i])
  BY <1>1, <1>2, DisturbedAreAlike
<1>4. \A o \in Movable \cup {Nobody} :
        Now(o)' = IF Now(o) = t THEN Nobody ELSE Now(o)
  BY <1>1, <1>2, NowAfter
<1>5. player' \in Movable \cup {Nobody} /\ Types'
  BY <1>1, <1>2, <1>3 DEF Types
<1>6. player' = Now(player)'
  <2>1. t # Nobody
    BY <1>1, <1>2, ObjectsAreDistinct DEF Types
  <2>2. CASE player = Nobody
    BY <1>1, <2>1, <2>2 DEF Now, IsThere
  <2>3. CASE player # Nobody
    BY <1>1, <1>2, <2>3 DEF Now, IsThere
  <2> QED BY <2>2, <2>3
<1>7. ASSUME NEW i \in 1..Len(moves) PROVE GivesBack(moves[i], Sees(i))'
  <2>1. GivesBack(moves[i], Sees(i)) /\ Alike(moves'[i], moves[i]) /\ moves[i] \in Moves
    BY <1>2, <1>3 DEF HookInv, AllGiveBack
  <2>2. /\ moves[i].oldp \in Movable \cup {Nobody}
        /\ moves[i].found \in Movable \cup {Nobody}
        /\ moves[i].item \in Movable \cup {Nobody}
    BY <2>1 DEF Moves, Movable
  <2>3. ASSUME NEW o, o = moves'[i + 1].found, i # Len(moves')
        PROVE  Sees(i)' = Now(o)'
    BY <2>3 DEF Sees, Now, IsThere
  <2>4. Sees(i)' = IF Sees(i) = t THEN Nobody ELSE Sees(i)
    <3>1. CASE i = Len(moves)
      BY <1>1, <1>3, <3>1 DEF Sees
    <3>2. CASE i # Len(moves)
      <4>1. i + 1 \in 1..Len(moves) /\ moves[i + 1] \in Moves
        BY <1>2, <3>2
      <4>2. PICK o \in Movable \cup {Nobody} : o = moves[i + 1].found
        BY <4>1 DEF Moves
      <4>3. o = moves'[i + 1].found /\ i # Len(moves')
        BY <1>3, <3>2, <4>1, <4>2 DEF Alike
      <4>4. Sees(i) = Now(o) /\ Sees(i)' = Now(o)'
        BY <2>3, <3>2, <4>2, <4>3 DEF Sees
      <4> QED BY <1>4, <4>4
    <3> QED BY <3>1, <3>2
  <2>5. ASSUME NEW a, NEW b, NEW c,
               a = moves'[i].oldp, b = moves'[i].found, c = moves'[i].item,
               ~moves'[i].misled =>
                 /\ moves'[i].at \in Noting => Now(a)' = Now(b)'
                 /\ moves'[i].at \notin Noting => Sees(i)' = Now(b)',
               moves'[i].at = "dest_init" /\ ~moves'[i].strayed => Sees(i)' = Now(c)'
        PROVE  GivesBack(moves[i], Sees(i))'
    BY <2>5 DEF GivesBack, HasNoted, Noting, Now, IsThere
  <2>6. PICK a \in Movable \cup {Nobody}, b \in Movable \cup {Nobody},
             c \in Movable \cup {Nobody} :
          a = moves[i].oldp /\ b = moves[i].found /\ c = moves[i].item
    BY <2>2
  <2>7. /\ a = moves'[i].oldp /\ b = moves'[i].found /\ c = moves'[i].item
        /\ (moves'[i].misled <=> moves[i].misled) /\ moves'[i].at = moves[i].at
        /\ (moves'[i].strayed <=> moves[i].strayed)
    BY <2>1, <2>6 DEF Alike
  <2>8. /\ ~moves[i].misled =>
             /\ moves[i].at \in Noting => Now(a) = Now(b)
             /\ moves[i].at \notin Noting => Sees(i) = Now(b)
        /\ moves[i].at = "dest_init" /\ ~moves[i].strayed => Sees(i) = Now(c)
    BY <2>1, <2>6 DEF GivesBack, HasNoted
  <2>9. ~moves'[i].misled =>
          /\ moves'[i].at \in Noting => Now(a)' = Now(b)'
          /\ moves'[i].at \notin Noting => Sees(i)' = Now(b)'
    BY <1>4, <2>4, <2>7, <2>8
  <2>10. moves'[i].at = "dest_init" /\ ~moves'[i].strayed => Sees(i)' = Now(c)'
    BY <1>4, <2>4, <2>7, <2>8
  <2> QED BY <2>5, <2>7, <2>9, <2>10
<1>8. AllGiveBack' /\ PlayerIsRestored'
  BY <1>1, <1>3, <1>7 DEF AllGiveBack, NoEnd, PlayerIsRestored
<1> QED BY <1>5, <1>6, <1>8 DEF HookInv

LEMMA MoveObjectKeeps ==
  ASSUME HookInv, NEW item \in Things, NEW dest \in Rooms \cup present,
         MoveObject(item, dest)
  PROVE  HookInv'
<1> DEFINE m == NewMove(item, dest)
<1>1. /\ moves' = Append(moves, m) /\ ended' = NoEnd
      /\ env' = env /\ present' = present /\ player' = player
  BY DEF MoveObject
<1>2. /\ Types /\ moves \in Seq(Moves) /\ Len(moves) \in Nat
      /\ player \in Movable \cup {Nobody} /\ player = Now(player)
  BY DEF HookInv, Types
<1>3. m \in Moves /\ m.found = player /\ m.at = "begun"
  BY <1>2 DEF NewMove, Moves, Unnoted, Noting, Movable, Types
<1> HIDE DEF m
<1>4. /\ moves' \in Seq(Moves) /\ Len(moves') = Len(moves) + 1
      /\ moves'[Len(moves) + 1] = m
      /\ \A i \in 1..Len(moves) : moves'[i] = moves[i]
  BY <1>1, <1>2, <1>3
<1>5. ASSUME NEW i \in 1..Len(moves'),
             GivesBack(moves'[i], Sees(i)')
      PROVE  GivesBack(moves[i], Sees(i))'
  BY <1>1, <1>5 DEF GivesBack, HasNoted, Now, IsThere
<1>6. ASSUME NEW i \in 1..Len(moves) PROVE GivesBack(moves[i], Sees(i))'
  <2>1. GivesBack(moves[i], Sees(i)) /\ i \in 1..Len(moves') /\ i # Len(moves')
    BY <1>2, <1>4 DEF HookInv, AllGiveBack
  <2>2. moves'[i + 1].found = IF i = Len(moves) THEN player ELSE moves[i + 1].found
    <3>1. CASE i = Len(moves)
      BY <1>3, <1>4, <3>1
    <3>2. CASE i # Len(moves)
      <4>1. i + 1 \in 1..Len(moves)
        BY <1>2, <3>2
      <4> QED BY <1>4, <3>2, <4>1
    <3> QED BY <3>1, <3>2
  <2>3. ASSUME NEW o PROVE Now(o)' = Now(o)
    BY <1>1 DEF Now, IsThere
  <2>4. Sees(i)' = Sees(i)
    BY <1>2, <2>1, <2>2, <2>3 DEF Sees
  <2> QED BY <1>4, <1>5, <2>1, <2>4
<1>7. ASSUME NEW i \in 1..Len(moves'), i = Len(moves) + 1
      PROVE  GivesBack(moves[i], Sees(i))'
  <2>1. Sees(i)' = player
    BY <1>1, <1>4, <1>7 DEF Sees
  <2>2. GivesBack(m, player)
    BY <1>2, <1>3 DEF GivesBack, HasNoted, Noting
  <2> QED BY <1>4, <1>5, <1>7, <2>1, <2>2
<1>8. AllGiveBack'
  <2>1. \A i \in 1..Len(moves') : i \in 1..Len(moves) \/ i = Len(moves) + 1
    BY <1>2, <1>4
  <2> QED BY <1>6, <1>7, <2>1 DEF AllGiveBack
<1>9. Types' /\ player' = Now(player)'
  BY <1>1, <1>2, <1>4 DEF Types, Now, IsThere
<1>10. PlayerIsRestored'
  BY <1>1 DEF NoEnd, PlayerIsRestored
<1> QED BY <1>8, <1>9, <1>10 DEF HookInv
-----------------------------------------------------------------------------
LEMMA HookInitInv == HookInit => HookInv
<1> SUFFICES ASSUME HookInit PROVE HookInv
  OBVIOUS
<1>1. moves = <<>> /\ ended = NoEnd /\ present = Things /\ env = Start
  BY DEF HookInit
<1>2. Types
  BY <1>1, AllAreSomewhere DEF HookInit, Types, Movable
<1>3. player = Now(player)
  BY <1>1 DEF HookInit, Now, IsThere
<1>4. AllGiveBack /\ PlayerIsRestored
  BY <1>1 DEF AllGiveBack, NoEnd, PlayerIsRestored
<1> QED BY <1>2, <1>3, <1>4 DEF HookInv

LEMMA HookNextInv == HookInv /\ [HookNext]_hookVars => HookInv'
<1> SUFFICES ASSUME HookInv, [HookNext]_hookVars PROVE HookInv'
  OBVIOUS
<1>1. CASE MoveGoesOn
  <2>1. moves # <<>>
    BY <1>1 DEF MoveGoesOn
  <2>2. CASE \/ prevent_leave \/ enter_signal
             \/ \E yes \in BOOLEAN :
                  prevent_move(yes) \/ prevent_enter(yes) \/ move_signal(yes)
    BY <2>1, <2>2, AsksKeep
  <2>3. CASE \E yes \in BOOLEAN : set_environment(yes)
    BY <2>1, <2>3, SetEnvironmentKeeps
  <2>4. CASE dest_init
    BY <2>1, <2>4, DestInitKeeps
  <2>5. CASE others_listed
    BY <2>1, <2>5, OthersListedKeeps
  <2>6. CASE \E o \in Things : item_init(o) \/ other_init(o)
    BY <2>1, <2>6, InitsKeep
  <2>7. CASE items_turn \/ all_met
    BY <2>1, <2>7, TurnsKeep
  <2>8. CASE dest_meets
    BY <2>1, <2>8, DestMeetsKeeps
  <2>9. CASE restore
    BY <2>1, <2>9, RestoreKeeps
  <2> QED BY <1>1, <2>2, <2>3, <2>4, <2>5, <2>6, <2>7, <2>8, <2>9 DEF MoveGoesOn
<1>2. CASE \E item \in Things, dest \in Rooms \cup present : MoveObject(item, dest)
  BY <1>2, MoveObjectKeeps
<1>3. CASE \E t \in Things : Destructing(t)
  BY <1>3, DestructingKeeps
<1>4. CASE UNCHANGED hookVars
  BY <1>4 DEF hookVars, HookInv, Types, AllGiveBack, GivesBack, HasNoted, Sees,
              Now, IsThere, PlayerIsRestored
<1> QED BY <1>1, <1>2, <1>3, <1>4 DEF HookNext

\* A move leaves the player that it found, or none if that one is gone, for any
\* objects, any number of moves within moves, and whatever init() and the
\* signals move and destruct; but for one whose item the destination's init()
\* moved on, which leaves its item, and those around it that this misleads.
THEOREM PlayerIsAlwaysRestored == HookSpec => []PlayerIsRestored
<1>1. HookInv => PlayerIsRestored
  BY DEF HookInv
<1> QED BY HookInitInv, HookNextInv, <1>1, PTL DEF HookSpec
-----------------------------------------------------------------------------
(* Who meets whom.  A move that nothing has disturbed knows who is in the  *)
(* destination, from when it listed them, and who has met whom so far.     *)

MeetDest(m) == IF m.item \in Livings THEN {<<m.item, m.dest>>} ELSE {}

MeetItem(m) == {<<o, m.item>> : o \in m.others \cap Livings}

MetByItem(m) == IF m.item \in Livings THEN {<<m.item, o>> : o \in m.others} ELSE {}

Listed == {"item_init", "other_init", "met", "dest_met", "done"}

Inside(d, e, p) == {t \in p : e[t] = d}

\* In an environment e, with those in p present.
Meeting(m, e, p) ==
  /\ m.at \in Unnoted \cup {"entered"} => m.met = {}
  /\ m.at \in {"entered", "dest_init"} => m.met = MeetDest(m)
  /\ m.at \in Listed =>
       /\ m.item \in p /\ m.dest \in Rooms \cup p
       /\ m.others = Inside(m.dest, e, p) \ {m.item}
  /\ m.at = "item_init" =>
       MeetDest(m) \subseteq m.met /\ m.met \subseteq MeetDest(m) \cup MeetItem(m)
  /\ m.at = "other_init" =>
       /\ m.item \in Livings
       /\ MeetDest(m) \cup MeetItem(m) \subseteq m.met
       /\ m.met \subseteq MeetDest(m) \cup MeetItem(m) \cup MetByItem(m)
  /\ m.at \in {"met", "done"} => m.met = MeetDest(m) \cup MeetItem(m) \cup MetByItem(m)
  /\ m.at = "done" => m.dest \notin Livings
  /\ m.at = "dest_met" =>
       /\ m.dest \in Livings
       /\ m.met = MeetDest(m) \cup MeetItem(m) \cup MetByItem(m) \cup {<<m.dest, m.item>>}

Knows(m, e, p) == m.disturbed \/ Meeting(m, e, p)

AllKnow == \A i \in 1..Len(moves) : Knows(moves[i], env, present)

\* Nothing that a move knows depends on what misled it.
LEMMA MisledKnow ==
  ASSUME NEW m \in Moves, NEW misled \in BOOLEAN, NEW e, NEW p, Knows(m, e, p)
  PROVE  Knows([m EXCEPT !.strayed = TRUE, !.misled = misled], e, p)
<1> DEFINE n == [m EXCEPT !.strayed = TRUE, !.misled = misled]
<1>1. /\ n.item = m.item /\ n.dest = m.dest /\ n.at = m.at /\ n.others = m.others
      /\ n.met = m.met /\ n.disturbed = m.disturbed
  BY DEF Moves
<1> HIDE DEF n
<1>2. MeetDest(n) = MeetDest(m) /\ MeetItem(n) = MeetItem(m) /\ MetByItem(n) = MetByItem(m)
  BY <1>1 DEF MeetDest, MeetItem, MetByItem
<1>3. Knows(n, e, p)
  BY <1>1, <1>2 DEF Knows, Meeting
<1> QED BY <1>3 DEF n

LEMMA GoingKnows ==
  ASSUME Types, AllKnow, moves # <<>>, NEW m, Goes(m), Stays, ended' = NoEnd,
         Knows(m, env, present)
  PROVE  AllKnow' /\ AllMeet'
<1>1. /\ Len(moves) \in Nat \ {0} /\ Outer \in Seq(Moves) /\ Len(Outer) = Len(moves) - 1
      /\ \A i \in 1..(Len(moves) - 1) : Outer[i] = moves[i]
  BY Tops DEF Types, Outer
<1>2. /\ Len(moves') = Len(moves) /\ moves'[Len(moves)] = m
      /\ \A i \in 1..(Len(moves) - 1) : moves'[i] = moves[i]
  BY <1>1 DEF Goes
<1>3. ASSUME NEW i \in 1..Len(moves') PROVE Knows(moves'[i], env', present')
  <2>1. env' = env /\ present' = present
    BY DEF Stays
  <2>2. i = Len(moves) \/ i \in 1..(Len(moves) - 1)
    BY <1>1, <1>2
  <2> QED BY <1>1, <1>2, <2>1, <2>2 DEF AllKnow
<1>4. AllMeet'
  BY DEF AllMeet, NoEnd
<1> QED BY <1>3, <1>4 DEF AllKnow

LEMMA EndingKnows ==
  ASSUME Types, AllKnow, moves # <<>>, NEW how, NEW astray \in BOOLEAN,
         Ends(Move, how, astray), env' = env, present' = present
  PROVE  AllKnow'
<1> DEFINE n == Len(moves)
<1>1. /\ n \in Nat \ {0} /\ Outer \in Seq(Moves) /\ Len(Outer) = n - 1
      /\ \A i \in 1..(n - 1) : Outer[i] = moves[i]
  BY Tops DEF Types, Outer
<1>2. ASSUME NEW i \in 1..(n - 1) PROVE Knows(moves[i], env, present)
  BY <1>1 DEF AllKnow
<1>3. CASE moves' = Outer
  BY <1>1, <1>2, <1>3 DEF AllKnow
<1>4. CASE moves' # Outer
  <2> DEFINE misled == Last(Outer).misled \/ ~Noted(Last(Outer))
             m == [Last(Outer) EXCEPT !.strayed = TRUE, !.misled = misled]
  <2>1. Outer # <<>> /\ moves' = Append(Front(Outer), m)
    BY <1>4 DEF Ends
  <2>2. /\ n - 1 \in 1..(n - 1) /\ Last(Outer) = moves[n - 1] /\ Last(Outer) \in Moves
        /\ Front(Outer) \in Seq(Moves) /\ Len(Front(Outer)) = n - 2
        /\ \A i \in 1..(n - 2) : Front(Outer)[i] = moves[i]
    <3>1. /\ Len(Outer) \in Nat \ {0} /\ Last(Outer) = Outer[Len(Outer)]
          /\ Last(Outer) \in Moves
          /\ Front(Outer) \in Seq(Moves) /\ Len(Front(Outer)) = Len(Outer) - 1
          /\ \A i \in 1..(Len(Outer) - 1) : Front(Outer)[i] = Outer[i]
      BY <1>1, <2>1, Tops
    <3>2. n - 1 \in 1..(n - 1) /\ \A i \in 1..(n - 2) : i \in 1..(n - 1)
      BY <1>1, <3>1
    <3> QED BY <1>1, <3>1, <3>2
  <2>3. misled \in BOOLEAN
    BY <2>2 DEF Moves, Noted
  <2>4. Knows(Last(Outer), env, present)
    BY <1>2, <2>2
  <2> HIDE DEF misled
  <2>5. Knows(m, env, present)
    BY <2>2, <2>3, <2>4, MisledKnow
  <2> HIDE DEF m
  <2>6. /\ Len(moves') = n - 1 /\ moves'[n - 1] = m
        /\ \A i \in 1..(n - 2) : moves'[i] = moves[i]
    BY <1>1, <2>1, <2>2
  <2>7. ASSUME NEW i \in 1..Len(moves') PROVE Knows(moves'[i], env', present')
    <3>1. i \in 1..(n - 1) /\ (i = n - 1 \/ i \in 1..(n - 2))
      BY <1>1, <2>6
    <3> QED BY <1>2, <2>5, <2>6, <3>1
  <2> QED BY <2>7 DEF AllKnow
<1> QED BY <1>3, <1>4

\* The innermost move, as it stands.
LEMMA TopKnows ==
  ASSUME Types, AllKnow, moves # <<>>
  PROVE  Move \in Moves /\ Knows(Move, env, present)
<1>1. Len(moves) \in Nat \ {0} /\ Move = moves[Len(moves)] /\ Move \in Moves
  BY Tops DEF Types, Move
<1>2. Len(moves) \in 1..Len(moves)
  BY <1>1
<1> QED BY <1>1, <1>2 DEF AllKnow

\* A move that ends before its time, or asks before anything has happened.
LEMMA AsksKnow ==
  ASSUME Types, AllKnow, moves # <<>>, NEW yes \in BOOLEAN,
         \/ prevent_leave \/ prevent_move(yes) \/ prevent_enter(yes)
         \/ move_signal(yes) \/ enter_signal
  PROVE  AllKnow' /\ AllMeet'
<1>1. Stays /\ Move.at \in Unnoted
  BY DEF prevent_leave, prevent_move, prevent_enter, move_signal, enter_signal, Unnoted
<1>2. Move \in Moves /\ Knows(Move, env, present)
  BY TopKnows
<1>3. CASE \E how \in {"prevented", "left", "gone"} : Ends(Move, how, FALSE)
  <2>1. AllKnow'
    BY <1>1, <1>3, EndingKnows DEF Stays
  <2>2. ended'.how # "complete"
    BY <1>3 DEF Ends
  <2> QED BY <2>1, <2>2 DEF AllMeet
<1>4. CASE /\ ended' = NoEnd
           /\ \E place \in {"prevent_leave", "left", "prevent_move", "prevent_enter",
                             "move_signal", "enter_signal"} : Proceeds(Move, place)
  <2>1. PICK place \in {"prevent_leave", "left", "prevent_move", "prevent_enter",
                        "move_signal", "enter_signal"} : Proceeds(Move, place)
    BY <1>4
  <2> DEFINE m == [Move EXCEPT !.at = place]
  <2>2. m.at = place /\ m.met = Move.met /\ m.disturbed = Move.disturbed
    BY <1>2 DEF Moves
  <2>3. Goes(m)
    BY <2>1 DEF Proceeds
  <2> HIDE DEF m
  <2>4. Knows(m, env, present)
    BY <1>1, <1>2, <2>1, <2>2 DEF Knows, Meeting, Unnoted, Listed
  <2> QED BY <1>1, <1>4, <2>3, <2>4, GoingKnows
<1> QED BY <1>3, <1>4 DEF prevent_leave, prevent_move, prevent_enter,
                          move_signal, enter_signal

\* Who moves the item disturbs the moves around it, and knows nobody yet.
LEMMA SetEnvironmentKnows ==
  ASSUME Types, AllKnow, moves # <<>>, NEW yes \in BOOLEAN, set_environment(yes)
  PROVE  AllKnow' /\ AllMeet'
<1>1. present' = present /\ Move.at \in Unnoted
  BY DEF set_environment, Unnoted
<1>2. Move \in Moves /\ Knows(Move, env, present)
  BY TopKnows
<1>3. CASE yes \/ Gone(Move)
  <2>1. AllKnow'
    BY <1>1, <1>3, EndingKnows DEF set_environment
  <2>2. ended'.how = "prevented"
    BY <1>3 DEF set_environment, Ends
  <2> QED BY <2>1, <2>2 DEF AllMeet
<1>4. CASE ~(yes \/ Gone(Move))
  <2> DEFINE place == IF IsThere(Move.origin) THEN "leave_signal" ELSE "moved"
             m == [Move EXCEPT !.at = place]
  <2>1. moves' = Append(Disturbs(Outer), m) /\ ended' = NoEnd
    BY <1>4 DEF set_environment
  <2>2. place \in {"leave_signal", "moved"}
    OBVIOUS
  <2> HIDE DEF place
  <2>3. m.at = place /\ m.met = Move.met /\ m.disturbed = Move.disturbed
    BY <1>2 DEF Moves
  <2> HIDE DEF m
  <2>4. Knows(m, env', present')
    BY <1>1, <1>2, <2>2, <2>3 DEF Knows, Meeting, Unnoted, Listed
  <2>5. /\ Outer \in Seq(Moves) /\ Len(Outer) = Len(moves) - 1 /\ Len(moves) \in Nat \ {0}
    BY Tops DEF Types, Outer
  <2>6. /\ Len(Disturbs(Outer)) = Len(Outer)
        /\ \A i \in 1..Len(Outer) : Disturbs(Outer)[i].disturbed = TRUE
    BY <2>5 DEF Disturbs, Moves
  <2>7. /\ Len(moves') = Len(moves) /\ moves'[Len(moves)] = m
        /\ \A i \in 1..(Len(moves) - 1) : moves'[i].disturbed = TRUE
    <3>1. Disturbs(Outer) \in Seq(Moves)
      BY <2>5, DisturbedAreAlike
    <3> QED BY <2>1, <2>5, <2>6, <3>1
  <2>8. ASSUME NEW i \in 1..Len(moves') PROVE Knows(moves'[i], env', present')
    <3>1. i = Len(moves) \/ i \in 1..(Len(moves) - 1)
      BY <2>5, <2>7
    <3> QED BY <2>4, <2>7, <3>1 DEF Knows
  <2> QED BY <2>1, <2>8 DEF AllKnow, AllMeet, NoEnd
<1> QED BY <1>3, <1>4

LEMMA DestInitKnows ==
  ASSUME Types, AllKnow, moves # <<>>, dest_init
  PROVE  AllKnow' /\ AllMeet'
<1>1. Stays /\ Move.at = "enter_signal"
  BY DEF dest_init
<1>2. Move \in Moves /\ Knows(Move, env, present)
  BY TopKnows
<1>3. CASE Gone(Move) \/ env[Move.item] # Move.dest
  <2>1. Ends(Move, "gone", FALSE)
    BY <1>3 DEF dest_init
  <2>2. AllKnow'
    BY <1>1, <2>1, EndingKnows DEF Stays
  <2> QED BY <2>1, <2>2 DEF AllMeet, Ends
<1>4. CASE ~(Gone(Move) \/ env[Move.item] # Move.dest) /\ Move.item \in Livings
  <2> DEFINE pairs == {<<Move.item, Move.dest>>}
             m == [Move EXCEPT !.at = "dest_init", !.oldp = player, !.met = pairs]
  <2>1. Goes(m) /\ ended' = NoEnd
    BY <1>4 DEF dest_init
  <2>2. /\ m.at = "dest_init" /\ m.met = pairs /\ m.item = Move.item /\ m.dest = Move.dest
        /\ m.disturbed = Move.disturbed
    BY <1>2 DEF Moves
  <2> HIDE DEF m
  <2>3. m.met = MeetDest(m)
    BY <1>4, <2>2 DEF MeetDest
  <2>4. Knows(m, env, present)
    BY <2>2, <2>3 DEF Knows, Meeting, Unnoted, Listed
  <2> QED BY <1>1, <2>1, <2>4, GoingKnows
<1>5. CASE ~(Gone(Move) \/ env[Move.item] # Move.dest) /\ Move.item \notin Livings
  <2> DEFINE m == [Move EXCEPT !.at = "entered", !.oldp = player]
  <2>1. Goes(m) /\ ended' = NoEnd
    BY <1>5 DEF dest_init
  <2>2. /\ m.at = "entered" /\ m.met = Move.met /\ m.item = Move.item
        /\ m.disturbed = Move.disturbed
    BY <1>2 DEF Moves
  <2> HIDE DEF m
  <2>3. MeetDest(m) = {}
    BY <1>5, <2>2 DEF MeetDest
  <2>4. Knows(m, env, present)
    BY <1>1, <1>2, <2>2, <2>3 DEF Knows, Meeting, Unnoted, Listed
  <2> QED BY <1>1, <2>1, <2>4, GoingKnows
<1> QED BY <1>3, <1>4, <1>5

LEMMA OthersListedKnows ==
  ASSUME Types, AllKnow, moves # <<>>, others_listed
  PROVE  AllKnow' /\ AllMeet'
<1>1. Stays /\ Move.at \in {"dest_init", "entered"}
  BY DEF others_listed
<1>2. Move \in Moves /\ Knows(Move, env, present)
  BY TopKnows
<1>3. CASE Gone(Move) \/ env[Move.item] # Move.dest
  <2>1. Ends(Move, "gone", TRUE)
    BY <1>3 DEF others_listed
  <2>2. AllKnow'
    BY <1>1, <2>1, EndingKnows DEF Stays
  <2> QED BY <2>1, <2>2 DEF AllMeet, Ends
<1>4. CASE ~(Gone(Move) \/ env[Move.item] # Move.dest)
  <2> DEFINE those == Inventory(Move.dest) \ {Move.item}
             m == [Move EXCEPT !.at = "item_init", !.others = those]
  <2>1. Goes(m) /\ ended' = NoEnd
    BY <1>4 DEF others_listed
  <2>2. those = Inside(Move.dest, env, present) \ {Move.item}
    BY DEF Inventory, Inside
  <2> HIDE DEF those
  <2>3. /\ m.at = "item_init" /\ m.others = those /\ m.item = Move.item /\ m.dest = Move.dest
        /\ m.met = Move.met /\ m.disturbed = Move.disturbed
    BY <1>2 DEF Moves
  <2> HIDE DEF m
  <2>4. m.item \in present /\ m.dest \in Rooms \cup present
    BY <1>2, <1>4, <2>3, ObjectsAreDistinct DEF Gone, IsThere, Moves
  <2>5. MeetDest(m) = MeetDest(Move)
    BY <2>3 DEF MeetDest
  <2>6. m.disturbed \/ m.met = MeetDest(m)
    BY <1>1, <1>2, <2>3, <2>5 DEF Knows, Meeting
  <2>7. Knows(m, env, present)
    BY <2>2, <2>3, <2>4, <2>6 DEF Knows, Meeting, Unnoted, Listed
  <2> QED BY <1>1, <2>1, <2>7, GoingKnows
<1> QED BY <1>3, <1>4

\* Of two moves that agree on who is where, who meets whom is the same.
LEMMA SameMeetings ==
  ASSUME NEW m, NEW n, n.item = m.item, n.dest = m.dest, n.others = m.others
  PROVE  MeetDest(n) = MeetDest(m) /\ MeetItem(n) = MeetItem(m) /\ MetByItem(n) = MetByItem(m)
  BY DEF MeetDest, MeetItem, MetByItem

LEMMA InitsKnow ==
  ASSUME Types, AllKnow, moves # <<>>, NEW o \in Things, item_init(o) \/ other_init(o)
  PROVE  AllKnow' /\ AllMeet'
<1>1. Stays /\ ended' = NoEnd
  BY DEF item_init, other_init
<1>2. Move \in Moves /\ Knows(Move, env, present)
  BY TopKnows
<1>3. ASSUME NEW pair, Goes([Move EXCEPT !.met = @ \cup {pair}]),
             \/ Move.at = "item_init" /\ pair \in MeetItem(Move)
             \/ Move.at = "other_init" /\ (Move.item \in Livings => pair \in MetByItem(Move))
      PROVE  AllKnow' /\ AllMeet'
  <2> DEFINE pairs == Move.met \cup {pair}
             m == [Move EXCEPT !.met = pairs]
  <2>1. Goes(m)
    BY <1>3
  <2>2. /\ m.at = Move.at /\ m.met = pairs /\ m.item = Move.item /\ m.dest = Move.dest
        /\ m.others = Move.others /\ m.disturbed = Move.disturbed
    BY <1>2 DEF Moves
  <2> HIDE DEF m
  <2>3. /\ MeetDest(m) = MeetDest(Move) /\ MeetItem(m) = MeetItem(Move)
        /\ MetByItem(m) = MetByItem(Move)
    BY <2>2, SameMeetings
  <2>4. Knows(m, env, present)
    BY <1>2, <1>3, <2>2, <2>3 DEF Knows, Meeting, Unnoted, Listed
  <2> QED BY <1>1, <2>1, <2>4, GoingKnows
<1>4. CASE item_init(o)
  <2>1. /\ Move.at = "item_init" /\ o \in Move.others \cap Livings
        /\ Goes([Move EXCEPT !.met = @ \cup {<<o, Move.item>>}])
    BY <1>4 DEF item_init, ToMeetItem
  <2>2. <<o, Move.item>> \in MeetItem(Move)
    BY <2>1 DEF MeetItem
  <2> QED BY <1>3, <2>1, <2>2
<1>5. CASE other_init(o)
  <2>1. /\ Move.at = "other_init" /\ o \in Move.others
        /\ Goes([Move EXCEPT !.met = @ \cup {<<Move.item, o>>}])
    BY <1>5 DEF other_init, ToBeMet
  <2>2. Move.item \in Livings => <<Move.item, o>> \in MetByItem(Move)
    BY <2>1 DEF MetByItem
  <2> QED BY <1>3, <2>1, <2>2
<1> QED BY <1>4, <1>5

LEMMA TurnsKnow ==
  ASSUME Types, AllKnow, moves # <<>>, items_turn \/ all_met
  PROVE  AllKnow' /\ AllMeet'
<1>1. Stays /\ ended' = NoEnd
  BY DEF items_turn, all_met
<1>2. Move \in Moves /\ Knows(Move, env, present)
  BY TopKnows
<1>3. ASSUME NEW place \in {"other_init", "met"}, Proceeds(Move, place),
             ~Move.disturbed =>
               /\ Move.at \in Listed
               /\ place = "other_init" => Move.item \in Livings
                                            /\ Move.met = MeetDest(Move) \cup MeetItem(Move)
               /\ place = "met" =>
                    Move.met = MeetDest(Move) \cup MeetItem(Move) \cup MetByItem(Move)
      PROVE  AllKnow' /\ AllMeet'
  <2> DEFINE m == [Move EXCEPT !.at = place]
  <2>1. Goes(m)
    BY <1>3 DEF Proceeds
  <2>2. /\ m.at = place /\ m.met = Move.met /\ m.item = Move.item /\ m.dest = Move.dest
        /\ m.others = Move.others /\ m.disturbed = Move.disturbed
    BY <1>2 DEF Moves
  <2> HIDE DEF m
  <2>3. /\ MeetDest(m) = MeetDest(Move) /\ MeetItem(m) = MeetItem(Move)
        /\ MetByItem(m) = MetByItem(Move)
    BY <2>2, SameMeetings
  <2>4. Knows(m, env, present)
    BY <1>2, <1>3, <2>2, <2>3 DEF Knows, Meeting, Unnoted, Listed
  <2> QED BY <1>1, <2>1, <2>4, GoingKnows
<1>4. ~Move.disturbed /\ Move.at \in Listed =>
        /\ IsThere(Move.item) /\ Move.others \subseteq present
  BY <1>2 DEF Knows, Meeting, Inside, IsThere
<1>5. CASE items_turn
  <2>1. Move.at = "item_init" /\ (ToMeetItem(Move) = {} \/ ~IsThere(Move.item))
    BY <1>5 DEF items_turn
  <2>2. ~Move.disturbed => Move.met = MeetDest(Move) \cup MeetItem(Move)
    <3>1. ASSUME ~Move.disturbed, NEW o \in Move.others \cap Livings
          PROVE  <<o, Move.item>> \in Move.met
      BY <1>4, <2>1, <3>1 DEF ToMeetItem, Listed
    <3>2. ~Move.disturbed => MeetItem(Move) \subseteq Move.met
      BY <3>1 DEF MeetItem
    <3> QED BY <1>2, <2>1, <3>2 DEF Knows, Meeting
  <2>3. CASE Move.item \in Livings /\ IsThere(Move.item)
    <3>1. Proceeds(Move, "other_init")
      BY <1>5, <2>3 DEF items_turn
    <3> QED BY <1>3, <2>1, <2>2, <2>3, <3>1 DEF Listed
  <2>4. CASE ~(Move.item \in Livings /\ IsThere(Move.item))
    <3>1. Proceeds(Move, "met")
      BY <1>5, <2>4 DEF items_turn
    <3>2. ~Move.disturbed => MetByItem(Move) = {}
      BY <1>4, <2>1, <2>4 DEF MetByItem, Listed
    <3> QED BY <1>3, <2>1, <2>2, <3>1, <3>2 DEF Listed
  <2> QED BY <2>3, <2>4
<1>6. CASE all_met
  <2>1. Move.at = "other_init" /\ ToBeMet(Move) = {} /\ Proceeds(Move, "met")
    BY <1>6 DEF all_met
  <2>2. ASSUME ~Move.disturbed, NEW o \in Move.others PROVE <<Move.item, o>> \in Move.met
    BY <1>4, <2>1, <2>2 DEF ToBeMet, Listed
  <2>3. ~Move.disturbed => MetByItem(Move) \subseteq Move.met
    BY <2>2 DEF MetByItem
  <2>4. ~Move.disturbed =>
          Move.met = MeetDest(Move) \cup MeetItem(Move) \cup MetByItem(Move)
    BY <1>2, <2>1, <2>3 DEF Knows, Meeting
  <2> QED BY <1>3, <2>1, <2>4 DEF Listed
<1> QED BY <1>5, <1>6

LEMMA DestMeetsKnows ==
  ASSUME Types, AllKnow, moves # <<>>, dest_meets
  PROVE  AllKnow' /\ AllMeet'
<1>1. Stays /\ ended' = NoEnd /\ Move.at = "met"
  BY DEF dest_meets
<1>2. Move \in Moves /\ Knows(Move, env, present)
  BY TopKnows
<1>3. CASE ~Gone(Move) /\ Move.dest \in Livings
  <2> DEFINE pairs == Move.met \cup {<<Move.dest, Move.item>>}
             m == [Move EXCEPT !.at = "dest_met", !.met = pairs]
  <2>1. Goes(m)
    BY <1>3 DEF dest_meets
  <2>2. /\ m.at = "dest_met" /\ m.met = pairs /\ m.item = Move.item /\ m.dest = Move.dest
        /\ m.others = Move.others /\ m.disturbed = Move.disturbed
    BY <1>2 DEF Moves
  <2> HIDE DEF m
  <2>3. /\ MeetDest(m) = MeetDest(Move) /\ MeetItem(m) = MeetItem(Move)
        /\ MetByItem(m) = MetByItem(Move)
    BY <2>2, SameMeetings
  <2>4. Knows(m, env, present)
    BY <1>1, <1>2, <1>3, <2>2, <2>3 DEF Knows, Meeting, Unnoted, Listed
  <2> QED BY <1>1, <2>1, <2>4, GoingKnows
<1>4. CASE ~(~Gone(Move) /\ Move.dest \in Livings)
  <2> DEFINE m == [Move EXCEPT !.at = "done"]
  <2>1. Goes(m)
    BY <1>4 DEF dest_meets, Proceeds
  <2>2. /\ m.at = "done" /\ m.met = Move.met /\ m.item = Move.item /\ m.dest = Move.dest
        /\ m.others = Move.others /\ m.disturbed = Move.disturbed
    BY <1>2 DEF Moves
  <2> HIDE DEF m
  <2>3. /\ MeetDest(m) = MeetDest(Move) /\ MeetItem(m) = MeetItem(Move)
        /\ MetByItem(m) = MetByItem(Move)
    BY <2>2, SameMeetings
  <2>4. ~Move.disturbed => ~Gone(Move)
    BY <1>1, <1>2 DEF Knows, Meeting, Listed, Gone, IsThere
  <2>5. Knows(m, env, present)
    BY <1>1, <1>2, <1>4, <2>2, <2>3, <2>4 DEF Knows, Meeting, Unnoted, Listed
  <2> QED BY <1>1, <2>1, <2>5, GoingKnows
<1> QED BY <1>3, <1>4

LEMMA RestoreMeets ==
  ASSUME Types, AllKnow, moves # <<>>, restore
  PROVE  AllKnow' /\ AllMeet'
<1>1. /\ Stays /\ Move.at \in {"dest_met", "done"} /\ Ends(Move, "complete", FALSE)
  BY DEF restore
<1>2. Move \in Moves /\ Knows(Move, env, present)
  BY TopKnows
<1>3. AllKnow'
  BY <1>1, EndingKnows DEF Stays
<1>4. ended'.move = Move
  BY <1>1 DEF Ends
<1> DEFINE m == Move
           others == Inventory(m.dest) \ {m.item}
<1>5. ASSUME ~m.disturbed
      PROVE  m.met = {<<o, m.item>> : o \in others \cap Livings}
                \cup {<<m.dest, m.item>> : d \in {m.dest} \cap Livings}
                \cup (IF m.item \in Livings
                        THEN {<<m.item, o>> : o \in others \cup {m.dest}} ELSE {})
  <2>1. others = m.others
    BY <1>1, <1>2, <1>5 DEF Knows, Meeting, Listed, Inside, Inventory
  <2> HIDE DEF others
  <2>2. {<<o, m.item>> : o \in others \cap Livings} = MeetItem(m)
    BY <2>1 DEF MeetItem
  <2>3. (IF m.item \in Livings
           THEN {<<m.item, o>> : o \in others \cup {m.dest}} ELSE {})
          = MeetDest(m) \cup MetByItem(m)
    BY <2>1 DEF MeetDest, MetByItem
  <2>4. m.met = MeetDest(m) \cup MeetItem(m) \cup MetByItem(m)
                \cup {<<m.dest, m.item>> : d \in {m.dest} \cap Livings}
    <3> HIDE DEF m
    <3>1. CASE m.dest \in Livings
      <4>1. {<<m.dest, m.item>> : d \in {m.dest} \cap Livings} = {<<m.dest, m.item>>}
        BY <3>1
      <4>2. m.at = "dest_met"
        BY <1>1, <1>2, <1>5, <3>1 DEF Knows, Meeting, m
      <4> QED BY <1>2, <1>5, <4>1, <4>2 DEF Knows, Meeting, m
    <3>2. CASE m.dest \notin Livings
      <4>1. {<<m.dest, m.item>> : d \in {m.dest} \cap Livings} = {}
        BY <3>2
      <4>2. m.at = "done"
        BY <1>1, <1>2, <1>5, <3>2 DEF Knows, Meeting, m
      <4> QED BY <1>2, <1>5, <4>1, <4>2 DEF Knows, Meeting, m
    <3> QED BY <3>1, <3>2
  <2> QED BY <2>2, <2>3, <2>4
<1>6. AllMeet'
  BY <1>1, <1>4, <1>5 DEF AllMeet, Stays, Inventory
<1> QED BY <1>3, <1>6

\* Whoever is destructed disturbs every move that is going on.
LEMMA DestructingKnows ==
  ASSUME Types, AllKnow, NEW t \in Things, Destructing(t)
  PROVE  AllKnow' /\ AllMeet'
<1>1. moves' = Disturbs(moves) /\ ended' = NoEnd
  BY DEF Destructing
<1>2. ASSUME NEW i \in 1..Len(moves') PROVE moves'[i].disturbed = TRUE
  <2>1. i \in 1..Len(moves) /\ moves[i] \in Moves
    BY <1>1, <1>2, DisturbedAreAlike DEF Types
  <2> QED BY <1>1, <2>1 DEF Disturbs, Moves
<1> QED BY <1>1, <1>2 DEF AllKnow, Knows, AllMeet, NoEnd

LEMMA MoveObjectKnows ==
  ASSUME Types, AllKnow, NEW item \in Things, NEW dest \in Rooms \cup present,
         MoveObject(item, dest)
  PROVE  AllKnow' /\ AllMeet'
<1> DEFINE m == NewMove(item, dest)
<1>1. /\ moves' = Append(moves, m) /\ ended' = NoEnd
      /\ env' = env /\ present' = present
  BY DEF MoveObject
<1>2. Knows(m, env, present)
  BY DEF NewMove, Knows, Meeting, Unnoted, Listed
<1> HIDE DEF m
<1>3. /\ Len(moves) \in Nat /\ Len(moves') = Len(moves) + 1
      /\ moves'[Len(moves) + 1] = m
      /\ \A i \in 1..Len(moves) : moves'[i] = moves[i]
  BY <1>1 DEF Types
<1>4. ASSUME NEW i \in 1..Len(moves') PROVE Knows(moves'[i], env', present')
  <2>1. i \in 1..Len(moves) \/ i = Len(moves) + 1
    BY <1>3
  <2> QED BY <1>1, <1>2, <1>3, <2>1 DEF AllKnow
<1> QED BY <1>1, <1>4 DEF AllKnow, AllMeet, NoEnd

LEMMA NextKnows == Types /\ AllKnow /\ AllMeet /\ [HookNext]_hookVars => AllKnow' /\ AllMeet'
<1> SUFFICES ASSUME Types, AllKnow, AllMeet, [HookNext]_hookVars PROVE AllKnow' /\ AllMeet'
  OBVIOUS
<1>1. CASE MoveGoesOn
  <2>1. moves # <<>>
    BY <1>1 DEF MoveGoesOn
  <2>2. CASE \/ prevent_leave \/ enter_signal
             \/ \E yes \in BOOLEAN :
                  prevent_move(yes) \/ prevent_enter(yes) \/ move_signal(yes)
    BY <2>1, <2>2, AsksKnow
  <2>3. CASE \E yes \in BOOLEAN : set_environment(yes)
    BY <2>1, <2>3, SetEnvironmentKnows
  <2>4. CASE dest_init
    BY <2>1, <2>4, DestInitKnows
  <2>5. CASE others_listed
    BY <2>1, <2>5, OthersListedKnows
  <2>6. CASE \E o \in Things : item_init(o) \/ other_init(o)
    BY <2>1, <2>6, InitsKnow
  <2>7. CASE items_turn \/ all_met
    BY <2>1, <2>7, TurnsKnow
  <2>8. CASE dest_meets
    BY <2>1, <2>8, DestMeetsKnows
  <2>9. CASE restore
    BY <2>1, <2>9, RestoreMeets
  <2> QED BY <1>1, <2>2, <2>3, <2>4, <2>5, <2>6, <2>7, <2>8, <2>9 DEF MoveGoesOn
<1>2. CASE \E item \in Things, dest \in Rooms \cup present : MoveObject(item, dest)
  BY <1>2, MoveObjectKnows
<1>3. CASE \E t \in Things : Destructing(t)
  BY <1>3, DestructingKnows
<1>4. CASE UNCHANGED hookVars
  BY <1>4 DEF hookVars, AllKnow, AllMeet, Inventory
<1> QED BY <1>1, <1>2, <1>3, <1>4 DEF HookNext

\* A move in the course of which nothing else was moved or destructed, and that
\* ran to its end, has made exactly those meet who should: each living object in
\* the destination the item, and a living item the destination and all in it,
\* for any objects and however deep it lies within other moves.
THEOREM AllAlwaysMeet == HookSpec => []AllMeet
<1>1. HookInit => AllKnow /\ AllMeet
  BY DEF HookInit, AllKnow, AllMeet, NoEnd
<1>2. HookInv => Types
  BY DEF HookInv
<1> QED BY HookInitInv, HookNextInv, NextKnows, <1>1, <1>2, PTL DEF HookSpec

-----------------------------------------------------------------------------
(***************************************************************************)
(* Proofs about ObjectTrackers, for any tree of zones, any of them broken, *)
(* and any programs: zones form a tree, and objects have the program of    *)
(* their blueprint.                                                        *)
(***************************************************************************)
ZoneInfos ==
  [parent : Zones \cup {NoZone}, children : SUBSET Zones, instances : SUBSET Nat]

ZonesOK(zs) == DOMAIN zs \subseteq Zones /\ \A z \in DOMAIN zs : zs[z] \in ZoneInfos

\* ZonesFormATree, of any tables of zones and instances.
Tree(zs, is) ==
  \A z \in DOMAIN zs :
    /\ zs[z].parent = ParentOf[z]
    /\ zs[z].parent # NoZone => /\ zs[z].parent \in DOMAIN zs
                                /\ z \in zs[zs[z].parent].children
    /\ \A c \in zs[z].children : c \in DOMAIN zs /\ zs[c].parent = z
    /\ \A i \in zs[z].instances : i \in DOMAIN is /\ is[i].zone = z

\* Instances are numbered from 1.
Numbered(f) == \E n \in Nat : DOMAIN f = 1..n

ZoneInv == ZonesOK(zones) /\ Tree(zones, instances) /\ Numbered(instances)

Objs ==
  [name : Programs, clone : BOOLEAN, from : Nat, alive : BOOLEAN, created : BOOLEAN]

ProgramInfos == [name : Programs, blueprint : Nat, clones : SUBSET Nat]

ObjectsOK ==
  /\ objects \in Seq(Objs)
  /\ blueprints \in [Programs -> Nat]
  /\ \A o \in callouts : o \in DOMAIN objects /\ objects[o].name = SQLiteClient

TablesOK ==
  /\ Numbered(programs)
  /\ \A id \in DOMAIN programs : programs[id] \in ProgramInfos
  /\ program_names \in [Programs -> Seq(Nat)]
  /\ \A p \in Programs : \A i \in DOMAIN program_names[p] :
       /\ program_names[p][i] \in DOMAIN programs
       /\ programs[program_names[p][i]].name = p

MapOK ==
  \A o \in DOMAIN object_map :
    o \in DOMAIN objects /\ object_map[o] \in DOMAIN programs

\* A program that is known has its zone, so that nothing fails any more, and
\* its latest version is that of the blueprint, if there is one.
Current ==
  raw = {} =>
    \A p \in Programs \ {SQLiteClient} : program_names[p] # <<>> =>
      /\ ZoneOf[p] \in DOMAIN zones
      /\ blueprints[p] # 0 => programs[Latest(p)].blueprint = blueprints[p]

TrackersInv ==
  ZoneInv /\ ObjectsOK /\ TablesOK /\ MapOK /\ Current /\ ObjectsHaveTheirProgram

\* Object o of program p has entered the tables.
Entered(o, clone, p) ==
  /\ \A id \in DOMAIN programs :
       /\ id \in DOMAIN programs' /\ programs'[id].name = programs[id].name
       /\ programs'[id].blueprint = programs[id].blueprint
       /\ programs[id].clones \subseteq programs'[id].clones
  /\ DOMAIN object_map' = DOMAIN object_map \cup {o}
  /\ \A q \in DOMAIN object_map \ {o} : object_map'[q] = object_map[q]
  /\ object_map'[o] \in DOMAIN programs' /\ programs'[object_map'[o]].name = p
  /\ IF clone
       THEN /\ o \in programs'[object_map'[o]].clones
            /\ object_map'[o] = Latest(p) /\ program_names[p] # <<>>
            /\ program_names' = program_names
       ELSE /\ programs'[object_map'[o]].blueprint = o
            /\ Latest(p)' = object_map'[o]
            /\ \A q \in Programs \ {p} : program_names'[q] = program_names[q]
-----------------------------------------------------------------------------
LEMMA NextNumber ==
  ASSUME NEW f, Numbered(f)
  PROVE  /\ Cardinality(DOMAIN f) + 1 \notin DOMAIN f
         /\ Cardinality(DOMAIN f) + 1 \in Nat
         /\ \A v : Numbered(With(f, Cardinality(DOMAIN f) + 1, v))
<1>1. PICK n \in Nat : DOMAIN f = 1..n
  BY DEF Numbered
<1>2. Cardinality(DOMAIN f) = n
  BY <1>1, FS_Interval
<1>3. \A v : DOMAIN With(f, n + 1, v) = 1..(n + 1)
  BY <1>1 DEF With
<1>4. n + 1 \in Nat /\ n + 1 \notin 1..n
  OBVIOUS
<1> QED BY <1>1, <1>2, <1>3, <1>4 DEF Numbered
-----------------------------------------------------------------------------
(* The zones above a zone.                                                 *)

LEMMA UpwardOfItself ==
  ASSUME NEW z \in Zones
  PROVE  z \in Upward(z) /\ Upward(z) \subseteq Zones
BY DEF Upward

LEMMA UpwardIsClosed ==
  ASSUME NEW z \in Zones, NEW a \in Upward(z), ParentOf[a] # NoZone
  PROVE  ParentOf[a] \in Upward(z)
BY ZonesAreATree DEF Upward

LEMMA UpwardIsWithin ==
  ASSUME NEW z \in Zones, NEW a \in Upward(z)
  PROVE  Upward(a) \subseteq Upward(z)
<1>1. Upward(z) \in SUBSET Zones
  BY UpwardOfItself
<1>2. \A b \in Upward(z) : ParentOf[b] # NoZone => ParentOf[b] \in Upward(z)
  BY UpwardIsClosed
<1>3. SUFFICES ASSUME NEW b \in Upward(a) PROVE b \in Upward(z)
  OBVIOUS
<1>4. \A A \in SUBSET Zones :
        a \in A /\ (\A c \in A : ParentOf[c] # NoZone => ParentOf[c] \in A) => b \in A
  BY <1>3 DEF Upward
<1> QED BY <1>1, <1>2, <1>4

\* Whoever is added has the zone above, or gets it.
LEMMA ParentIsThere ==
  ASSUME NEW z \in Zones, NEW a \in Added(z), ParentOf[a] # NoZone
  PROVE  ParentOf[a] \in DOMAIN zones \cup Added(z)
<1> DEFINE p == ParentOf[a]
<1>1. a \in Upward(z) /\ a \in Zones /\ Above(a) \cap Missing(z) \cap Broken = {}
  BY UpwardOfItself DEF Added, Missing
<1>2. p \in Upward(z) /\ p \in Upward(a) /\ p \in Zones
  BY <1>1, UpwardIsClosed, UpwardOfItself
<1>3. Upward(p) \subseteq Upward(a) /\ a \notin Upward(p)
  BY <1>1, <1>2, UpwardIsWithin, ZonesAreATree
<1>4. Above(p) \subseteq Above(a)
  BY <1>3 DEF Above
<1>5. p \notin DOMAIN zones => p \in Missing(z)
  BY <1>2 DEF Missing
<1> QED BY <1>1, <1>4, <1>5 DEF Added

\* A zone that is registered lacks none above it.
LEMMA NothingMissing ==
  ASSUME ZoneInv, NEW z \in DOMAIN zones
  PROVE  Missing(z) = {}
<1>1. z \in Zones /\ DOMAIN zones \in SUBSET Zones
  BY DEF ZoneInv, ZonesOK
<1>2. \A a \in DOMAIN zones : ParentOf[a] # NoZone => ParentOf[a] \in DOMAIN zones
  BY DEF ZoneInv, Tree
<1>3. Upward(z) \subseteq DOMAIN zones
  BY <1>1, <1>2 DEF Upward
<1> QED BY <1>3 DEF Missing

\* new_zone() keeps the tree, whatever is broken; and the zone is there then
\* unless it failed.
LEMMA ZonesWithIsTree ==
  ASSUME ZoneInv, NEW z \in Zones
  PROVE  /\ ZonesOK(ZonesWith(z)) /\ Tree(ZonesWith(z), instances)
         /\ DOMAIN ZonesWith(z) = DOMAIN zones \cup Added(z)
         /\ ~ZoneFails(z) => z \in DOMAIN ZonesWith(z)
<1> DEFINE W == ZonesWith(z)
           new(a) == {b \in Added(z) : ParentOf[b] = a}
<1>1. ZonesOK(zones) /\ Tree(zones, instances)
  BY DEF ZoneInv
<1>2. DOMAIN W = DOMAIN zones \cup Added(z)
  BY DEF ZonesWith
<1>3. Added(z) \subseteq Zones /\ Added(z) \cap DOMAIN zones = {}
  BY UpwardOfItself DEF Added, Missing
<1>4. \A a \in DOMAIN zones :
        W[a] \in ZoneInfos /\ W[a].parent = zones[a].parent
          /\ W[a].children = zones[a].children \cup new(a)
          /\ W[a].instances = zones[a].instances
  <2> SUFFICES ASSUME NEW a \in DOMAIN zones
               PROVE  W[a] \in ZoneInfos /\ W[a].parent = zones[a].parent
                        /\ W[a].children = zones[a].children \cup new(a)
                        /\ W[a].instances = zones[a].instances
    OBVIOUS
  <2>1. zones[a] \in ZoneInfos /\ new(a) \in SUBSET Zones
    BY <1>1, <1>3 DEF ZonesOK
  <2>2. W[a] = [zones[a] EXCEPT !.children = @ \cup new(a)]
    BY DEF ZonesWith
  <2> HIDE DEF W, new
  <2> QED BY <2>1, <2>2 DEF ZoneInfos
<1>5. \A a \in Added(z) :
        W[a] \in ZoneInfos /\ W[a].parent = ParentOf[a] /\ W[a].children = new(a)
          /\ W[a].instances = {}
  <2> SUFFICES ASSUME NEW a \in Added(z)
               PROVE  W[a] \in ZoneInfos /\ W[a].parent = ParentOf[a]
                        /\ W[a].children = new(a) /\ W[a].instances = {}
    OBVIOUS
  <2>1. ParentOf[a] \in Zones \cup {NoZone} /\ new(a) \in SUBSET Zones
    BY <1>3, ZonesAreATree
  <2>2. W[a] = [parent |-> ParentOf[a], children |-> new(a), instances |-> {}]
    BY <1>3 DEF ZonesWith
  <2> HIDE DEF W, new
  <2> QED BY <2>1, <2>2 DEF ZoneInfos
<1>6. ZonesOK(W)
  BY <1>1, <1>2, <1>3, <1>4, <1>5 DEF ZonesOK
<1>7. \A a \in DOMAIN W : W[a].parent = ParentOf[a]
  BY <1>1, <1>2, <1>4, <1>5 DEF Tree
<1>8. \A a \in DOMAIN W : ParentOf[a] # NoZone =>
        ParentOf[a] \in DOMAIN W /\ a \in W[ParentOf[a]].children
  <2>1. ASSUME NEW a \in DOMAIN zones, ParentOf[a] # NoZone
        PROVE  ParentOf[a] \in DOMAIN W /\ a \in W[ParentOf[a]].children
    BY <1>1, <1>2, <1>4, <2>1 DEF Tree
  <2>2. ASSUME NEW a \in Added(z), ParentOf[a] # NoZone
        PROVE  ParentOf[a] \in DOMAIN W /\ a \in W[ParentOf[a]].children
    <3>1. ParentOf[a] \in DOMAIN zones \cup Added(z)
      BY <2>2, ParentIsThere
    <3>2. a \in new(ParentOf[a])
      OBVIOUS
    <3> QED BY <1>2, <1>4, <1>5, <3>1, <3>2
  <2> QED BY <1>2, <2>1, <2>2
<1>9. \A a \in DOMAIN W : \A c \in W[a].children : c \in DOMAIN W /\ W[c].parent = a
  <2>1. \A a \in DOMAIN W : \A c \in new(a) : c \in DOMAIN W /\ W[c].parent = a
    BY <1>2, <1>5
  <2>2. \A a \in DOMAIN zones : \A c \in zones[a].children :
          c \in DOMAIN W /\ W[c].parent = a
    BY <1>1, <1>2, <1>4 DEF Tree
  <2> QED BY <1>2, <1>4, <1>5, <2>1, <2>2
<1>10. \A a \in DOMAIN W : \A i \in W[a].instances :
         i \in DOMAIN instances /\ instances[i].zone = a
  BY <1>1, <1>2, <1>4, <1>5 DEF Tree
<1>11. ~ZoneFails(z) => z \in DOMAIN W
  BY <1>2, UpwardOfItself DEF ZoneFails, Missing, Added
<1> HIDE DEF W
<1> QED BY <1>2, <1>6, <1>7, <1>8, <1>9, <1>10, <1>11 DEF Tree, W
\* A new instance, of a zone and of one that is not known.
LEMMA InstanceKeepsTree ==
  ASSUME NEW zs, NEW is, ZonesOK(zs), Tree(zs, is), NEW z \in DOMAIN zs,
         NEW id \in Nat, id \notin DOMAIN is, NEW label,
         NEW S \in SUBSET (zs[z].instances \cup {id})
  PROVE  /\ ZonesOK([zs EXCEPT ![z].instances = S])
         /\ Tree([zs EXCEPT ![z].instances = S],
                 With(is, id, [zone |-> z, label |-> label]))
<1> DEFINE info == [zs[z] EXCEPT !.instances = S]
           new == [zs EXCEPT ![z] = info]
           w == With(is, id, [zone |-> z, label |-> label])
<1>1. zs[z] \in ZoneInfos
  BY DEF ZonesOK
<1>2. S \in SUBSET Nat
  BY <1>1 DEF ZoneInfos
<1>3. /\ info \in ZoneInfos /\ info.parent = zs[z].parent
      /\ info.children = zs[z].children /\ info.instances = S
  BY <1>1, <1>2 DEF ZoneInfos
<1> HIDE DEF info
<1>4. /\ DOMAIN new = DOMAIN zs /\ new[z] = info
      /\ \A a \in DOMAIN zs \ {z} : new[a] = zs[a]
  OBVIOUS
<1>5. ZonesOK(new)
  BY <1>3, <1>4 DEF ZonesOK
<1>6. /\ DOMAIN w = DOMAIN is \cup {id} /\ w[id].zone = z
      /\ \A i \in DOMAIN is : w[i] = is[i]
  BY DEF With
<1> HIDE DEF new, w
<1>7. Tree(new, w)
  <2>1. \A a \in DOMAIN zs : new[a].parent = zs[a].parent
                               /\ new[a].children = zs[a].children
    BY <1>3, <1>4
  <2>2. \A a \in DOMAIN zs : \A i \in new[a].instances :
          i \in DOMAIN w /\ w[i].zone = a
    BY <1>3, <1>4, <1>6 DEF Tree
  <2> QED BY <1>4, <2>1, <2>2 DEF Tree
<1> QED BY <1>5, <1>7 DEF info, new, w

LEMMA StrayInstanceKeepsTree ==
  ASSUME NEW zs, NEW is, Tree(zs, is), NEW id, id \notin DOMAIN is, NEW v
  PROVE  Tree(zs, With(is, id, v))
BY DEF Tree, With

LEMMA ZonesWithKeeps ==
  ASSUME ZoneInv, NEW z \in Zones, zones' = ZonesWith(z),
         UNCHANGED instances
  PROVE  ZoneInv'
BY ZonesWithIsTree DEF ZoneInv, Numbered

LEMMA NewInstanceKeeps ==
  ASSUME ZoneInv, NEW z \in Zones, NEW label, new_instance(z, label)
  PROVE  ZoneInv' /\ DOMAIN zones \subseteq DOMAIN zones'
<1> DEFINE id == Cardinality(DOMAIN instances) + 1
           v == [zone |-> z, label |-> label]
<1>1. ZonesOK(zones) /\ Tree(zones, instances) /\ Numbered(instances)
  BY DEF ZoneInv
<1>2. id \notin DOMAIN instances /\ id \in Nat /\ Numbered(With(instances, id, v))
  BY <1>1, NextNumber
<1>3. /\ instances' = With(instances, id, v)
      /\ zones' = IF z \in DOMAIN zones
                    THEN [zones EXCEPT ![z].instances = @ \cup {id}] ELSE zones
  BY DEF new_instance
<1> HIDE DEF id
<1>4. CASE z \in DOMAIN zones
  <2>1. ZonesOK(zones') /\ Tree(zones', instances')
    BY <1>1, <1>2, <1>3, <1>4, InstanceKeepsTree
  <2> QED BY <1>2, <1>3, <1>4, <2>1 DEF ZoneInv
<1>5. CASE z \notin DOMAIN zones
  <2>1. Tree(zones, With(instances, id, v))
    BY <1>1, <1>2, StrayInstanceKeepsTree
  <2> QED BY <1>1, <1>2, <1>3, <1>5, <2>1 DEF ZoneInv
<1> QED BY <1>4, <1>5

LEMMA StartingInstanceKeeps ==
  ASSUME ZoneInv, NEW z \in Zones, query_starting_instance(z)
  PROVE  ZoneInv' /\ DOMAIN zones \subseteq DOMAIN zones'
<1> DEFINE id == Cardinality(DOMAIN instances) + 1
           v == [zone |-> z, label |-> DEFAULT_INSTANCE]
<1>1. Numbered(instances)
  BY DEF ZoneInv
<1>2. id \notin DOMAIN instances /\ id \in Nat /\ Numbered(With(instances, id, v))
  BY <1>1, NextNumber
<1>3. CASE z \notin DOMAIN zones /\ ZoneFails(z)
  <2>1. zones' = ZonesWith(z) /\ UNCHANGED instances
    BY <1>3 DEF query_starting_instance
  <2> QED BY <2>1, ZonesWithKeeps, ZonesWithIsTree
<1>4. CASE ~(z \notin DOMAIN zones /\ ZoneFails(z))
  <2>1. /\ instances' = With(instances, id, v)
        /\ zones' = [ZonesWith(z) EXCEPT ![z].instances = {id}]
    BY <1>4 DEF query_starting_instance
  <2>2. z \in DOMAIN ZonesWith(z) /\ ZonesOK(ZonesWith(z))
          /\ Tree(ZonesWith(z), instances) /\ DOMAIN zones \subseteq DOMAIN ZonesWith(z)
    BY <1>4, ZonesWithIsTree
  <2>3. {id} \in SUBSET (ZonesWith(z)[z].instances \cup {id})
    OBVIOUS
  <2> HIDE DEF id
  <2>4. ZonesOK(zones') /\ Tree(zones', instances')
    BY <1>2, <2>1, <2>2, <2>3, InstanceKeepsTree
  <2> QED BY <1>2, <2>1, <2>2, <2>4 DEF ZoneInv
<1> QED BY <1>3, <1>4

LEMMA TrackZones ==
  ASSUME ZoneInv, NEW p \in Programs, NEW o, NEW clone,
         track_object(o, clone, p)
  PROVE  /\ ZoneInv' /\ DOMAIN zones \subseteq DOMAIN zones'
         /\ ~TrackingFails(clone, p) => ZoneOf[p] \in DOMAIN zones'
<1>1. ZoneOf[p] \in Zones
  BY ProgramsHaveZones
<1>2. CASE "zone" \in raw
  <2>1. UNCHANGED <<zones, instances>> /\ TrackingFails(clone, p)
    BY <1>2 DEF track_object, TrackingFails
  <2> QED BY <2>1 DEF ZoneInv, Numbered
<1>3. CASE "zone" \notin raw
  <2>1. zones' = ZonesWith(ZoneOf[p]) /\ UNCHANGED instances
    BY <1>3 DEF track_object
  <2>2. TrackingFails(clone, p) \/ ~ZoneFails(ZoneOf[p])
    BY DEF TrackingFails
  <2> QED BY <1>1, <2>1, <2>2, ZonesWithKeeps, ZonesWithIsTree
<1> QED BY <1>2, <1>3
-----------------------------------------------------------------------------
(* Programs.                                                               *)

LEMMA LatestOK ==
  ASSUME TablesOK, NEW p \in Programs, program_names[p] # <<>>
  PROVE  Latest(p) \in DOMAIN programs /\ programs[Latest(p)].name = p
<1>1. program_names[p] \in Seq(Nat)
  BY DEF TablesOK
<1>2. Len(program_names[p]) \in DOMAIN program_names[p]
  BY <1>1
<1> QED BY <1>2 DEF TablesOK, Latest

LEMMA NewProgramEnters ==
  ASSUME TrackersInv, NEW p \in Programs, NEW o \in Nat, new_program(o, p)
  PROVE  TablesOK' /\ Entered(o, FALSE, p)
<1> DEFINE id == Cardinality(DOMAIN programs) + 1
           info == [name |-> p, blueprint |-> o, clones |-> {}]
<1>1. TablesOK /\ Numbered(programs)
  BY DEF TrackersInv, TablesOK
<1>2. id \notin DOMAIN programs /\ id \in Nat /\ Numbered(With(programs, id, info))
  BY <1>1, NextNumber
<1>3. /\ programs' = With(programs, id, info)
      /\ program_names' = [program_names EXCEPT ![p] = Append(@, id)]
      /\ object_map' = With(object_map, o, id)
  BY DEF new_program
<1>4. info \in ProgramInfos /\ info.name = p /\ info.blueprint = o
  BY DEF ProgramInfos
<1> HIDE DEF id, info
<1>5. /\ DOMAIN programs' = DOMAIN programs \cup {id} /\ programs'[id] = info
      /\ \A j \in DOMAIN programs : programs'[j] = programs[j]
  BY <1>2, <1>3 DEF With
<1>6. /\ DOMAIN object_map' = DOMAIN object_map \cup {o} /\ object_map'[o] = id
      /\ \A q \in DOMAIN object_map \ {o} : object_map'[q] = object_map[q]
  BY <1>3 DEF With
<1> DEFINE names == program_names[p]
<1>7. names \in Seq(Nat) /\ program_names \in [Programs -> Seq(Nat)]
  BY <1>1 DEF TablesOK
<1>8. /\ program_names'[p] = Append(names, id)
      /\ program_names' \in [Programs -> Seq(Nat)]
      /\ \A q \in Programs \ {p} : program_names'[q] = program_names[q]
  BY <1>2, <1>3, <1>7
<1>9. /\ Len(Append(names, id)) = Len(names) + 1
      /\ DOMAIN Append(names, id) = DOMAIN names \cup {Len(names) + 1}
      /\ Append(names, id)[Len(names) + 1] = id
      /\ \A i \in DOMAIN names : Append(names, id)[i] = names[i]
  BY <1>2, <1>7
<1>10. Latest(p)' = id
  BY <1>8, <1>9 DEF Latest
<1>11. \A q \in Programs : \A i \in DOMAIN program_names'[q] :
         /\ program_names'[q][i] \in DOMAIN programs'
         /\ programs'[program_names'[q][i]].name = q
  <2>1. \A q \in Programs : \A i \in DOMAIN program_names[q] :
          /\ program_names[q][i] \in DOMAIN programs
          /\ programs[program_names[q][i]].name = q
    BY <1>1 DEF TablesOK
  <2>2. ASSUME NEW q \in Programs \ {p}, NEW i \in DOMAIN program_names'[q]
        PROVE  /\ program_names'[q][i] \in DOMAIN programs'
               /\ programs'[program_names'[q][i]].name = q
    BY <1>5, <1>8, <2>1
  <2>3. ASSUME NEW i \in DOMAIN program_names'[p]
        PROVE  /\ program_names'[p][i] \in DOMAIN programs'
               /\ programs'[program_names'[p][i]].name = p
    BY <1>4, <1>5, <1>8, <1>9, <2>1
  <2> QED BY <2>2, <2>3
<1>12. \A j \in DOMAIN programs' : programs'[j] \in ProgramInfos
  BY <1>1, <1>4, <1>5 DEF TablesOK
<1>13. TablesOK'
  BY <1>2, <1>3, <1>8, <1>11, <1>12 DEF TablesOK
<1>14. Entered(o, FALSE, p)
  BY <1>4, <1>5, <1>6, <1>8, <1>10 DEF Entered
<1> QED BY <1>13, <1>14

LEMMA CloneEnters ==
  ASSUME TrackersInv, NEW p \in Programs, NEW o \in Nat, program_names[p] # <<>>,
         program_cloned(o, p)
  PROVE  TablesOK' /\ Entered(o, TRUE, p)
<1> DEFINE id == Latest(p)
           info == [programs[id] EXCEPT !.clones = @ \cup {o}]
<1>1. TablesOK
  BY DEF TrackersInv
<1>2. id \in DOMAIN programs /\ programs[id].name = p /\ programs[id] \in ProgramInfos
  BY <1>1, LatestOK DEF TablesOK
<1>3. /\ programs' = [programs EXCEPT ![id] = info]
      /\ object_map' = With(object_map, o, id) /\ program_names' = program_names
  BY DEF program_cloned
<1> HIDE DEF id
<1>4. /\ info \in ProgramInfos /\ info.name = programs[id].name
      /\ info.blueprint = programs[id].blueprint
      /\ info.clones = programs[id].clones \cup {o}
  BY <1>2 DEF ProgramInfos
<1> HIDE DEF info
<1>5. /\ DOMAIN programs' = DOMAIN programs /\ programs'[id] = info
      /\ \A j \in DOMAIN programs \ {id} : programs'[j] = programs[j]
  BY <1>2, <1>3
<1>6. /\ DOMAIN object_map' = DOMAIN object_map \cup {o} /\ object_map'[o] = id
      /\ \A q \in DOMAIN object_map \ {o} : object_map'[q] = object_map[q]
  BY <1>3 DEF With
<1>7. \A j \in DOMAIN programs : programs'[j].name = programs[j].name
        /\ programs'[j].blueprint = programs[j].blueprint
        /\ programs[j].clones \subseteq programs'[j].clones
  BY <1>4, <1>5
<1>8. TablesOK'
  <2>1. Numbered(programs')
    BY <1>1, <1>5 DEF TablesOK, Numbered
  <2>2. \A j \in DOMAIN programs' : programs'[j] \in ProgramInfos
    BY <1>1, <1>4, <1>5 DEF TablesOK
  <2> QED BY <1>1, <1>3, <1>5, <1>7, <2>1, <2>2 DEF TablesOK
<1>9. Entered(o, TRUE, p)
  BY <1>2, <1>3, <1>4, <1>5, <1>6, <1>7 DEF Entered, id
<1> QED BY <1>8, <1>9

LEMMA TrackPrograms ==
  ASSUME TrackersInv, NEW p \in Programs, NEW o \in Nat, NEW clone \in BOOLEAN,
         track_object(o, clone, p)
  PROVE  IF TrackingFails(clone, p) THEN UNCHANGED programVars
           ELSE TablesOK' /\ Entered(o, clone, p)
<1>1. CASE TrackingFails(clone, p)
  BY <1>1 DEF track_object
<1>2. CASE ~TrackingFails(clone, p) /\ clone
  <2>1. program_cloned(o, p) /\ program_names[p] # <<>>
    BY <1>2 DEF track_object, TrackingFails, ProgramFails
  <2> QED BY <1>2, <2>1, CloneEnters
<1>3. CASE ~TrackingFails(clone, p) /\ ~clone
  <2>1. new_program(o, p)
    BY <1>3 DEF track_object
  <2> QED BY <1>3, <2>1, NewProgramEnters
<1> QED BY <1>1, <1>2, <1>3

\* What has entered the tables stays as it is when another object enters.
LEMMA EnteredKeepsOthers ==
  ASSUME TrackersInv, NEW o, NEW clone, NEW p, Entered(o, clone, p),
         NEW q \in DOMAIN object_map, q # o
  PROVE  /\ q \in DOMAIN object_map' /\ object_map'[q] = object_map[q]
         /\ object_map[q] \in DOMAIN programs /\ object_map'[q] \in DOMAIN programs'
         /\ programs'[object_map'[q]].name = programs[object_map[q]].name
         /\ programs'[object_map'[q]].blueprint = programs[object_map[q]].blueprint
         /\ programs[object_map[q]].clones \subseteq programs'[object_map'[q]].clones
BY DEF TrackersInv, MapOK, Entered

\* ObjectsHaveTheirProgram, of one object.
HasProgram(q) ==
  /\ q \in DOMAIN object_map =>
       /\ programs[object_map[q]].name = objects[q].name
       /\ IF objects[q].clone THEN q \in programs[object_map[q]].clones
            ELSE programs[object_map[q]].blueprint = q
       /\ "zone" \notin raw => ZoneOf[objects[q].name] \in DOMAIN zones
  /\ objects[q].name # SQLiteClient /\ q > Cardinality(Early) /\ "program" \notin raw =>
       /\ objects[q].created => q \in DOMAIN object_map
       /\ objects[q].clone /\ q \in DOMAIN object_map =>
            /\ objects[q].created
            /\ programs[object_map[q]].blueprint = objects[q].from

LEMMA AllHaveTheirs ==
  /\ ObjectsHaveTheirProgram <=> \A q \in DOMAIN objects : HasProgram(q)
  /\ ObjectsHaveTheirProgram' <=> \A q \in DOMAIN objects' : HasProgram(q)'
BY DEF ObjectsHaveTheirProgram, HasProgram
-----------------------------------------------------------------------------
(* The steps.                                                              *)

LEMMA CreateKeeps ==
  ASSUME TrackersInv, NEW p \in Programs, NEW clone \in BOOLEAN,
         NEW inserted \in BOOLEAN, create_hook(clone, p, inserted), UNCHANGED raw,
         IF clone THEN blueprints[p] # 0 /\ UNCHANGED blueprints
           ELSE blueprints' = [blueprints EXCEPT ![p] = Len(objects) + 1]
  PROVE  TrackersInv'
<1> DEFINE o == Len(objects) + 1
           ob == [name |-> p, clone |-> clone, from |-> blueprints[p], alive |-> TRUE,
                  created |-> p = SQLiteClient
                                \/ (~TrackingFails(clone, p) /\ (clone \/ inserted))]
<1>1. /\ ZoneInv /\ ObjectsOK /\ TablesOK /\ MapOK /\ Current
      /\ ObjectsHaveTheirProgram
  BY DEF TrackersInv
<1>2. /\ objects \in Seq(Objs) /\ o \in Nat /\ o \notin DOMAIN objects
      /\ blueprints \in [Programs -> Nat]
  BY <1>1 DEF ObjectsOK
<1>3. objects' = Append(objects, ob) /\ raw' = raw
  BY DEF create_hook
<1>4. /\ ob \in Objs /\ ob.name = p /\ ob.clone = clone /\ ob.from = blueprints[p]
      /\ ob.created = (p = SQLiteClient
                         \/ (~TrackingFails(clone, p) /\ (clone \/ inserted)))
  BY <1>2 DEF Objs
<1> HIDE DEF ob
<1>5. /\ objects' \in Seq(Objs) /\ DOMAIN objects' = DOMAIN objects \cup {o}
      /\ objects'[o] = ob /\ \A q \in DOMAIN objects : objects'[q] = objects[q]
  BY <1>2, <1>3, <1>4
<1>6. /\ blueprints' \in [Programs -> Nat]
      /\ \A q \in Programs \ {p} : blueprints'[q] = blueprints[q]
      /\ blueprints'[p] = IF clone THEN blueprints[p] ELSE o
  BY <1>2
<1>7. o \notin DOMAIN object_map
  BY <1>1, <1>2 DEF MapOK
<1>8. callouts' = IF p = SQLiteClient THEN callouts \cup {o} ELSE callouts
  BY DEF create_hook
<1> HIDE DEF o
<1>9. ObjectsOK'
  BY <1>1, <1>4, <1>5, <1>6, <1>8 DEF ObjectsOK
<1>10. CASE p = SQLiteClient
  <2>1. UNCHANGED <<zones, instances>> /\ UNCHANGED <<programs, program_names, object_map>>
    BY <1>10 DEF create_hook, zoneVars, programVars
  <2>2. ZoneInv' /\ TablesOK'
    BY <1>1, <2>1 DEF ZoneInv, TablesOK, Numbered
  <2>3. MapOK'
    BY <1>1, <1>5, <2>1 DEF MapOK
  <2>4. Current'
    BY <1>1, <1>3, <1>6, <1>10, <2>1 DEF Current, Latest
  <2>5. ObjectsHaveTheirProgram'
    BY <1>1, <1>3, <1>4, <1>5, <1>7, <1>10, <2>1 DEF ObjectsHaveTheirProgram
  <2> QED BY <1>9, <2>2, <2>3, <2>4, <2>5 DEF TrackersInv
<1>11. CASE p # SQLiteClient /\ TrackingFails(clone, p)
  <2>1. track_object(o, clone, p)
    BY <1>11 DEF create_hook, o
  <2>2. UNCHANGED <<programs, program_names, object_map>>
    BY <1>2, <1>11, <2>1, TrackPrograms DEF programVars
  <2>3. ZoneInv' /\ DOMAIN zones \subseteq DOMAIN zones'
    BY <1>1, <2>1, TrackZones
  <2>4. TablesOK'
    BY <1>1, <2>2 DEF TablesOK, Numbered
  <2>5. MapOK'
    BY <1>1, <1>5, <2>2 DEF MapOK
  <2>6. Current'
    <3>1. SUFFICES ASSUME raw = {}, NEW q \in Programs \ {SQLiteClient},
                          program_names[q] # <<>>
                   PROVE  /\ ZoneOf[q] \in DOMAIN zones'
                          /\ blueprints'[q] # 0 =>
                               programs[Latest(q)].blueprint = blueprints'[q]
      BY <1>3, <2>2 DEF Current, Latest
    <3>2. /\ ZoneOf[q] \in DOMAIN zones
          /\ blueprints[q] # 0 => programs[Latest(q)].blueprint = blueprints[q]
      BY <1>1, <3>1 DEF Current
    <3>3. ~ZoneFails(ZoneOf[q])
      BY <1>1, <3>2, NothingMissing DEF ZoneFails
    <3>4. q # p
      BY <1>11, <3>1, <3>3 DEF TrackingFails, ProgramFails
    <3> QED BY <1>6, <2>3, <3>2, <3>4
  <2>7. ObjectsHaveTheirProgram'
    <3>1. \A q \in DOMAIN objects : HasProgram(q)
      BY <1>1, AllHaveTheirs
    <3>2. \A q \in DOMAIN objects : HasProgram(q)'
      BY <1>3, <1>5, <2>2, <2>3, <3>1 DEF HasProgram
    <3>3. ~objects'[o].created /\ o \notin DOMAIN object_map'
      BY <1>4, <1>5, <1>7, <1>11, <2>2
    <3>4. ASSUME NEW q, q = o PROVE HasProgram(q)'
      BY <3>3, <3>4 DEF HasProgram
    <3> QED BY <1>5, <3>2, <3>4, AllHaveTheirs
  <2> QED BY <1>9, <2>3, <2>4, <2>5, <2>6, <2>7 DEF TrackersInv
<1>12. CASE p # SQLiteClient /\ ~TrackingFails(clone, p)
  <2>1. track_object(o, clone, p)
    BY <1>12 DEF create_hook, o
  <2>2. TablesOK' /\ Entered(o, clone, p) /\ raw = {}
    BY <1>2, <1>12, <2>1, TrackPrograms DEF TrackingFails
  <2>3. /\ ZoneInv' /\ DOMAIN zones \subseteq DOMAIN zones'
        /\ ZoneOf[p] \in DOMAIN zones'
    BY <1>1, <1>12, <2>1, TrackZones
  <2>4. MapOK'
    BY <1>1, <1>5, <2>2 DEF MapOK, Entered
  <2>5. Current'
    <3>1. SUFFICES ASSUME NEW q \in Programs \ {SQLiteClient},
                          program_names'[q] # <<>>
                   PROVE  /\ ZoneOf[q] \in DOMAIN zones'
                          /\ blueprints'[q] # 0 =>
                               programs'[Latest(q)'].blueprint = blueprints'[q]
      BY DEF Current
    <3>2. CASE q # p
      <4>1. program_names'[q] = program_names[q] /\ blueprints'[q] = blueprints[q]
        BY <1>6, <2>2, <3>2 DEF Entered
      <4>2. /\ ZoneOf[q] \in DOMAIN zones
            /\ blueprints[q] # 0 => programs[Latest(q)].blueprint = blueprints[q]
        BY <1>1, <2>2, <3>1, <4>1 DEF Current
      <4>3. Latest(q)' = Latest(q)
        BY <4>1 DEF Latest
      <4>4. Latest(q) \in DOMAIN programs
        BY <1>1, <3>1, <4>1, LatestOK
      <4>5. programs'[Latest(q)].blueprint = programs[Latest(q)].blueprint
        BY <2>2, <4>4 DEF Entered
      <4> QED BY <2>3, <4>1, <4>2, <4>3, <4>5
    <3>3. CASE q = p /\ clone
      <4>1. program_names' = program_names /\ program_names[p] # <<>>
        BY <2>2, <3>3 DEF Entered
      <4>2. Latest(p)' = Latest(p) /\ Latest(p) \in DOMAIN programs
        BY <1>1, <4>1, LatestOK DEF Latest
      <4>3. programs'[Latest(p)].blueprint = programs[Latest(p)].blueprint
        BY <2>2, <4>2 DEF Entered
      <4>4. blueprints[p] # 0 => programs[Latest(p)].blueprint = blueprints[p]
        BY <1>1, <1>12, <2>2, <4>1 DEF Current
      <4> QED BY <1>6, <2>3, <3>3, <4>2, <4>3, <4>4
    <3>4. CASE q = p /\ ~clone
      BY <1>6, <2>2, <2>3, <3>4 DEF Entered
    <3> QED BY <3>2, <3>3, <3>4
  <2>6. ObjectsHaveTheirProgram'
    <3>1. /\ o \in DOMAIN object_map' /\ programs'[object_map'[o]].name = p
          /\ IF clone THEN o \in programs'[object_map'[o]].clones
               ELSE programs'[object_map'[o]].blueprint = o
      BY <2>2 DEF Entered
    <3>2. clone => programs'[object_map'[o]].blueprint = blueprints[p]
      <4> SUFFICES ASSUME clone PROVE programs'[object_map'[o]].blueprint = blueprints[p]
        OBVIOUS
      <4>1. object_map'[o] = Latest(p) /\ program_names[p] # <<>>
        BY <2>2 DEF Entered
      <4>2. Latest(p) \in DOMAIN programs
        BY <1>1, <4>1, LatestOK
      <4>3. programs'[Latest(p)].blueprint = programs[Latest(p)].blueprint
        BY <2>2, <4>2 DEF Entered
      <4>4. programs[Latest(p)].blueprint = blueprints[p]
        BY <1>1, <1>12, <2>2, <4>1 DEF Current
      <4> QED BY <4>1, <4>3, <4>4
    <3>3. ASSUME NEW q \in DOMAIN objects
          PROVE  /\ q \in DOMAIN object_map' <=> q \in DOMAIN object_map
                 /\ q \in DOMAIN object_map =>
                      /\ programs'[object_map'[q]].name = programs[object_map[q]].name
                      /\ programs'[object_map'[q]].blueprint
                           = programs[object_map[q]].blueprint
                      /\ programs[object_map[q]].clones
                           \subseteq programs'[object_map'[q]].clones
      <4>1. q # o
        BY <1>2, <3>3
      <4>2. q \in DOMAIN object_map' <=> q \in DOMAIN object_map
        BY <2>2, <4>1 DEF Entered
      <4> QED BY <2>2, <4>1, <4>2, EnteredKeepsOthers
    <3>4. \A q \in DOMAIN objects : HasProgram(q)
      BY <1>1, AllHaveTheirs
    <3>5. ASSUME NEW q \in DOMAIN objects PROVE HasProgram(q)'
      <4>1. objects'[q] = objects[q]
        BY <1>5
      <4>2. HasProgram(q)
        BY <3>4
      <4>3. q \in DOMAIN object_map =>
              /\ programs'[object_map'[q]].name = objects'[q].name
              /\ IF objects'[q].clone THEN q \in programs'[object_map'[q]].clones
                   ELSE programs'[object_map'[q]].blueprint = q
              /\ "zone" \notin raw' => ZoneOf[objects'[q].name] \in DOMAIN zones'
        BY <1>3, <2>3, <3>3, <4>1, <4>2 DEF HasProgram
      <4>4. objects'[q].name # SQLiteClient /\ q > Cardinality(Early)
              /\ "program" \notin raw' =>
              /\ objects'[q].created => q \in DOMAIN object_map
              /\ objects'[q].clone /\ q \in DOMAIN object_map =>
                   /\ objects'[q].created
                   /\ programs'[object_map'[q]].blueprint = objects'[q].from
        BY <1>3, <3>3, <4>1, <4>2 DEF HasProgram
      <4> QED BY <3>3, <4>3, <4>4 DEF HasProgram
    <3>6. /\ clone => objects'[o].created
          /\ objects'[o].name = p /\ objects'[o].clone = clone
          /\ objects'[o].from = blueprints[p]
      BY <1>4, <1>5, <1>12
    <3>7. ASSUME NEW q, q = o PROVE HasProgram(q)'
      BY <2>3, <3>1, <3>2, <3>6, <3>7 DEF HasProgram
    <3> QED BY <1>5, <3>5, <3>7, AllHaveTheirs
  <2> QED BY <1>9, <2>2, <2>3, <2>4, <2>5, <2>6 DEF TrackersInv
<1> QED BY <1>10, <1>11, <1>12

LEMMA DestructKeeps ==
  ASSUME TrackersInv, NEW o \in DOMAIN objects, Destructed(o)
  PROVE  TrackersInv'
<1> DEFINE ob == [objects[o] EXCEPT !.alive = FALSE]
<1>1. /\ ZoneInv /\ ObjectsOK /\ TablesOK /\ MapOK /\ Current
      /\ ObjectsHaveTheirProgram
  BY DEF TrackersInv
<1>2. /\ objects' = [objects EXCEPT ![o] = ob]
      /\ blueprints' = [p \in Programs |-> IF blueprints[p] = o THEN 0 ELSE blueprints[p]]
      /\ callouts' = callouts /\ raw' = raw /\ UNCHANGED <<zones, instances>>
      /\ UNCHANGED <<programs, program_names, object_map>>
  BY DEF Destructed, zoneVars, programVars
<1>3. objects \in Seq(Objs) /\ objects[o] \in Objs /\ blueprints \in [Programs -> Nat]
  BY <1>1 DEF ObjectsOK
<1>4. /\ ob \in Objs /\ ob.name = objects[o].name /\ ob.clone = objects[o].clone
      /\ ob.from = objects[o].from /\ ob.created = objects[o].created
  BY <1>3 DEF Objs
<1> HIDE DEF ob
<1>5. /\ objects' \in Seq(Objs) /\ DOMAIN objects' = DOMAIN objects
      /\ \A q \in DOMAIN objects :
           /\ objects'[q].name = objects[q].name /\ objects'[q].clone = objects[q].clone
           /\ objects'[q].from = objects[q].from
           /\ objects'[q].created = objects[q].created
  BY <1>2, <1>3, <1>4
<1>6. /\ blueprints' \in [Programs -> Nat]
      /\ \A p \in Programs : blueprints'[p] \in {0, blueprints[p]}
  BY <1>2, <1>3
<1>7. ZoneInv' /\ TablesOK' /\ MapOK' /\ ObjectsOK'
  BY <1>1, <1>2, <1>5, <1>6 DEF ZoneInv, TablesOK, Numbered, MapOK, ObjectsOK
<1>8. Current'
  BY <1>1, <1>2, <1>6 DEF Current, Latest
<1>9. ObjectsHaveTheirProgram'
  BY <1>1, <1>2, <1>5, AllHaveTheirs DEF HasProgram
<1> QED BY <1>7, <1>8, <1>9 DEF TrackersInv

LEMMA TrackedKeeps ==
  ASSUME TrackersInv, NEW o \in callouts, Tracked(o)
  PROVE  TrackersInv'
<1>1. /\ ZoneInv /\ ObjectsOK /\ TablesOK /\ MapOK /\ Current
      /\ ObjectsHaveTheirProgram
  BY DEF TrackersInv
<1>2. callouts' = callouts \ {o} /\ UNCHANGED <<objects, blueprints, raw>>
  BY DEF Tracked
<1>3. /\ o \in DOMAIN objects /\ objects[o] \in Objs /\ o \in Nat
      /\ objects[o].name = SQLiteClient
  BY <1>1 DEF ObjectsOK
<1>4. objects[o].clone \in BOOLEAN /\ SQLiteClient \in Programs
  BY <1>3 DEF Objs
<1>5. ObjectsOK'
  BY <1>1, <1>2 DEF ObjectsOK
<1>6. CASE ~objects[o].alive
  <2>1. UNCHANGED <<zones, instances>> /\ UNCHANGED <<programs, program_names, object_map>>
    BY <1>6 DEF Tracked, zoneVars, programVars
  <2>2. ZoneInv' /\ TablesOK' /\ MapOK'
    BY <1>1, <1>2, <2>1 DEF ZoneInv, TablesOK, Numbered, MapOK
  <2>3. Current' /\ ObjectsHaveTheirProgram'
    BY <1>1, <1>2, <2>1 DEF Current, Latest, ObjectsHaveTheirProgram
  <2> QED BY <1>5, <2>2, <2>3 DEF TrackersInv
<1>7. CASE objects[o].alive
  <2> DEFINE clone == objects[o].clone
  <2>1. track_object(o, clone, SQLiteClient)
    BY <1>3, <1>7 DEF Tracked
  <2>2. ZoneInv' /\ DOMAIN zones \subseteq DOMAIN zones'
    BY <1>1, <1>4, <2>1, TrackZones
  <2>3. IF TrackingFails(clone, SQLiteClient) THEN UNCHANGED programVars
          ELSE TablesOK' /\ Entered(o, clone, SQLiteClient)
    BY <1>3, <1>4, <2>1, TrackPrograms
  <2>4. CASE TrackingFails(clone, SQLiteClient)
    <3>1. UNCHANGED <<programs, program_names, object_map>>
      BY <2>3, <2>4 DEF programVars
    <3>2. TablesOK' /\ MapOK'
      BY <1>1, <1>2, <3>1 DEF TablesOK, Numbered, MapOK
    <3>3. Current' /\ ObjectsHaveTheirProgram'
      BY <1>1, <1>2, <2>2, <3>1 DEF Current, Latest, ObjectsHaveTheirProgram
    <3> QED BY <1>5, <2>2, <3>2, <3>3 DEF TrackersInv
  <2>5. CASE ~TrackingFails(clone, SQLiteClient)
    <3>1. TablesOK' /\ Entered(o, clone, SQLiteClient)
      BY <2>3, <2>5
    <3>2. MapOK'
      BY <1>1, <1>2, <1>3, <3>1 DEF MapOK, Entered
    <3>3. Current'
      <4>1. SUFFICES ASSUME raw = {}, NEW q \in Programs \ {SQLiteClient},
                            program_names'[q] # <<>>
                     PROVE  /\ ZoneOf[q] \in DOMAIN zones'
                            /\ blueprints[q] # 0 =>
                                 programs'[Latest(q)'].blueprint = blueprints[q]
        BY <1>2 DEF Current
      <4>2. program_names'[q] = program_names[q]
        BY <3>1 DEF Entered
      <4>3. /\ ZoneOf[q] \in DOMAIN zones
            /\ blueprints[q] # 0 => programs[Latest(q)].blueprint = blueprints[q]
        BY <1>1, <4>1, <4>2 DEF Current
      <4>4. Latest(q)' = Latest(q) /\ Latest(q) \in DOMAIN programs
        BY <1>1, <4>1, <4>2, LatestOK DEF Latest
      <4>5. programs'[Latest(q)].blueprint = programs[Latest(q)].blueprint
        BY <3>1, <4>4 DEF Entered
      <4> QED BY <2>2, <4>3, <4>4, <4>5
    <3>4. ASSUME NEW q \in DOMAIN objects PROVE HasProgram(q)'
      <4>1. HasProgram(q)
        BY <1>1, AllHaveTheirs
      <4>2. CASE q = o
        <5>1. /\ o \in DOMAIN object_map' /\ programs'[object_map'[o]].name = SQLiteClient
              /\ IF clone THEN o \in programs'[object_map'[o]].clones
                   ELSE programs'[object_map'[o]].blueprint = o
          BY <3>1 DEF Entered
        <5>2. ZoneOf[SQLiteClient] \in DOMAIN zones'
          BY <1>1, <1>4, <2>1, <2>5, TrackZones
        <5> QED BY <1>2, <1>3, <4>2, <5>1, <5>2 DEF HasProgram
      <4>3. CASE q # o /\ q \in DOMAIN object_map
        <5>1. /\ q \in DOMAIN object_map'
              /\ programs'[object_map'[q]].name = programs[object_map[q]].name
              /\ programs'[object_map'[q]].blueprint = programs[object_map[q]].blueprint
              /\ programs[object_map[q]].clones \subseteq programs'[object_map'[q]].clones
          BY <3>1, <4>3, EnteredKeepsOthers
        <5> QED BY <1>2, <2>2, <4>1, <4>3, <5>1 DEF HasProgram
      <4>4. CASE q # o /\ q \notin DOMAIN object_map
        <5>1. q \notin DOMAIN object_map'
          BY <3>1, <4>4 DEF Entered
        <5> QED BY <1>2, <4>1, <4>4, <5>1 DEF HasProgram
      <4> QED BY <4>2, <4>3, <4>4
    <3>5. ObjectsHaveTheirProgram'
      BY <1>2, <3>4, AllHaveTheirs
    <3> QED BY <1>5, <2>2, <3>1, <3>2, <3>3, <3>5 DEF TrackersInv
  <2> QED BY <2>4, <2>5
<1> QED BY <1>6, <1>7

\* A step that only zones and instances take part in.
LEMMA ZoneStepKeeps ==
  ASSUME TrackersInv, ZoneInv', DOMAIN zones \subseteq DOMAIN zones',
         UNCHANGED <<objects, blueprints, callouts, programs, program_names, object_map,
                     raw>>
  PROVE  TrackersInv'
<1>1. UNCHANGED <<objects, blueprints, callouts, programs, program_names, object_map, raw>>
  OBVIOUS
<1>2. ObjectsOK' /\ TablesOK' /\ MapOK'
  BY <1>1 DEF TrackersInv, ObjectsOK, TablesOK, Numbered, MapOK
<1>3. Current' /\ ObjectsHaveTheirProgram'
  BY <1>1 DEF TrackersInv, Current, Latest, ObjectsHaveTheirProgram
<1> QED BY <1>2, <1>3 DEF TrackersInv

LEMMA EmptyTables ==
  ASSUME NEW zs, NEW is, NEW ps, DOMAIN zs = {}, DOMAIN is = {}, DOMAIN ps = {}
  PROVE  ZonesOK(zs) /\ Tree(zs, is) /\ Numbered(is) /\ Numbered(ps)
<1>1. {} = 1..0 /\ 0 \in Nat
  OBVIOUS
<1> QED BY <1>1 DEF ZonesOK, Tree, Numbered

LEMMA ReloadKeeps ==
  ASSUME TrackersInv, NEW tracker \in {"zone", "program"}, reload_tracker(tracker)
  PROVE  TrackersInv'
<1>1. raw' = raw \cup {tracker} /\ UNCHANGED <<objects, blueprints, callouts>>
  BY DEF reload_tracker
<1>2. ObjectsOK' /\ Current'
  BY <1>1 DEF TrackersInv, ObjectsOK, Current
<1>3. CASE tracker = "zone"
  <2>1. /\ DOMAIN zones' = {} /\ DOMAIN instances' = {}
        /\ UNCHANGED <<programs, program_names, object_map>>
    BY <1>3 DEF reload_tracker, programVars
  <2>2. ZoneInv'
    <3>1. DOMAIN [i \in {} |-> 0] = {}
      OBVIOUS
    <3> QED BY <2>1, <3>1, EmptyTables DEF ZoneInv
  <2>3. TablesOK' /\ MapOK'
    BY <1>1, <2>1 DEF TrackersInv, TablesOK, Numbered, MapOK
  <2>4. ObjectsHaveTheirProgram'
    <3>1. \A q \in DOMAIN objects : HasProgram(q)
      BY AllHaveTheirs DEF TrackersInv
    <3>2. "zone" \in raw'
      BY <1>1, <1>3
    <3>3. ASSUME NEW q \in DOMAIN objects PROVE HasProgram(q)'
      BY <1>1, <2>1, <3>1, <3>2 DEF HasProgram
    <3> QED BY <1>1, <3>3, AllHaveTheirs
  <2> QED BY <1>2, <2>2, <2>3, <2>4 DEF TrackersInv
<1>4. CASE tracker # "zone"
  <2>1. /\ DOMAIN programs' = {} /\ program_names' = [p \in Programs |-> <<>>]
        /\ DOMAIN object_map' = {} /\ UNCHANGED <<zones, instances>>
        /\ "program" \in raw'
    BY <1>1, <1>4 DEF reload_tracker, zoneVars
  <2>2. ZoneInv'
    BY <2>1 DEF TrackersInv, ZoneInv, Numbered
  <2>3. TablesOK'
    <3>1. DOMAIN [i \in {} |-> 0] = {}
      OBVIOUS
    <3>2. Numbered(programs')
      BY <2>1, <3>1, EmptyTables
    <3> QED BY <2>1, <3>2 DEF TablesOK
  <2>4. MapOK' /\ ObjectsHaveTheirProgram'
    BY <2>1 DEF MapOK, ObjectsHaveTheirProgram
  <2> QED BY <1>2, <2>2, <2>3, <2>4 DEF TrackersInv
<1> QED BY <1>3, <1>4

LEMMA TrackersInitInv == ASSUME TrackersInit PROVE TrackersInv
<1>1. PICK order \in [1..Cardinality(Early) -> Early] :
        /\ \A p \in Early : \E i \in DOMAIN order : order[i] = p
        /\ objects = [i \in DOMAIN order |->
                        [name |-> order[i], clone |-> FALSE, from |-> 0,
                         alive |-> TRUE, created |-> TRUE]]
        /\ blueprints = [p \in Programs |->
                           IF p \in Early THEN CHOOSE i \in DOMAIN order : order[i] = p
                                          ELSE 0]
  BY DEF TrackersInit
<1>2. /\ callouts = {} /\ DOMAIN zones = {} /\ DOMAIN instances = {}
      /\ DOMAIN programs = {} /\ program_names = [p \in Programs |-> <<>>]
      /\ DOMAIN object_map = {}
  BY DEF TrackersInit
<1>3. Cardinality(Early) \in Nat /\ Early \subseteq Programs
  BY FS_CardinalityType, EarlyPrograms
<1>4. \A i \in 1..Cardinality(Early) : objects[i] \in Objs
  BY <1>1, <1>3 DEF Objs
<1>5. objects \in Seq(Objs) /\ DOMAIN objects = 1..Cardinality(Early)
  BY <1>1, <1>3, <1>4
<1>6. blueprints \in [Programs -> Nat]
  <2>1. \A p \in Early : (CHOOSE i \in DOMAIN order : order[i] = p) \in DOMAIN order
    BY <1>1
  <2> QED BY <1>1, <1>3, <2>1
<1>7. ObjectsOK
  BY <1>2, <1>5, <1>6 DEF ObjectsOK
<1>8. ZoneInv /\ Numbered(programs)
  BY <1>2, EmptyTables DEF ZoneInv
<1>9. TablesOK /\ MapOK /\ Current
  BY <1>2, <1>8 DEF TablesOK, MapOK, Current
<1>10. ObjectsHaveTheirProgram
  BY <1>2, <1>3, <1>5 DEF ObjectsHaveTheirProgram
<1> QED BY <1>7, <1>8, <1>9, <1>10 DEF TrackersInv

LEMMA TrackersStepInv == ASSUME TrackersInv, [TrackersNext]_trackersVars PROVE TrackersInv'
<1>1. ASSUME NEW p \in Programs, Load(p) PROVE TrackersInv'
  <2>1. PICK inserted \in BOOLEAN : create_hook(FALSE, p, inserted)
    BY <1>1 DEF Load
  <2>2. UNCHANGED raw /\ blueprints' = [blueprints EXCEPT ![p] = Len(objects) + 1]
    BY <1>1 DEF Load
  <2> QED BY <2>1, <2>2, CreateKeeps
<1>2. ASSUME NEW p \in Programs, Clone(p) PROVE TrackersInv'
  <2>1. create_hook(TRUE, p, FALSE) /\ UNCHANGED raw /\ blueprints[p] # 0
          /\ UNCHANGED blueprints
    BY <1>2 DEF Clone
  <2> QED BY <2>1, CreateKeeps
<1>3. ASSUME NEW z \in Zones, NEW label, new_instance(z, label) PROVE TrackersInv'
  <2>1. ZoneInv' /\ DOMAIN zones \subseteq DOMAIN zones'
    BY <1>3, NewInstanceKeeps DEF TrackersInv
  <2>2. UNCHANGED <<objects, blueprints, callouts, programs, program_names, object_map,
                    raw>>
    BY <1>3 DEF new_instance, programVars
  <2> QED BY <2>1, <2>2, ZoneStepKeeps
<1>4. ASSUME NEW z \in Zones, query_starting_instance(z) PROVE TrackersInv'
  <2>1. ZoneInv' /\ DOMAIN zones \subseteq DOMAIN zones'
    BY <1>4, StartingInstanceKeeps DEF TrackersInv
  <2>2. UNCHANGED <<objects, blueprints, callouts, programs, program_names, object_map,
                    raw>>
    BY <1>4 DEF query_starting_instance, programVars
  <2> QED BY <2>1, <2>2, ZoneStepKeeps
<1>5. CASE UNCHANGED trackersVars
  <2>1. UNCHANGED <<zones, instances>> /\
          UNCHANGED <<objects, blueprints, callouts, programs, program_names, object_map,
                      raw>>
    BY <1>5 DEF trackersVars
  <2>2. ZoneInv'
    BY <2>1 DEF TrackersInv, ZoneInv, Numbered
  <2> QED BY <2>1, <2>2, ZoneStepKeeps
<1> QED BY <1>1, <1>2, <1>3, <1>4, <1>5, DestructKeeps, TrackedKeeps, ReloadKeeps
        DEF TrackersNext

LEMMA AlwaysTrackersInv == TrackersSpec => []TrackersInv
<1>1. TrackersInit => TrackersInv
  BY TrackersInitInv
<1>2. TrackersInv /\ [TrackersNext]_trackersVars => TrackersInv'
  BY TrackersStepInv
<1> QED BY <1>1, <1>2, PTL DEF TrackersSpec

\* Zones form a tree, linked in both directions, whichever of them are broken
\* and whatever fails on the way (new_zone(), new_instance()).
THEOREM ZonesAlwaysFormATree == TrackersSpec => []ZonesFormATree
<1>1. TrackersInv => ZonesFormATree
  BY DEF TrackersInv, ZoneInv, Tree, ZonesFormATree
<1> QED BY <1>1, AlwaysTrackersInv, PTL

\* An object has the program of the blueprint that it was made from, whatever
\* is loaded, destructed, reloaded or fails (create_hook(), program_cloned()).
THEOREM ObjectsAlwaysHaveTheirProgram == TrackersSpec => []ObjectsHaveTheirProgram
<1>1. TrackersInv => ObjectsHaveTheirProgram
  BY DEF TrackersInv
<1> QED BY <1>1, AlwaysTrackersInv, PTL
=============================================================================
