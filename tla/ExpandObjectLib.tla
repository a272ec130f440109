--------------------------- MODULE ExpandObjectLib ---------------------------
(***************************************************************************)
(* ObjectExpansionLib (.lib/expand_object.c): from what a player writes to *)
(* the objects that are meant.                                             *)
(*                                                                         *)
(* A specification is a chain of terms, "here.x.i", each looked for in     *)
(* what the one before it found; a term may be a group, "(here,me)".  A    *)
(* chain goes on from a context, itself a specification, and what it found *)
(* is kept in `ancestors` under the two together.  Strings are sequences   *)
(* of characters, as in TextLib; what is found are records of an object,   *)
(* the id it was found by and a detail of it.                              *)
(*                                                                         *)
(* The code splits specifications with explode_nested() at "(" and ")";    *)
(* here it is the one with the default brackets and quotes, which is the   *)
(* same for specifications without the other brackets and without quotes,  *)
(* as all of them are here.                                                *)
(*                                                                         *)
(* The world is external, and here one of a few objects: where they are    *)
(* and what they answer to.                                                *)
(***************************************************************************)
EXTENDS TextLib

CONTEXT_DELIM == "."

SPEC_DELIM == ","

Word(w) ==
  CASE w = "me" -> <<"m", "e">>
    [] w = "here" -> <<"h", "e", "r", "e">>
    [] w = "users" -> <<"u", "s", "e", "r", "s">>
    [] w = "living" -> <<"l", "i", "v", "i", "n", "g">>
    [] OTHER -> <<w>>

COLLAPSIBLE == {Word("me"), Word("here"), Word("living"), Word("users")}
-----------------------------------------------------------------------------
(* The world (external).  You are in a room with a box, a clone of b, that *)
(* has a ball in it and a lid with a hole; you carry a ball as well.  The  *)
(* pot is a clone of what b was before it was loaded again.                *)

Contents ==
  [room |-> <<"you", "box">>, box |-> <<"ball">>, you |-> <<"toy">>,
   ball |-> <<>>, toy |-> <<>>, mould |-> <<>>, pot |-> <<>>]

Nowhere == "nowhere"

environment(ob) ==
  LET around == {o \in DOMAIN Contents : ob \in Range(Contents[o])}
  IN  IF around = {} THEN Nowhere ELSE CHOOSE o \in around : TRUE

Ids == [o \in DOMAIN Contents |-> CASE o = "box" -> {<<"x">>}
                                    [] o \in {"ball", "toy"} -> {<<"y">>}
                                    [] OTHER -> {}]

Details == [o \in DOMAIN Contents |->
              IF o = "box" THEN {<<"d">>, <<"d", ".", "k">>} ELSE {}]

Names == <<"b">> :> "mould" @@ <<"b", "#", "1">> :> "box" @@ <<"b", "#", "2">> :> "pot"

Files == <<<<"b", ".", "c">>, <<"b", ".", "h">>>>

present(id, ob) == SelectSeq(Contents[ob], LAMBDA o : id \in Ids[o])

clones(ob, stale) ==
  IF ob \notin {"mould", "box", "pot"} THEN <<>>
    ELSE IF stale THEN <<"box", "pot">> ELSE <<"box">>

expand_pattern(pattern) == SelectSeq(Files, LAMBDA f : pattern \in {<<"*">>, f})

\* A file is the blueprint that is named without its suffix.
Suffixed(file) == Len(file) > 2 /\ SubSeq(file, Len(file) - 1, Len(file)) = <<".", "c">>

find_object(name) ==
  LET n == IF Suffixed(name) THEN Front(Front(name)) ELSE name
  IN  IF n \in DOMAIN Names THEN <<Names[n]>> ELSE <<>>
-----------------------------------------------------------------------------
(* Terms.                                                                  *)

Target(ob, id) == [ob |-> ob, id |-> id, detail |-> <<>>]

Targets(obs, id) == [i \in DOMAIN obs |-> Target(obs[i], id)]

LastDot(context) ==
  Max({-1} \cup {i \in 0..(Len(context) - 1) : At(context, i) = CONTEXT_DELIM})

\* Fault: what is found in one context is kept for all of them.
resolve_spec_alone(arg, context) == IF arg = <<>> THEN context ELSE arg

\* How a context and what is looked for in it are written together.
resolve_spec(arg, context) ==
  IF arg \in COLLAPSIBLE /\ Rest(context, LastDot(context) + 1) = arg THEN context
    ELSE IF context = <<>> \/ arg = <<>> THEN context \o arg
    ELSE context \o <<CONTEXT_DELIM>> \o arg

\* An id of the object itself, of one within it or of a detail.
expand_id(in, id) ==
  LET inside == present(id, in.ob)
  IN  CASE in.detail # <<>> ->
             IF in.detail \o <<".">> \o id \in Details[in.ob]
               THEN <<[in EXCEPT !.detail = resolve_spec(id, @)]>> ELSE <<>>
        [] in.detail = <<>> /\ in.id # id /\ id \in Ids[in.ob] -> <<Target(in.ob, id)>>
        [] in.detail = <<>> /\ ~(in.id # id /\ id \in Ids[in.ob]) ->
             IF inside # <<>> THEN <<Target(Head(inside), id)>>
               ELSE IF id \in Details[in.ob] THEN <<[in EXCEPT !.detail = id]>> ELSE <<>>

\* Objects by their names: of one, of a program or of one clone of it.
Named(term, flags) ==
  LET pos == Search(term, 0, LAMBDA i : At(term, i) = "#")
      clone == IF pos = -1 THEN <<>> ELSE Rest(term, pos)
      all == clone = <<"#", "*">>
      name == IF pos = -1 THEN term ELSE Slice(term, 0, pos - 1)
      found == IF expand_pattern(name) # <<>> THEN expand_pattern(name)
                 ELSE expand_pattern(name \o <<".", "c">>)
      of(file) ==
        LET ob == find_object(IF clone = <<>> \/ all THEN file ELSE Front(Front(file)) \o clone)
        IN  IF ob = <<>> THEN <<>>
              ELSE (IF "MATCH_BLUEPRINTS" \in flags /\ ~all THEN ob ELSE <<>>)
                     \o (IF "IGNORE_CLONES" \notin flags \/ all
                           THEN clones(ob[1], "STALE_CLONES" \in flags) ELSE <<>>)
      files == SelectSeq(found, Suffixed)
  IN  IF find_object(term) # <<>> THEN [term |-> term, obs |-> find_object(term)]
        ELSE [term |-> name, obs |-> FlattenSeq([i \in DOMAIN files |-> of(files[i])])]

\* The keywords, at the top of a chain and further down.
Keyword(term, prev, top) ==
  LET those(P(_)) == SelectSeq(prev, LAMBDA t : P(t.ob))
      around == environment("you")
      env(t) == IF environment(t.ob) = Nowhere THEN <<>> ELSE <<Target(environment(t.ob), term)>>
  IN  CASE term = Word("users") -> IF top THEN <<Target("you", term)>>
                                     ELSE those(LAMBDA o : o = "you")
        [] term = Word("living") -> those(LAMBDA o : o = "you")
        [] term = Word("me") -> IF top THEN <<Target("you", <<"m", "e", " ">>)>>
                                  ELSE those(LAMBDA o : o = "you")
        [] term = Word("here") -> IF top THEN <<Target(around, term)>>
                                    ELSE those(LAMBDA o : o = around)
        [] term = <<"i">> -> IF top THEN Targets(Contents["you"], term)
                               ELSE FlattenSeq([k \in DOMAIN prev |->
                                                  Targets(Contents[prev[k].ob], term)])
        [] term = <<"e">> -> IF top THEN <<Target(around, term)>>
                               ELSE FlattenSeq([k \in DOMAIN prev |-> env(prev[k])])

\* What is named, all of it or as far as it is in the context.
ByName(named, prev, context) ==
  IF context = <<>> THEN Targets(named.obs, named.term)
    ELSE SelectSeq(prev, LAMBDA t : t.ob \in Range(named.obs))

ByTerm(term, prev, context, flags) ==
  LET by_id == FlattenSeq([k \in DOMAIN prev |-> expand_id(prev[k], term)])
  IN  CASE term \in COLLAPSIBLE \cup {<<"i">>, <<"e">>} -> Keyword(term, prev, context = <<>>)
        [] term \notin COLLAPSIBLE \cup {<<"i">>, <<"e">>} ->
             IF by_id # <<>> THEN by_id ELSE ByName(Named(term, flags), prev, context)

expand_term(escaped, prev, context, flags) == ByTerm(unescape(escaped), prev, context, flags)
-----------------------------------------------------------------------------
(* Specifications.                                                         *)

RECURSIVE unnest(_)
unnest(ospec) ==
  IF At(ospec, 0) = "(" /\ Last(ospec) = ")" /\ find_close_char(ospec, 0) = Len(ospec) - 1
    THEN unnest(Slice(ospec, 1, Len(ospec) - 2)) ELSE ospec

group_specs(ospecs) ==
  IF Len(ospecs) > 1 THEN <<"(">> \o Joined(ospecs, SPEC_DELIM) \o <<")">>
    ELSE Joined(ospecs, SPEC_DELIM)

unique_array(list) ==
  FoldLeft(LAMBDA out, e : IF e \in Range(out) THEN out ELSE Append(out, e), <<>>, list)

\* The members of a group by the contexts in which they were found, in which
\* a member comes without its first character.
Grouped(groups, ctx, len) ==
  LET key == SubSeq(ctx, 1, Len(ctx) - len - 1)
      part == SubSeq(ctx, Max({1, Len(ctx) - len + 2}), Len(ctx))
      same(g) == g.key = key
  IN  IF \E i \in DOMAIN groups : same(groups[i])
        THEN [i \in DOMAIN groups |-> IF same(groups[i])
                THEN [groups[i] EXCEPT !.parts = Append(@, part)] ELSE groups[i]]
        ELSE Append(groups, [key |-> key, parts |-> <<part>>])

\* An outcome is the context under which it is kept, with `ancestors`.
Outcome(context, found, ancestors) ==
  [context |-> context, anc |-> (context :> found) @@ ancestors]

FoundBy(e) == e.anc[e.context]

Ancestor(e) == [found |-> FoundBy(e), anc |-> e.anc]

WithMember(s, arg, e) ==
  [anc |-> e.anc, next |-> s.next \o FoundBy(e), groups |-> Grouped(s.groups, e.context, Len(arg))]

Together(s) ==
  Outcome(Joined([i \in DOMAIN s.groups |-> group_specs(s.groups[i].parts)], SPEC_DELIM),
          s.next, s.anc)

RECURSIVE expand_spec(_, _, _, _), expand_single(_, _, _, _)

expand_spec(ospec, context, flags, ancestors) ==
  FoldLeft(LAMBDA s, arg : expand_single(arg, s.context, flags, s.anc),
           [context |-> context, anc |-> ancestors],
           explode_nested(ospec, CONTEXT_DELIM))

\* What the context itself has found, which may have to be looked for first.
ContextFound(context, flags, ancestors) ==
  LET pos == LastDot(context)
      above == IF pos > 0 THEN Slice(context, 0, pos - 1) ELSE <<>>
      arg == IF pos > 0 THEN Rest(context, pos + 1) ELSE context
  IN  IF context \in DOMAIN ancestors THEN [found |-> ancestors[context], anc |-> ancestors]
        ELSE IF arg = <<>> THEN [found |-> <<>>, anc |-> ancestors]
        ELSE Ancestor(expand_spec(arg, above, flags, ancestors))

\* A group is looked for member by member.
expand_members(args, context, flags, ancestors) ==
  Together(
    FoldLeft(LAMBDA s, arg :
               IF arg = <<>> THEN s
                 ELSE WithMember(s, arg, expand_single(arg, context, flags, s.anc)),
             [anc |-> ancestors, next |-> <<>>, groups |-> <<>>], args))

expand_in(arg, resolved, prev, context, flags) ==
  IF arg = <<>> THEN Outcome(resolved, prev.found, prev.anc)
    ELSE IF unnest(arg) # arg
      THEN expand_members(explode_nested(unnest(arg), SPEC_DELIM), context, flags, prev.anc)
    ELSE Outcome(resolved, expand_term(arg, prev.found, context, flags), prev.anc)

expand_single(arg, context, flags, ancestors) ==
  IF resolve_spec(arg, context) \in DOMAIN ancestors
    THEN [context |-> resolve_spec(arg, context), anc |-> ancestors]
    ELSE expand_in(arg, resolve_spec(arg, context),
                   ContextFound(context, flags, ancestors), context, flags)

\* One specification in one context.
WithOutcome(s, e) ==
  [anc |-> e.anc, found |-> FoundBy(e),
   new |-> IF FoundBy(e) = <<>> THEN s.new ELSE Append(s.new, e.context)]

Tried(ospec, context, flags, s) == WithOutcome(s, expand_spec(ospec, context, flags, s.anc))

\* The context, those above it, and last the root context.
RECURSIVE outer(_, _)
outer(context, root) ==
  LET pos == LastDot(context)
      up == Slice(context, 0, pos - 1)
  IN  IF pos > 0 /\ up # root THEN <<context>> \o outer(up, root) ELSE <<context, root>>

outwards(ospec, context, root, flags, s) ==
  FoldLeft(LAMBDA t, c : IF t.found # <<>> THEN t ELSE Tried(ospec, c, flags, t),
           [s EXCEPT !.found = <<>>], outer(context, root))

RECURSIVE expand_group(_, _, _, _, _)
\* One after the other; one that is found is enough if no more are wanted.
expand_all(ospecs, context, root, flags, s) ==
  FoldLeft(LAMBDA t, ospec :
             IF t.found # <<>> /\ "LIMIT_ONE" \in flags THEN t
               ELSE [expand_group(ospec, context, root, flags, t) EXCEPT !.found = t.found \o @],
           [s EXCEPT !.found = <<>>], ospecs)

expand_group(ospec, context, root, flags, s) ==
  LET subspecs == explode_nested(ospec, SPEC_DELIM)
  IN  IF Len(subspecs) = 1 THEN outwards(ospec, context, root, flags, s)
        ELSE expand_all(subspecs, context, root, flags, s)

\* Who asks gets a new context, if that is wanted and something was found.
Answer(s, context, flags) ==
  [found |-> IF "LIMIT_ONE" \in flags /\ s.found # <<>> THEN <<Head(s.found)>> ELSE s.found,
   context |-> IF "UPDATE_CONTEXT" \in flags /\ s.new # <<>>
                 THEN group_specs(unique_array(s.new)) ELSE context]

expand_objects(ospecs, context, root, flags) ==
  Answer(expand_all(ospecs, context, root, flags,
                    [anc |-> [c \in {} |-> <<>>], found |-> <<>>, new |-> <<>>]),
         context, flags)

RECURSIVE find_room(_)
find_room(ob) ==
  IF ob \in {Nowhere, "room", "box"} THEN ob ELSE find_room(environment(ob))

\* The first of what is found that is in a room, or is one.
FirstRoom(found) ==
  LET rooms == SelectSeq([i \in DOMAIN found |-> find_room(found[i].ob)], LAMBDA r : r # Nowhere)
  IN  IF rooms = <<>> THEN Nowhere ELSE Head(rooms)

expand_destination(arg, context, root, flags) ==
  FirstRoom(expand_objects(<<arg>>, context, root, flags).found)
-----------------------------------------------------------------------------
(* Chains of groups of terms, as written and as meant.                     *)

Chain(parts) == Joined([i \in DOMAIN parts |-> group_specs(parts[i])], CONTEXT_DELIM)

\* What a chain finds, term by term.
Meant(parts, flags) ==
  LET step(s, part) ==
        [top |-> <<"below">>,
         found |-> FlattenSeq([k \in DOMAIN part |-> expand_term(part[k], s.found, s.top, flags)])]
  IN  FoldLeft(step, [top |-> <<>>, found |-> <<>>], parts).found

\* In the first context where there is something to find, from the inside out.
Wanted(parts, context, root, flags) ==
  LET inside == {n \in 0..Len(context) : (n > 0 \/ context = <<>>)
                    /\ Meant(SubSeq(context, 1, n) \o parts, flags) # <<>>}
  IN  IF inside = {} THEN Meant(root \o parts, flags)
        ELSE Meant(SubSeq(context, 1, Max(inside)) \o parts, flags)

Term(t) == <<Word(t)>>

Here == <<Term("e")>>

InTheBox == <<Term("e"), Term("x")>>

YouOrHere == <<<<Word("here"), Word("me")>>>>

\* Chains with a group at their end, if at all: as the context of what comes
\* after it a group would go under another name than its own.
Chains(terms, groups) ==
  {<<p>> : p \in terms \cup groups} \cup {<<p, q>> : p \in terms, q \in terms \cup groups}

Groups == {<<<<"x">>, <<"i">>>>, <<<<"y">>, Word("me")>>}

Lone ==
  {Term(t) : t \in {"users", "living", "me", "here", "e", "i", "x", "y", "d", "k", "b", "*"}} \cup
  {<<<<name, "#", clone>>>> : name \in {"b", "*"}, clone \in {"1", "2", "*"}}

Inputs ==
  [specs : Lists(2, Chains({Term(t) : t \in {"me", "e", "i", "x", "y", "d"}}, Groups)),
   context : {<<>>, InTheBox}, root : {YouOrHere}, flags : {{"UPDATE_CONTEXT"}}] \cup
  [specs : Lists(1, Chains(Lone, Groups)), context : {Here, InTheBox},
   root : {<<>>, YouOrHere},
   flags : {{"LIMIT_ONE", "UPDATE_CONTEXT"}, {"MATCH_BLUEPRINTS", "IGNORE_CLONES"},
            {"MATCH_BLUEPRINTS", "STALE_CLONES"}}]

\* Where one gets to by each object.
RoomOf ==
  [room |-> "room", you |-> "room", toy |-> "room", box |-> "box", ball |-> "box",
   mould |-> Nowhere, pot |-> Nowhere]

\* Against all that is meant by the chains.
Agrees(input, all, result) ==
  LET alone == Len(input.specs) = 1 /\ \A i \in DOMAIN input.specs[1] : Len(input.specs[1][i]) = 1
      rooms == SelectSeq([k \in DOMAIN all |-> RoomOf[all[k].ob]], LAMBDA room : room # Nowhere)
  IN  /\ result.found =
           IF "LIMIT_ONE" \in input.flags THEN SubSeq(all, 1, Min({1, Len(all)})) ELSE all
      /\ alone /\ all # <<>> /\ "UPDATE_CONTEXT" \in input.flags =>
           expand_objects(<<<<>>>>, result.context, <<>>, {}).found = all
      /\ Len(input.specs) = 1 /\ "LIMIT_ONE" \notin input.flags =>
           expand_destination(Chain(input.specs[1]), Chain(input.context), Chain(input.root),
                              input.flags)
             = IF rooms = <<>> THEN Nowhere ELSE Head(rooms)

\* What was found before never changes what is found: each of a list of chains
\* finds what it finds on its own, term by term, in the innermost context where
\* it finds anything, or else in the root context.  In the context that one
\* chain leaves behind there is what it has found.  Who goes there comes to the
\* first room or container in or around it.
ObjectsAreFound(input) ==
  Agrees(input,
         FlattenSeq([i \in DOMAIN input.specs |->
                       Wanted(input.specs[i], input.context, input.root, input.flags)]),
         expand_objects([i \in DOMAIN input.specs |-> Chain(input.specs[i])],
                        Chain(input.context), Chain(input.root), input.flags))
=============================================================================
