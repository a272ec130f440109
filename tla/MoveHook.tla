------------------------------- MODULE MoveHook -------------------------------
(***************************************************************************)
(* The move object hook (.obj/hook_service.c): what the driver runs when   *)
(* an object is moved.  The origin, the item and the destination may       *)
(* prevent the move, and are told of it; then init() is called in          *)
(* everything that can be met, with the one who meets it as this_player(). *)
(*                                                                         *)
(* All of these are calls into code of other objects, which may destruct   *)
(* things and move them, the item included, which runs the hook again      *)
(* within the first.  `moves` are the moves that are going on, the last    *)
(* one innermost, each at the call that it waits for.  A call on an object *)
(* that is gone is an error; it ends the move, and the code that moved the *)
(* object is assumed to catch it.                                          *)
(***************************************************************************)
EXTENDS Integers, Sequences, SequencesExt

CONSTANTS Rooms,     \* objects that are never destructed or moved
          Things,    \* objects that are
          Livings,   \* those that can give commands
          Start,     \* where everything is at first
          Nobody,    \* no object
          MaxMoves,  \* bound on the moves within moves
          MaxSteps   \* bound on the moves and destructs ever

VARIABLES env,     \* driver: the environment of each thing
          present,   \* driver: the things that are not destructed
          player,  \* driver: this_player()
          moves,   \* the moves that are going on
          ended,   \* for the properties: how the last move ended
          steps    \* moves and destructs so far

ASSUME ObjectsAreDistinct ==
  Rooms \cap Things = {} /\ Nobody \notin Rooms \cup Things

ASSUME AllAreSomewhere == Start \in [Things -> Rooms \cup Things]

hookVars == <<env, present, player, moves, ended, steps>>
-----------------------------------------------------------------------------
IsThere(o) == o \in Rooms \cup present

Inventory(o) == {t \in present : env[t] = o}

\* What a destructed object is to a variable that holds it.
Now(o) == IF IsThere(o) THEN o ELSE Nobody

\* A move.  `found` and the rest are for the properties: who was this_player()
\* when it began, the calls of init(), with whom, and whether objects were
\* moved or destructed meanwhile, and whether a move within it left its player
\* behind, at all or before it noted the one it found.
NewMove(item, dest) ==
  [item |-> item, dest |-> dest, origin |-> env[item], at |-> "begun",
   others |-> {}, oldp |-> Nobody,
   found |-> player, met |-> {}, disturbed |-> FALSE, strayed |-> FALSE,
   misled |-> FALSE]

Move == Last(moves)

Outer == Front(moves)

\* The move goes on to the call it is at next.
Goes(m) == moves' = Append(Outer, m)

Proceeds(m, place) == Goes([m EXCEPT !.at = place])

NoEnd == [how |-> "none"]

Noted(m) == m.at \in {"dest_init", "item_init", "other_init", "dest_met"}

\* The move ends; `astray` if it does not give back the player.
Ends(m, how, astray) ==
  LET wrong == astray \/ m.misled
  IN  /\ moves' = IF Outer = <<>> \/ ~wrong THEN Outer
                    ELSE Append(Front(Outer), [Last(Outer) EXCEPT
                           !.strayed = TRUE, !.misled = @ \/ ~Noted(Last(Outer))])
      /\ ended' = [how |-> how, move |-> m, astray |-> wrong]

Gone(m) == ~IsThere(m.item) \/ ~IsThere(m.dest)

Stays == UNCHANGED <<env, present, steps>>
-----------------------------------------------------------------------------
(* The hook.  Each step begins when the call before it has returned, with  *)
(* `yes` for what it returned.                                             *)

prevent_leave ==
  /\ Move.at = "begun"
  /\ IF IsThere(Move.origin) THEN Proceeds(Move, "prevent_leave") ELSE Proceeds(Move, "left")
  /\ Stays /\ UNCHANGED player /\ ended' = NoEnd

prevent_move(yes) ==
  /\ \/ Move.at = "prevent_leave"
     \/ Move.at = "left" /\ ~yes
  /\ IF yes \/ Gone(Move) THEN Ends(Move, "prevented", FALSE)
       ELSE Proceeds(Move, "prevent_move") /\ ended' = NoEnd
  /\ Stays /\ UNCHANGED player

prevent_enter(yes) ==
  /\ Move.at = "prevent_move"
  /\ IF yes \/ Gone(Move) THEN Ends(Move, "prevented", FALSE)
       ELSE Proceeds(Move, "prevent_enter") /\ ended' = NoEnd
  /\ Stays /\ UNCHANGED player

Disturbs(rest) == [i \in DOMAIN rest |-> [rest[i] EXCEPT !.disturbed = TRUE]]

\* set_environment(), and leave_signal() if the origin is still there.
set_environment(yes) ==
  /\ Move.at = "prevent_enter"
  /\ IF yes \/ Gone(Move)
       THEN Ends(Move, "prevented", FALSE) /\ UNCHANGED env
       ELSE /\ env' = [env EXCEPT ![Move.item] = Move.dest]
            /\ moves' = Append(Disturbs(Outer), [Move EXCEPT !.at =
                 IF IsThere(Move.origin) THEN "leave_signal" ELSE "moved"])
            /\ ended' = NoEnd
  /\ UNCHANGED <<present, steps, player>>

\* A leave_signal() that returns something ends the move, after the fact.
move_signal(yes) ==
  /\ \/ Move.at = "leave_signal"
     \/ Move.at = "moved" /\ ~yes
  /\ IF yes \/ Gone(Move) THEN Ends(Move, "left", FALSE)
       ELSE Proceeds(Move, "move_signal") /\ ended' = NoEnd
  /\ Stays /\ UNCHANGED player

enter_signal ==
  /\ Move.at = "move_signal"
  /\ IF Gone(Move) THEN Ends(Move, "gone", FALSE)
       ELSE Proceeds(Move, "enter_signal") /\ ended' = NoEnd
  /\ Stays /\ UNCHANGED player

\* The player is noted, and a living item enters the destination.
dest_init ==
  /\ Move.at = "enter_signal"
  /\ IF Gone(Move) \/ env[Move.item] # Move.dest
       THEN Ends(Move, "gone", FALSE) /\ UNCHANGED player
       ELSE /\ ended' = NoEnd
            /\ IF Move.item \in Livings
                 THEN /\ player' = Move.item
                      /\ Goes([Move EXCEPT !.at = "dest_init", !.oldp = player,
                                 !.met = {<<Move.item, Move.dest>>}])
                 ELSE /\ UNCHANGED player
                      /\ Goes([Move EXCEPT !.at = "entered", !.oldp = player])
  /\ Stays

\* The others are those in the destination now.  An item that was moved on by
\* the destination's init() ends the move, with itself as the player.
others_listed ==
  /\ Move.at \in {"dest_init", "entered"}
  /\ IF Gone(Move) \/ env[Move.item] # Move.dest
       THEN Ends(Move, "gone", TRUE)
       ELSE /\ ended' = NoEnd
            /\ Goes([Move EXCEPT !.at = "item_init",
                       !.others = Inventory(Move.dest) \ {Move.item}])
  /\ Stays /\ UNCHANGED player

\* Those who are to meet the item, and whom the item is to meet.
ToMeetItem(m) ==
  {o \in m.others \cap present \cap Livings : <<o, m.item>> \notin m.met}

ToBeMet(m) == {o \in m.others \cap present : <<m.item, o>> \notin m.met}

\* Fault: the item's own code runs with the item as the player.
item_init_by_item(o) ==
  /\ Move.at = "item_init"
  /\ o \in ToMeetItem(Move) /\ IsThere(Move.item)
  /\ player' = Move.item
  /\ Goes([Move EXCEPT !.met = @ \cup {<<Move.item, o>>, <<o, Move.item>>}])
  /\ Stays /\ ended' = NoEnd

item_init(o) ==
  /\ Move.at = "item_init"
  /\ o \in ToMeetItem(Move) /\ IsThere(Move.item)
  /\ player' = o
  /\ Goes([Move EXCEPT !.met = @ \cup {<<player', Move.item>>}])
  /\ Stays /\ ended' = NoEnd

\* All have met the item, or it is gone; now it meets them, if it lives.
items_turn ==
  /\ Move.at = "item_init"
  /\ ToMeetItem(Move) = {} \/ ~IsThere(Move.item)
  /\ IF Move.item \in Livings /\ IsThere(Move.item)
       THEN player' = Move.item /\ Proceeds(Move, "other_init")
       ELSE UNCHANGED player /\ Proceeds(Move, "met")
  /\ Stays /\ ended' = NoEnd

\* It may be destructed or moved on while it does, which does not end it; the
\* player is not set again.
other_init(o) ==
  /\ Move.at = "other_init"
  /\ o \in ToBeMet(Move)
  /\ Goes([Move EXCEPT !.met = @ \cup {<<Move.item, o>>}])
  /\ Stays /\ UNCHANGED player /\ ended' = NoEnd

all_met ==
  /\ Move.at = "other_init"
  /\ ToBeMet(Move) = {}
  /\ Proceeds(Move, "met")
  /\ Stays /\ UNCHANGED player /\ ended' = NoEnd

\* A destination that lives, when something is given to it, meets it as well.
dest_meets ==
  /\ Move.at = "met"
  /\ IF ~Gone(Move) /\ Move.dest \in Livings
       THEN /\ player' = Move.dest
            /\ Goes([Move EXCEPT !.at = "dest_met",
                       !.met = @ \cup {<<Move.dest, Move.item>>}])
       ELSE UNCHANGED player /\ Proceeds(Move, "done")
  /\ Stays /\ ended' = NoEnd

\* Fault: the player is left as it is.
restore_none ==
  /\ Move.at \in {"dest_met", "done"}
  /\ Ends(Move, "complete", FALSE)
  /\ Stays /\ UNCHANGED player

restore ==
  /\ Move.at \in {"dest_met", "done"}
  /\ player' = Now(Move.oldp)
  /\ Ends(Move, "complete", FALSE)
  /\ Stays

\* The steps that no other code runs between are not places to wait at.
Waiting ==
  moves # <<>> => Move.at \notin {"begun", "left", "moved", "entered", "met", "done"}
-----------------------------------------------------------------------------
(* The code that is called, and the code that moves things at first.  What *)
(* does not live may be given to the living.                               *)

MoveObject(item, dest) ==
  /\ Waiting /\ Len(moves) < MaxMoves /\ steps < MaxSteps
  /\ item \in present
  /\ dest \in Rooms \/ (dest \in Livings /\ item \notin Livings)
  /\ moves' = Append(moves, NewMove(item, dest))
  /\ steps' = steps + 1
  /\ ended' = NoEnd
  /\ UNCHANGED <<env, present, player>>

Destructing(t) ==
  /\ Waiting /\ steps < MaxSteps
  /\ t \in present /\ Inventory(t) = {}
  /\ present' = present \ {t}
  /\ player' = IF player = t THEN Nobody ELSE player
  /\ moves' = Disturbs(moves)
  /\ steps' = steps + 1
  /\ ended' = NoEnd
  /\ UNCHANGED env

HookInit ==
  /\ env = Start
  /\ present = Things
  /\ player \in (Livings \cap Things) \cup {Nobody}
  /\ moves = <<>>
  /\ ended = NoEnd
  /\ steps = 0

MoveGoesOn ==
  /\ moves # <<>>
  /\ \/ prevent_leave \/ enter_signal \/ dest_init \/ others_listed
     \/ items_turn \/ all_met \/ dest_meets \/ restore
     \/ \E yes \in BOOLEAN :
          \/ prevent_move(yes) \/ prevent_enter(yes) \/ set_environment(yes)
          \/ move_signal(yes)
     \/ \E o \in Things : item_init(o) \/ other_init(o)

HookNext ==
  \/ MoveGoesOn
  \/ \E item \in Things, dest \in Rooms \cup present : MoveObject(item, dest)
  \/ \E t \in Things : Destructing(t)

HookSpec == HookInit /\ [][HookNext]_hookVars
-----------------------------------------------------------------------------
\* A move that ends leaves the player it found, or none if that one is gone,
\* whatever was moved and destructed by the code it called.  The exception is
\* an item that the destination's init() moves on (hook_service.c:121): then
\* the item stays the player, or none if it is gone, unless another move ended
\* so within this one; and a move around it that has not noted its own player
\* by then is misled, and takes the item for it.
PlayerIsRestored ==
  ended.how # "none" =>
    LET m == ended.move
    IN  /\ ~ended.astray => player = Now(m.found)
        /\ m.at = "dest_init" /\ ~m.strayed => player = Now(m.item)

\* A move in the course of which nothing else was moved or destructed, and
\* that was not ended before its time by the return value of leave_signal(),
\* makes every living object in the destination meet the item, and the item,
\* if it lives, meet the destination and everything in it, and nobody else.
AllMeet ==
  ended.how = "complete" /\ ~ended.move.disturbed =>
    LET m == ended.move
        others == Inventory(m.dest) \ {m.item}
    IN  m.met = {<<o, m.item>> : o \in others \cap Livings}
                \cup {<<m.dest, m.item>> : d \in {m.dest} \cap Livings}
                \cup (IF m.item \in Livings
                        THEN {<<m.item, o>> : o \in others \cup {m.dest}} ELSE {})
=============================================================================
