----------------------------- MODULE CommandGiver -----------------------------
(***************************************************************************)
(* CommandGiverMixin (.module/command_giver.c): a line is routed to the    *)
(* controllers of the commands whose verb it begins with.                  *)
(*                                                                         *)
(* The specs an object imports are one sequence of commands here, in the   *)
(* order in which do_command() goes through them.  What a controller does  *)
(* with a line is its own: it comes in as an answer, "broken" if it cannot *)
(* be loaded, "second" if it fails at first and has success when it is     *)
(* called again.                                                           *)
(***************************************************************************)
EXTENDS TextLib, TLC, LibraryInput

Answers == {"broken", "fails", "succeeds", "second"}

\* What is matched is a rest of the line; this is none.
NoMatch == <<"unmatched">>

\* Fault: a verb matches every line that begins with its characters.
match_prefix(arg, verb) ==
  IF IsPrefix(verb, arg) THEN Rest(arg, find_nonws(arg, Len(verb))) ELSE NoMatch

match(arg, verb) ==
  IF IsPrefix(verb, arg) /\ At(arg, Len(verb)) \in {Blank, "end"}
    THEN Rest(arg, find_nonws(arg, Len(verb))) ELSE NoMatch

load_controller(command, answers) == answers[command.controller] # "broken"

\* Controllers are called until one has success; the calls are kept.
Called(state, n, command, verb, answers) ==
  LET before == {i \in DOMAIN state.ran : state.ran[i].controller = command.controller}
      answer == answers[command.controller]
      call == [command |-> n, controller |-> command.controller, verb |-> verb,
               arg |-> state.matched[verb]]
  IN  IF ~load_controller(command, answers) THEN state
        ELSE [state EXCEPT !.ran = Append(@, call),
                           !.result = answer = "succeeds" \/ (answer = "second" /\ before # {})]

Matched(matched, verb, rest) ==
  [v \in DOMAIN matched \cup {verb} |-> IF v = verb THEN rest ELSE matched[v]]

\* The loop over verbs: one that was matched before is run at once, and if that
\* has no success, it is matched and run again.
WithVerb(state, n, command, verb, arg, answers) ==
  LET seen == verb \in DOMAIN state.matched
      again == IF seen THEN Called(state, n, command, verb, answers) ELSE state
      now == [again EXCEPT !.matched = Matched(@, verb, match(arg, verb))]
  IN  IF seen /\ state.matched[verb] = NoMatch THEN state
        ELSE IF again.result \/ Len(verb) > Len(arg) THEN again
        ELSE IF now.matched[verb] = NoMatch THEN now
        ELSE Called(now, n, command, verb, answers)

WithCommand(state, n, command, arg, answers) ==
  LET after[k \in 0..Len(command.verbs)] ==
        LET s == after[k - 1]
        IN  IF k = 0 THEN state
              ELSE IF s.result THEN s
              ELSE WithVerb(s, n, command, command.verbs[k], arg, answers)
  IN  after[Len(command.verbs)]

do_command(commands, arg, answers) ==
  LET after[n \in 0..Len(commands)] ==
        LET s == after[n - 1]
        IN  IF n = 0 THEN [matched |-> <<>>, ran |-> <<>>, result |-> FALSE]
              ELSE IF s.result THEN s
              ELSE WithCommand(s, n, commands[n], arg, answers)
  IN  after[Len(commands)]
-----------------------------------------------------------------------------
(* Commands, and lines for them.                                           *)

W == <<"w">>

Verbs == {<<W>>, <<W, <<"w", "x">>>>, <<<<"w", " ", "a">>>>}

Commands == [verbs : Verbs, controller : {"c", "d"}]

Lines == {W, <<"w", "x">>, <<"w", "x", "y">>, <<"w", " ", " ", "a">>, <<"w", " ", "a", " ", "b">>,
          <<"w", " ">>, <<"x">>}

RoutingInputs ==
  [commands : UNION {[1..n -> Commands] : n \in 1..3}, arg : Lines, answers : [{"c", "d"} -> Answers]]

\* A command is due if the line is one of its verbs, alone or with a blank
\* behind it.
IsFor(arg, verb) ==
  arg = verb \/ (Len(arg) > Len(verb) /\ SubSeq(arg, 1, Len(verb) + 1) = Append(verb, Blank))

\* The line is the verb, blanks, and the rest, which is all that comes after them.
IsRest(arg, verb, rest) ==
  /\ \E n \in 0..Len(arg) : arg = verb \o [i \in 1..n |-> Blank] \o rest
  /\ rest = <<>> \/ rest[1] # Blank

\* Every controller called is due for the verb it is called with, and is given
\* the rest of the line; they are called in order; the first success is the
\* last call; and without success all that are due and can be loaded were
\* called.  For a verb met again a controller is called twice, never more.
IsRouted(input) ==
  LET done == do_command(input.commands, input.arg, input.answers)
      ran == done.ran
      command(i) == input.commands[ran[i].command]
      due(n) == \E i \in DOMAIN input.commands[n].verbs : IsFor(input.arg, input.commands[n].verbs[i])
      loads(n) == load_controller(input.commands[n], input.answers)
      succeeds(i) ==
        \/ input.answers[ran[i].controller] = "succeeds"
        \/ /\ input.answers[ran[i].controller] = "second"
           /\ \E j \in 1..(i - 1) : ran[j].controller = ran[i].controller
      same(i, j) == ran[i].command = ran[j].command /\ ran[i].verb = ran[j].verb
  IN  /\ \A i \in DOMAIN ran :
           /\ ran[i].command \in DOMAIN input.commands
           /\ \E k \in DOMAIN command(i).verbs : command(i).verbs[k] = ran[i].verb
           /\ ran[i].controller = command(i).controller
           /\ IsFor(input.arg, ran[i].verb)
           /\ IsRest(input.arg, ran[i].verb, ran[i].arg)
           /\ succeeds(i) <=> (i = Len(ran) /\ done.result)
      /\ \A i, j \in DOMAIN ran : i < j => ran[i].command <= ran[j].command
      /\ \A n \in DOMAIN input.commands :
           ~done.result /\ due(n) /\ loads(n) => \E i \in DOMAIN ran : ran[i].command = n
      /\ ~\E i, j, k \in DOMAIN ran : i < j /\ j < k /\ same(i, j) /\ same(j, k)

\* The line, the commands and the answers that are given.
LineIsRouted == focus = "routing" => IsRouted(given)
=============================================================================
