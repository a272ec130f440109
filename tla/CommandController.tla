-------------------------- MODULE CommandController --------------------------
(***************************************************************************)
(* CommandController (.module/command_controller.c), with the prompts of   *)
(* PromptLib (.lib/prompt.c): how a command collects its fields.  A field  *)
(* comes from the argument list or is an extra one; it is parsed and       *)
(* validated, and the client is prompted for what is missing or wrong, a   *)
(* number of times per field.  When all fields are there the form is       *)
(* validated, and if it fails, filled in again from the first field, a     *)
(* number of times per command.  Only then is the command executed.        *)
(*                                                                         *)
(* Every prompt ends the processing: an input_to() keeps the state of the  *)
(* command, and its callback starts the processing over.  The driver's     *)
(* input_to()s form a stack, and since the prompts do not ignore "!",      *)
(* another command can be given at one, whose prompts then come first.     *)
(*                                                                         *)
(* A value is what is left of a text after trimming: a member of Inputs,   *)
(* or Empty, which is also what a missing default amounts to.  Opts are    *)
(* not modelled (process_opts() finds each in the map it loops over, so    *)
(* that a missing one is never prompted for), nor what is printed.         *)
(***************************************************************************)
EXTENDS Integers, Sequences, SequencesExt

CONSTANTS Commands,  \* command definitions, as loaded from the specs
          Inputs,    \* texts a client may enter
          Empty,     \* the empty text
          Blanks,    \* a line of blanks
          MaxOpen    \* bound on the commands begun and not ended

ASSUME EmptyIsNoInput == Empty # Blanks /\ {Empty, Blanks} \cap Inputs = {}

ASSUME BoundIsANumber == MaxOpen \in Nat

VARIABLES open,   \* driver: the commands that wait for input, the last on top
          ended   \* the result of the last step, if it ended a command

vars == <<open, ended>>
-----------------------------------------------------------------------------
(* Command definitions.  The first `nargs` fields are the arguments of the *)
(* syntax, and `same` is the form's validator (passwords_match): fields    *)
(* that must be given the same value.                                      *)

Settings == {"always", "syntax", "validate", "never"}

IsField(f) ==
  /\ f.prompt \in Settings /\ f.maxRetry \in Nat /\ f.required \in BOOLEAN
  /\ f.default \in Inputs \cup {Empty}
  /\ f.parses \subseteq Inputs \cup {Empty}  \* the texts its type allows
  /\ f.valid \subseteq f.parses              \* and those its validators do

IsCommand(c) ==
  /\ Len(c.fields) \in Nat /\ DOMAIN c.fields = 1..Len(c.fields)
  /\ \A i \in DOMAIN c.fields : IsField(c.fields[i])
  /\ c.nargs \in 0..Len(c.fields) /\ c.minArgs \in Nat /\ c.maxArgs \in Nat
  /\ c.same \subseteq DOMAIN c.fields
  /\ c.maxRetry \in Nat

ASSUME CommandsAreCommands == \A c \in Commands : IsCommand(c)

Texts == Inputs \cup {Empty}

Trimmed(input) == IF input = Blanks THEN Empty ELSE input

\* A CommandState.  Two members are for the properties: `at`, the field of the
\* pending prompt, which the code has in the arguments of the callback, and
\* `prompts`, how often each field was prompted for since the form was begun.
NewState(command, args) ==
  [command |-> command, args |-> args, extra |-> [i \in {} |-> Empty],
   model |-> [i \in {} |-> Empty], field_retry |-> 0, form_retry |-> 0,
   force_prompt |-> FALSE, at |-> 0,
   prompts |-> [i \in DOMAIN command.fields |-> 0]]

With(f, i, v) == [j \in DOMAIN f \cup {i} |-> IF j = i THEN v ELSE f[j]]

isArg(state, i) == i <= state.command.nargs

\* get_struct_member(state, field_type)[index]
Slots(state, i) == IF isArg(state, i) THEN DOMAIN state.args ELSE DOMAIN state.extra

Value(state, i) == IF isArg(state, i) THEN state.args[i] ELSE state.extra[i]

Store(state, i, v) ==
  IF isArg(state, i) THEN [state EXCEPT !.args[i] = v]
                     ELSE [state EXCEPT !.extra = With(@, i, v)]
-----------------------------------------------------------------------------
(* Processing.  A result is the state and what becomes of it: "go" on with *)
(* the next field, "prompt" and wait, "fail", die of a runtime "error",    *)
(* begin the form "again", or "execute".                                   *)

Result(state, out) == [state |-> state, out |-> out]

NoEnd == [out |-> "none"]

\* field_prompt(): the prompt shows the value that the field has.
field_prompt(state, i) ==
  IF i \in Slots(state, i)
    THEN Result([state EXCEPT !.at = i, !.prompts[i] = @ + 1], "prompt")
    ELSE Result(state, "error")

may_retry(state, f) == state.field_retry < f.maxRetry

\* Fault: the retries are not counted.
RetriedUncounted(state) == state

Retried(state) == [state EXCEPT !.field_retry = @ + 1]

\* Fault: a form that is begun again prompts for its first field only.
PassedUnforced(state, i) ==
  [state EXCEPT !.model = With(@, i, Value(state, i)), !.field_retry = 0]

\* The value goes into the model, and the next field has its retries to itself
\* and is prompted for if the form was begun again.
Passed(state, i) ==
  [state EXCEPT !.model = With(@, i, Value(state, i)), !.field_retry = 0,
                !.force_prompt = @ \/ state.form_retry > 0]

\* process_field(): a value that does not parse is prompted for in any case,
\* one that is not valid if the field is prompted for on validation, both
\* while the retries last.
process_field(state, i) ==
  LET f == state.command.fields[i]
      v == Value(state, i)
      prompted == v \notin f.parses \/ f.prompt \in {"validate", "always"}
  IN  CASE v \in f.valid -> Result(Passed(state, i), "go")
        [] v \notin f.valid /\ prompted /\ may_retry(state, f) ->
             field_prompt(Retried(state), i)
        [] OTHER -> Result(state, "fail")

\* Fault: an argument that is missing is prompted for without a place for it.
AddedInPlace(state, i) ==
  IF isArg(state, i) THEN state ELSE Store(state, i, state.command.fields[i].default)

\* Before the prompt the default is appended to the arguments, or made the
\* extra field's value.
Added(state, i) ==
  LET default == state.command.fields[i].default
  IN  IF isArg(state, i) THEN [state EXCEPT !.args = Append(@, default)]
                         ELSE Store(state, i, default)

\* A field that was not given, or is to be given again.
missing(state, i) ==
  LET f == state.command.fields[i]
      unforced == [state EXCEPT !.force_prompt = FALSE]
  IN  CASE f.prompt \in {"syntax", "always"} -> field_prompt(Added(unforced, i), i)
        [] f.prompt \notin {"syntax", "always"} /\ f.required -> Result(unforced, "fail")
        [] OTHER -> IF isArg(state, i) /\ i \notin Slots(state, i)
                      THEN Result(unforced, "error")  \* args[i] is out of bounds
                      ELSE process_field(Store(unforced, i, f.default), i)

\* The body of the loops in process_args() and process_extra().
Step(state, i) ==
  CASE i \in DOMAIN state.model -> Result(state, "go")
    [] i \notin DOMAIN state.model /\ i \in Slots(state, i) /\ ~state.force_prompt ->
         process_field(state, i)
    [] OTHER -> missing(state, i)

\* process_args() and process_extra(), the results after each field, of which
\* there is one: the first field that does not pass ends them.
Processing(state) ==
  LET after[i \in 0..Len(state.command.fields)] ==
        IF i = 0 THEN {Result(state, "go")}
        ELSE {IF r.out = "go" THEN Step(r.state, i) ELSE r : r \in after[i - 1]}
  IN  after

process_fields(state) == Processing(state)[Len(state.command.fields)]

form_valid(state) ==
  \A i, j \in state.command.same : state.model[i] = state.model[j]

BegunAgain(state) ==
  [state EXCEPT !.form_retry = @ + 1, !.force_prompt = TRUE,
                !.model = [i \in {} |-> Empty],
                !.prompts = [i \in DOMAIN @ |-> 0]]

\* Fault: what is entered at the last retry is executed.
do_validate_once(state) ==
  IF ~form_valid(state) /\ state.form_retry < state.command.maxRetry
    THEN Result(BegunAgain(state), "again")
    ELSE Result(state, "execute")

\* do_validate() of the form, with VALIDATE_SKIP_FIELDS.
do_validate(state) ==
  CASE form_valid(state) -> Result(state, "execute")
    [] ~form_valid(state) /\ state.form_retry < state.command.maxRetry ->
         Result(BegunAgain(state), "again")
    [] OTHER -> Result(state, "fail")

Round(r) ==
  IF r.out = "again"
    THEN {IF p.out = "go" THEN do_validate(p.state) ELSE p : p \in process_fields(r.state)}
    ELSE {r}

\* process_command(), which do_validate() calls again to begin the form again:
\* maxRetry times at most.
Rounds(state) ==
  LET after[n \in 0..state.command.maxRetry + 1] ==
        IF n = 0 THEN {Result(state, "again")} ELSE UNION {Round(r) : r \in after[n - 1]}
  IN  after

process_command(state) == Rounds(state)[state.command.maxRetry + 1]

\* What processing leaves: a command that waits for input, or one that ended.
Leave(rest, r) ==
  IF r.out = "prompt" THEN open' = Append(rest, r.state) /\ ended' = NoEnd
                      ELSE open' = rest /\ ended' = r
-----------------------------------------------------------------------------
Init ==
  /\ open = <<>>
  /\ ended = NoEnd

\* do_command() with arguments the syntax allows; any others end it at once.
do_command(command, args) ==
  /\ Len(open) < MaxOpen
  /\ Len(args) \in command.minArgs..command.maxArgs
  /\ \E r \in process_command(NewState(command, args)) : Leave(open, r)

\* field_input(), called by prompt_input(): an empty line keeps the value that
\* the prompt showed, blanks are a value that is trimmed to nothing.
field_input(input) ==
  /\ open # <<>>
  /\ LET state == Last(open)
         entered == IF input = Empty THEN state
                    ELSE Store(state, state.at, Trimmed(input))
     IN  \E r \in process_command(entered) : Leave(Front(open), r)

Next ==
  \/ \E command \in Commands : \E args \in SeqOf(Texts, command.maxArgs) :
       do_command(command, args)
  \/ \E input \in Texts \cup {Blanks} : field_input(input)

Spec == Init /\ [][Next]_vars
-----------------------------------------------------------------------------
(* Properties.                                                             *)

Fields(state) == DOMAIN state.command.fields

\* Type invariant.
TypeOK ==
  /\ Len(open) <= MaxOpen
  /\ \A n \in DOMAIN open :
       LET state == open[n]
       IN  /\ state.command \in Commands
           /\ \A i \in DOMAIN state.args : state.args[i] \in Texts
           /\ DOMAIN state.extra \subseteq Fields(state)
           /\ DOMAIN state.model \subseteq Fields(state)
           /\ state.form_retry \in 0..state.command.maxRetry
           /\ state.at \in Fields(state)
           /\ state.field_retry \in 0..state.command.fields[state.at].maxRetry
  /\ ended.out \in {"none", "execute", "fail", "error"}

\* What is executed is a complete form (command_controller.c:105-119): every
\* field has a value that passed its validators, and the form's validator
\* passed these very values, whatever was refused and entered again before.
ExecutedIsValid ==
  ended.out = "execute" =>
    LET state == ended.state
    IN  /\ DOMAIN state.model = Fields(state)
        /\ \A i \in Fields(state) : state.model[i] \in state.command.fields[i].valid
        /\ form_valid(state)

\* Nothing of a refused form is executed unseen: once the form has been begun
\* again, every field that is prompted for when it is missing was prompted
\* for since.
RefusedIsAskedAgain ==
  ended.out = "execute" /\ ended.state.form_retry > 0 =>
    \A i \in Fields(ended.state) :
      ended.state.command.fields[i].prompt \in {"syntax", "always"}
        => ended.state.prompts[i] > 0

\* A client that answers comes to an end: each time a form is filled in, no
\* field is prompted for more often than its retries allow, whatever is
\* answered, and whichever other commands are given in between.
PromptsAreBounded ==
  \A n \in DOMAIN open : \A i \in Fields(open[n]) :
    open[n].prompts[i] <= 1 + open[n].command.fields[i].maxRetry

\* A field has its retries to itself: a command that ends at a field that is
\* always prompted for has used up the retries of that field, and not those
\* of the fields before it.
RetriesAreTheFieldsOwn ==
  ended.out = "fail" =>
    \A i \in Fields(ended.state) \ DOMAIN ended.state.model :
      LET f == ended.state.command.fields[i]
      IN  DOMAIN ended.state.model = 1..i - 1 /\ f.prompt = "always"
            => ended.state.prompts[i] >= f.maxRetry

\* Every pending prompt is for the first field that is not in the model, and
\* its input has a place to go to, whichever arguments were given with the
\* command: the one place that is missed is that of an argument that is not
\* required, not given, and not prompted for (command_controller.c:225-226).
PromptsFollowTheForm ==
  /\ \A n \in DOMAIN open : DOMAIN open[n].model = 1..(open[n].at - 1)
  /\ ended.out = "error" =>
       \E i \in Fields(ended.state) :
         /\ DOMAIN ended.state.model = 1..(i - 1) /\ isArg(ended.state, i)
         /\ ended.state.command.fields[i].prompt \in {"validate", "never"}
         /\ ~ended.state.command.fields[i].required
=============================================================================
