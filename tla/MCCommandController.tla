------------------------- MODULE MCCommandController -------------------------
(***************************************************************************)
(* CommandController for TLC: the register command (.bin/login.cmds), with *)
(* smaller numbers of retries, and a command made up of the settings that  *)
(* register has no use for.                                                *)
(***************************************************************************)
EXTENDS CommandController

CONSTANTS bob, joe, toolong

Field(prompt, maxRetry, required, parses, valid) ==
  [prompt |-> prompt, maxRetry |-> maxRetry, required |-> required,
   default |-> Empty, parses |-> parses, valid |-> valid]

\* username (not_empty, max_length), password (not_empty), confirmPassword.
register ==
  [fields |-> <<Field("always", 2, TRUE, Texts, {bob, joe}),
                Field("always", 1, TRUE, Texts, Inputs),
                Field("always", 0, TRUE, Texts, Texts)>>,
   nargs |-> 1, minArgs |-> 0, maxArgs |-> 1, same |-> {2, 3}, maxRetry |-> 2]

\* An argument that has to parse and that nobody is prompted for without a
\* need, one that is prompted for when the syntax lacks it, an extra field
\* that must be given and one that need not be.
other ==
  [fields |-> <<Field("validate", 1, FALSE, {bob, joe}, {bob, joe}),
                Field("syntax", 1, TRUE, Texts, {bob, joe, Empty}),
                Field("never", 1, FALSE, Texts, Texts)>>,
   nargs |-> 2, minArgs |-> 0, maxArgs |-> 2, same |-> {1, 2}, maxRetry |-> 1]

strict ==
  [fields |-> <<Field("validate", 1, TRUE, {bob, joe}, {bob}),
                Field("validate", 1, TRUE, Texts, Texts)>>,
   nargs |-> 1, minArgs |-> 1, maxArgs |-> 1, same |-> {}, maxRetry |-> 0]

MCInputs == {bob, joe, toolong}

MCCommands == {register, other, strict}
=============================================================================
