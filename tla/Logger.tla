-------------------------------- MODULE Logger --------------------------------
(***************************************************************************)
(* Logger (.obj/logger/logger.c) and LoggerFactory (logger_factory.c): the *)
(* logger that everyone logs to.  A message goes to the targets of the     *)
(* logger one after the other.  Telling a console runs code of other       *)
(* objects, which may log themselves, so the flag `logging` keeps messages *)
(* out while one is on its way; an error of write_file() is not caught and *)
(* leaves the flag set.                                                    *)
(*                                                                         *)
(* Messages are muted by program, or by the line that logs.  A program is  *)
(* named with or without its suffix, and a logging function may be one     *)
(* that the logging object inherits, which the driver's trace shows in     *)
(* parentheses.  What a message says, and how it is formatted, is not      *)
(* modelled.                                                               *)
(***************************************************************************)
EXTENDS Integers, Sequences

CONSTANTS LoggedZones,     \* zones whose loggers are asked for
          LoggedPrograms,  \* programs that log
          LoggedLines,     \* lines of theirs
          Euids,           \* effective user ids of those who configure
          Uid              \* the user id that the factory gives to the logger

\* Line 0 stands for a whole program, and no program is called "".
ASSUME NumbersAndNames == LoggedLines \subseteq Nat \ {0} /\ "" \notin LoggedPrograms

VARIABLES level,    \* name of the highest level that is logged
          output,   \* the targets
          muted,    \* program -> the muted lines, or All
          logging,  \* a message is on its way
          message,  \* the message that is, or the last one
          hushed,   \* for the properties: <<program, line>> pairs that are muted
          failed    \* for the properties: a target has failed

loggerVars == <<level, output, muted, logging, message, hushed, failed>>
-----------------------------------------------------------------------------
LEVELS(name) ==
  CASE name = "ALL" -> 7 [] name = "TRACE" -> 6 [] name = "DEBUG" -> 5
    [] name = "INFO" -> 4 [] name = "WARN" -> 3 [] name = "ERROR" -> 2
    [] name = "FATAL" -> 1 [] OTHER -> 0

Levels == {"OFF", "ERROR", "ALL"}

Priorities == {"ERROR", "DEBUG"}

\* Console and file targets, as parse_output_prop() makes them of a property.
Outputs == {<<>>, <<"console">>, <<"console", "file">>, <<"file", "console">>}

is_enabled(priority) == LEVELS(level) >= LEVELS(priority)

\* Only those of the logger's own user id configure it.
check_access(euid) == euid = Uid

\* Where a message comes from: parse_program() looks for the wrong
\* parenthesis, and finds no program for an inherited function.
CallSites == [program : LoggedPrograms, line : LoggedLines, inherited : BOOLEAN]

parse_program(caller) == IF caller.inherited THEN "" ELSE caller.program

\* A program that is muted as a whole: line 0 stands for it.
All == {0}

is_muted(program, line) ==
  /\ program \in DOMAIN muted
  /\ muted[program] = All \/ line \in muted[program]

Mutes(program, lines) ==
  [p \in DOMAIN muted \cup {program} |-> IF p = program THEN lines ELSE muted[p]]
-----------------------------------------------------------------------------
(* Configuration.                                                          *)

\* get_logger(): everyone has the one logger of the loggers, as the rest of
\* the function is never reached.
get_logger(zone) == "logger_logger"

\* release_logger(): the pool that it looks in is never filled.
release_logger(zone) == 0

\* init_static_loggers(): the debug level, and the console of whoever logs.
LoggerInit ==
  /\ level = "DEBUG"
  /\ output = <<"console">>
  /\ muted = [p \in {} |-> All]
  /\ logging = FALSE
  /\ message = [at |-> 0, targets |-> <<>>, reached |-> {}, lost |-> FALSE, due |-> FALSE]
  /\ hushed = {}
  /\ failed = FALSE

set_level(euid, name) ==
  /\ check_access(euid)
  /\ level' = name
  /\ UNCHANGED <<output, muted, logging, message, hushed, failed>>

set_output(euid, targets) ==
  /\ check_access(euid)
  /\ output' = targets
  /\ UNCHANGED <<level, muted, logging, message, hushed, failed>>

\* The muted lines and one more, unless all are.
WithLine(program, line) ==
  IF program \notin DOMAIN muted THEN {line}
    ELSE IF muted[program] = All THEN All ELSE muted[program] \cup {line}

\* mute(): line 0 stands for the program.  The suffix is added if it lacks.
mute(euid, program, line) ==
  /\ check_access(euid)
  /\ IF line = 0
       THEN /\ muted' = Mutes(program, All)
            /\ hushed' = hushed \cup {program} \X LoggedLines
       ELSE /\ muted' = Mutes(program, WithLine(program, line))
            /\ hushed' = hushed \cup {<<program, line>>}
  /\ UNCHANGED <<level, output, logging, message, failed>>

\* unmute(): no suffix is added, so that a program named without one, `bare`,
\* stays muted.  Of a program that is muted as a whole no line is unmuted.
unmute(euid, program, bare, line) ==
  /\ check_access(euid)
  /\ ~bare /\ program \in DOMAIN muted
  /\ IF line = 0
       THEN /\ muted' = [p \in DOMAIN muted \ {program} |-> muted[p]]
            /\ hushed' = hushed \ ({program} \X LoggedLines)
       ELSE /\ muted[program] # All
            /\ muted' = Mutes(program, muted[program] \ {line})
            /\ hushed' = hushed \ {<<program, line>>}
  /\ UNCHANGED <<level, output, logging, message, failed>>
-----------------------------------------------------------------------------
(* Messages.                                                               *)

\* What is on its way, to which targets, and which it reached.
Message(priority, caller, targets) ==
  [at |-> 1, targets |-> targets, reached |-> {}, lost |-> FALSE,
   due |-> /\ LEVELS(level) >= LEVELS(priority)
           /\ caller.inherited \/ <<caller.program, caller.line>> \notin hushed]

Ended(m) == [m EXCEPT !.at = 0]

\* log() and do_output() up to the first target.  A message that is logged
\* while another one is on its way is lost; in the model it leaves no trace.
log(zone, priority, caller) ==
  LET m == Message(priority, caller, output)
      passes == is_enabled(priority) /\ ~is_muted(parse_program(caller), caller.line)
  IN  /\ get_logger(zone) = "logger_logger"
      /\ message.at = 0
      /\ IF passes /\ ~logging
           THEN logging' = TRUE /\ message' = m
           ELSE logging' = logging /\ message' = [Ended(m) EXCEPT !.lost = logging]
      /\ UNCHANGED <<level, output, muted, hushed, failed>>

Target == message.targets[message.at]

\* The objects of the target are expanded and told; both may fail, and are
\* caught.  Meanwhile anyone may configure the logger: the targets stay.
console ==
  /\ message.at \in 1..2 /\ message.at <= Len(message.targets)
  /\ Target = "console"
  /\ message' = [message EXCEPT !.at = @ + 1, !.reached = @ \cup {message.at}]
  /\ UNCHANGED <<level, output, muted, logging, hushed, failed>>

\* write_file() works, or its error ends the call of log().
file ==
  /\ message.at \in 1..2 /\ message.at <= Len(message.targets)
  /\ Target = "file"
  /\ \/ /\ message' = [message EXCEPT !.at = @ + 1, !.reached = @ \cup {message.at}]
        /\ UNCHANGED failed
     \/ /\ message' = Ended(message)
        /\ failed' = TRUE
  /\ UNCHANGED <<level, output, muted, logging, hushed>>

\* Fault: the flag is not taken back.
do_output_end_logging ==
  /\ message.at > 0 /\ message.at > Len(message.targets)
  /\ message' = Ended(message)
  /\ UNCHANGED <<level, output, muted, logging, hushed, failed>>

do_output_end ==
  /\ message.at > 0 /\ message.at > Len(message.targets)
  /\ logging' = FALSE
  /\ message' = Ended(message)
  /\ UNCHANGED <<level, output, muted, hushed, failed>>

\* The logger is configured between messages, or by the code of a console.
LoggerNext ==
  \/ \E euid \in Euids :
       \/ \E name \in Levels : set_level(euid, name)
       \/ \E targets \in Outputs : set_output(euid, targets)
       \/ \E program \in LoggedPrograms, line \in LoggedLines \cup {0} :
            \/ mute(euid, program, line)
            \/ \E bare \in BOOLEAN : unmute(euid, program, bare, line)
  \/ \E zone \in LoggedZones, priority \in Priorities, caller \in CallSites :
       log(zone, priority, caller)
  \/ console \/ file \/ do_output_end

LoggerSpec == LoggerInit /\ [][LoggerNext]_loggerVars
-----------------------------------------------------------------------------
\* A message that is enabled, and that nobody asked to be silent, reaches all
\* its targets, and any other reaches none.  Only after a file target failed
\* nothing is reached any more, forever (logger.c:419); and a message of an
\* inherited function cannot be muted at all (logger.c:498).
MessagesReachTargets ==
  message.at = 0 =>
    /\ ~message.due \/ message.lost => message.reached = {}
    /\ message.lost \/ logging => failed
    /\ message.due /\ ~failed => message.reached = DOMAIN message.targets
=============================================================================
