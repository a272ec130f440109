------------------------------ MODULE MCServices ------------------------------
(***************************************************************************)
(* For TLC: services, mixins and libraries that share no state, side by    *)
(* side.  Only the one in focus takes steps, so that their state spaces    *)
(* add up instead of multiplying; the others stay as they are at first.    *)
(* A library in focus is given an input, and takes no step at all.         *)
(***************************************************************************)
EXTENDS PropertyMixin, Logger, RodneyClient, ObjectTrackers, MoveHook, CommandGiver, FileTreeLib

CONSTANTS ann, bob, cup, hall, yard, none

mixinVars == vars

MCStart == ann :> hall @@ bob :> yard @@ cup :> hall

\* A directory whose zone.xml is broken lies between the root and the rooms.
MCParentOf == "" :> none @@ "/town" :> "" @@ "/town/square" :> "/town"

MCZoneOf == "room" :> "/town/square" @@ "sql" :> "" @@ "login" :> ""

J == INSTANCE JSONLib
G == INSTANCE GetoptsLib
C == INSTANCE CommandLib
E == INSTANCE ExpandObjectLib

Services == {"mixin", "logger", "hook", "trackers", "rodney"}

MCInit ==
  /\ Init /\ LoggerInit /\ HookInit /\ TrackersInit /\ RodneyInit
  /\ \/ focus \in Services /\ given = none
     \/ focus = "json" /\ given \in J!Inputs
     \/ focus = "text" /\ given \in TextInputs
     \/ focus = "options" /\ given \in G!Inputs
     \/ focus = "syntax" /\ given \in C!Inputs
     \/ focus = "routing" /\ given \in RoutingInputs
     \/ focus = "files" /\ given \in FileInputs
     \/ focus = "objects" /\ given \in E!Inputs
  /\ player = none \/ focus = "hook"

MCNext ==
  /\ UNCHANGED <<focus, given>>
  /\ \/ /\ focus = "mixin" /\ Next
        /\ UNCHANGED <<loggerVars, hookVars, trackersVars, rodneyVars>>
     \/ /\ focus = "logger" /\ LoggerNext
        /\ UNCHANGED <<mixinVars, hookVars, trackersVars, rodneyVars>>
     \/ /\ focus = "hook" /\ HookNext
        /\ UNCHANGED <<mixinVars, loggerVars, trackersVars, rodneyVars>>
     \/ /\ focus = "trackers" /\ TrackersNext
        /\ UNCHANGED <<mixinVars, loggerVars, hookVars, rodneyVars>>
     \/ /\ focus = "rodney" /\ RodneyNext
        /\ UNCHANGED <<mixinVars, loggerVars, hookVars, trackersVars>>

MCSpec ==
  MCInit /\ [][MCNext]_<<focus, given, mixinVars, loggerVars, hookVars, trackersVars, rodneyVars>>
-----------------------------------------------------------------------------
\* JSON: a decoded encoding is the value, as far as JSON has it.
JSONRestores == focus = "json" => J!JSONRestores(given)

\* Arguments and strings: a line that was put together with quotes and
\* backslashes comes apart into what was put in, and the syntax of a command
\* gives each part to the argument or option it belongs to, but for short
\* options, which it does not know, and for the last of a fixed number of
\* arguments; getopts reads the options as they were meant.
ArgumentsAreRead ==
  /\ focus = "text" => TextIsSplit(given)
  /\ focus = "syntax" => C!SyntaxIsApplied(given)
  /\ focus = "options" => G!OptionsAreRead(given)

\* Object expansion: a specification finds what its terms mean, one by one,
\* whatever was looked for before it and in whichever context.
ObjectsAreFound == focus = "objects" => E!ObjectsAreFound(given)
=============================================================================
