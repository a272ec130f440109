# TLA+ verification of acme-platform

acme-platform is the platform layer of a MUD library in LPC for the LDMud driver: it takes
network connections, negotiates with their clients, registers users, starts sessions,
attaches avatars to them, and routes commands to controllers; around this core are the
services and libraries that its objects use. This directory holds TLA+ models of both, the
TLC runs that check them, and TLAPS proofs about every component that has a state, and of some
of the libraries: the safety invariants of the state machines that the runs check are theorems,
for every value of the constants, and what routing a line, finding files, copying trees and quoting
text should give is proved for every input.

`PROJECT.json` lists components, runs, mutants (faults that each property catches), the map
from definitions to source lines, findings, hazards and theorems.

    tlc -workers 2 -config Registration.cfg MCRegistration.tla
    tlapm ConnectionTrackerProofs.tla

## How the program runs, and how it is modelled

LDMud runs one thread. A call from the driver (a line of input, a `call_out`, a heart beat, a
telnet command, a new connection, a lost one) runs to its end before the next begins, so a
handler is one atomic step, with every call it makes. What interleaves is whole handlers.
A handler can die half-way of a runtime error or of a call that fails, and what it has
changed by then stays changed. A call to a function that the target does not define returns
0, and a variable or mapping key that held a destructed object holds 0 or is gone. There are
no transactions, nothing but files survives a restart, and several promises of the comments
are kept by no code (functions that are called and not defined, or defined and never called).

Conventions: names are those of the source; 0 is LPC's null; an id `program#n` is the number
`n`; what the driver knows (who holds which line, which objects are destructed, the stack of
`input_to()`s) is state of the model next to the program's; operators marked "Fault" are the
plausible mistakes that the mutants of `PROJECT.json` put in place of the real definition, and
no specification uses them.

## Inventory

| component | state | operations | interacts with | hard part | what makes it correct |
|---|---|---|---|---|---|
| SessionTracker `.obj/tracker/session.c` | sessions by id, counter | new, connect, disconnect, resume, set_avatar | UserLib, ConnectionLib, PlatformAvatar | order of calls by different callers | hierarchy is a forest, histories only grow, times in order |
| ConnectionTracker `.obj/tracker/connection.c`, ConnectionLib | records by id, ids by object, counter | new_connection, set_interactive, telnet_negotiation, telnet_get_* | driver, LoginObject, HookService | `exec()`, late telnet, disconnects, destructs | clients are not confused, records follow the line |
| LoginObject `.obj/login.c` | pending call_out, input_to, heart beat | logon, get_terminal_type, welcome, heart_beat, abort | ConnectionTracker, client | two clocks and a slow or silent client | everyone gets a prompt, no object outstays its client |
| registration and descent `.bin/register.c`, `.lib/user.c`, `.obj/avatar.c`, `.module/avatar.c`, user and player trackers | users, players, masters and slaves of avatars, password files | register, attach_session, try_descend, on_descend | all of the above | partial failure at every call; overlapping registrations; restarts | lines, avatars, sessions and accounts match |
| CommandController `.module/command_controller.c`, PromptLib | a CommandState per pending prompt | do_command, field_input | CommandGiver, driver's input stack | retries of fields and of the form, prompts over prompts | only complete, valid forms are executed; retries end |
| CommandGiver `.module/command_giver.c` | imported specs of commands | do_command, load_controller | controllers | verbs in several specs, controllers that are broken or fail at first | a line reaches the commands whose verb it begins with |
| CommandLib, ArgumentLib, GetoptsLib, CommandSpecLib | none | choice of a syntax, parsing of arguments and options | CommandController | quoting, escapes, several syntaxes, options among arguments | what was typed comes apart into what was meant |
| LoggerFactory, Logger `.obj/logger/` | level, targets, mutes, a flag | get_logger, set_output, mute, unmute, log | everybody | reentrancy of a target, errors of a target, configuration in between | what is due reaches every target, nothing else does |
| DomainTracker `.obj/tracker/domain.c` | configs by domain_id and by directory, children by domain_id | reconfig_signal, query_domain_id, parse_config, update_domain, delete_domain | FileTracker, files | files written, broken and removed in any order, discovered late; deletes that fail half-way | tables agree and follow the files |
| Zone, flavor, program and object trackers, create hook | zones, instances, programs, versions | new_zone, new_instance, new_program, program_cloned, reload | driver, HookService | zones below missing or broken ones, clones of old programs, errors half-way, a tracker that is reloaded | zones form a tree, an object has the program of its blueprint |
| move hook `.obj/hook_service.c` | environments, this_player() | move_object_hook | objects | signals that move or destruct, moves within moves | everyone meets who should, this_player() is restored |
| PropertyMixin `.module/property.c` | values, masks, hooks, saved and not | configure, set, mask, unmask, query | objects | hooks that call back, masks of objects that go, restarts | one table per property, the last write stays |
| RodneyClient `.lib/rodney_client.c` | queue, callbacks, a line of the ERQ | rodney_query, flush_queue, callbacks of the ERQ | driver's ERQ, a service | pieces, packets, blocked and lost lines, resends | an answer reaches who asked, queries arrive in order |
| JSON, string, array and file libraries | none | json_encode, json_decode, search, explode_nested, escape, traverse_tree, expand_pattern | everybody | nesting, escapes, ends of strings, directories and patterns | what is written is read back; a pattern finds what matches |
| ObjectExpansionLib `.lib/expand_object.c` | what was found so far, within a call; the player's context | expand_objects, expand_group, expand_single, expand_term, expand_destination | shell commands, objects, files | contexts as strings that are put together and taken apart, kept results, fallback to outer contexts | a specification finds what its terms mean, in the context it belongs to |
| PostalService, SQL clients, shell commands, avatar mixins, stubs | little or none | | | I/O and text | not modelled, see below |

The hazards are listed at their lines in `PROJECT.json`, with the properties that cover them.

## Modules

    SessionLives                    what the session registry promises
      ^ implemented by
    SessionTracker  ------------+
      ^ SessionTrackerProofs    |
    ConnectionTracker  ---------+--> Registration  (MCRegistration)
      ^ MCConnectionTracker     |      ^ RegistrationProofs
      ^ ConnectionTrackerProofs |
                                +--> TelnetNegotiation --> LoginObject
                                                             ^ LoginObjectProofs
    CommandController (MCCommandController) --- CommandControllerProofs
    DomainTracker (MCDomainTracker) ----------- DomainTrackerProofs

    PropertyMixin, Logger, RodneyClient,
      MoveHook, ObjectTrackers ----------- ServicesProofs   > side by side in MCServices
    TextLib --> CommandGiver,                               > (Services.cfg, RodneyOverlap.cfg)
      FileLib --> FileTreeLib ------------ LibraryProofs    >
    TextLib --> CommandLib, ExpandObjectLib                 >
    GetoptsLib, JSONLib                                     >

**SessionTracker** models `.obj/tracker/session.c` with every public function, each as an
operator on the mapping (so that handlers which make several calls compose them) and as an
action. **SessionLives** is the abstract registry: a life is begun below an older one or
none, started for good, and served by connections that are appended. `LivesSpec` maps the two
link sets to one link upward, the state to "started", the history to its connections.

**ConnectionTracker** models `.obj/tracker/connection.c` and the part of ConnectionLib that
moves a line. `holds` is the driver's table of lines. Two variables that no code reads,
`line_of` and `moved_on`, record the line an id was made for and the lines an avatar lost to
another, for the properties to refer to. A client's terminal is the name of its line, so that
a value booked on the wrong record shows.

**TelnetNegotiation** puts a client and the two directions of a line at the other end of the
tracker's `telnet_negotiation()`: a mindful client (RFC 854: it does not answer a request for what
it has agreed to, nor an answer) or a forgetful one that answers every DO and every WILL. Either may
offer an option by itself (WILL), also one it refused before, or ask the server for one (DO). The
tracker notes its own requests as pending, but neither the DO with which it accepts an offer nor
its WILLs (`connection.c:211-217`), so a forgetful client that speaks first is answered without end:
`Settles` has this for an exception. **LoginObject** extends the negotiation with
the login object that waits for the answer: the `call_out` every second, the heart beat, the idle
time, and the client that types, hangs up or moves to an avatar at any moment.

**Registration** composes SessionTracker and ConnectionTracker (by INSTANCE; their operators and
actions are reused, not restated) with the user and player trackers, AvatarMixin and the
password files. The command that registers is one step; each way it can fail half-way is an
action of its own, with what it leaves behind. A form can be opened over another with `!`,
so the second registration of a line may be executed by an avatar: ConnectionLib then
moves the line and fails, because the tracker does not index avatars.

**CommandController** models how a command's form is filled in. A `CommandState` waits on the
driver's stack of `input_to()`s; an answer takes the top one and processes the whole command
again. The loop over the fields (`Processing`) and the recursion over the rounds of the form
(`Rounds`) are recursive functions, of the set of results after each field and each round; the
first result that is not "go", or not "again", stays. Values are kept as far as they are told
apart: what parses, what is valid, what is empty or blank.

**DomainTracker** models `.obj/tracker/domain.c` over a tree of directories, of which any
may have a `domain.xml` before the mud starts. The functions that call one another
(`parse_config` up the tree, `update_domain`, `delete_domain`) are operators on the three tables as a
record; writing a file, removing it and asking for the domain of a path are the actions.
`Reading` is the recursion of `parse_config`, a function of the directories above, from the
topmost down to the one whose file is read; `Handing_over` is the loop over a deleted domain's
children, in any order of the mapping.
A runtime error leaves the tables as far as they got, which is a matter of the order of a
mapping when the first child of a top-level domain is handed over. `behind` names, for
`FollowsFiles`, the directories whose last change was refused.

**PropertyMixin** models `.module/property.c`: the two tables of properties (saved with the object
or not) with their values and the table of masks. A hook and a mask are code of other objects
that may call back before they answer, so calls that wait are a stack (`calls`) in which an
inner one may do anything and the outer one goes on with what it had read before. Clones that
own masks or hooks can be destructed at any time; `Restart` saves the object and restores it.

**Logger** is one logger, which is all there is, as `get_logger()` returns the factory's
own one in its first line. A message goes from target to target; telling a console runs code
that may log again, so it is several steps, between which the logger is muted, unmuted and
configured. `hushed` records what was muted by line, independently of the mapping.

**MoveHook** is `move_object_hook()` as a stack of moves, each at the call of another object's code
it waits for (`prevent_`, the signals, `init()` by everyone met), in which objects are
destructed and moved again.

**ObjectTrackers** is the create hook with the trackers it tells, over clones, destructs, reloads of
programs and of the trackers themselves, and zones whose directories lie below broken ones. Its
calls fail where a tracker is new and raw, where the config of a zone above is broken, where a
clone's program is not known, and where the row of a new program cannot be inserted: `new_program()`
does that last (`program.c:111`), so the object is in the tables by then and is never created.

**RodneyClient** is the queue of queries sent piece by piece through the driver's ERQ to a service.
The ERQ and the service are external: the ERQ answers its requests in order, with success, part
of it, a block or an error; a line hands its packets over as the network cuts them. Of a text
only its owner and the number of characters are kept.

**JSONLib, TextLib, GetoptsLib, CommandLib, CommandGiver, FileLib, FileTreeLib, ExpandObjectLib** are
pure algorithms: operators on sequences that are written as the functions are, each compared with
a definition of what it should give. A loop is a recursive function of the number of rounds or
of the place in the text where it matters for a proof (TextLib, CommandGiver, FileLib, FileTreeLib),
and a recursive operator in the others. The reference definitions are made the other
way round where they can be: a line is put together from arguments with quotes and
backslashes and must come apart into them; a value is encoded and must be decoded into itself.
`traverse` is one call of `_traverse()`, which calls itself for all that a directory lists: its
state is the tree and the list of what this call and those that wait for it have still to come
to. `traverse_tree` makes as many calls as there are entries a walk can come to (`Entries`);
only a directory that is copied into itself would need more, and `TreeIsCopied` leaves that out.
A specification of objects is written out from lists of terms, and what it finds is compared
with the terms evaluated one after the other, without the strings, the kept results and the
contexts that `expand_object.c` goes through. The objects, their ids and details are those of
one small world, which is external.

**MCServices** checks these side by side: it extends the services and the libraries that are
proved about, and instantiates the rest. `focus` says which one takes steps, or which library is
`given` an input (both declared in **LibraryInput**), so the state spaces add up.

## Runs

| run | bounds | shows |
|---|---|---|
| SessionTracker | 3 sessions (one above, below, beside), 2 connects each, 2 seconds | the hierarchy is a forest, histories are in order, and the tracker implements SessionLives |
| SessionConnected | 1 session | **violated**: a connected session is reported as not connected |
| ConnectionTracker | 2 lines, 2 logins, 2 avatars, 4 ids | records follow exec, the index matches the lines, no mix-up |
| InteractivesIndexed | 1 client | **violated**: after exec the tracker does not know its interactive |
| LoginObject | 2 options, a client that starts 2 things (1 if it is forgetful), timeout 2, heart beat every 2, 6 retries | the negotiation settles and informs, but for forgetful clients that speak first; the wait and the object end |
| Registration | 2 lines, 2 users of one name, 4 avatars, 2 forms per line, 1 restart | lines, sessions, avatars, accounts match through failures |
| RegistrationRestart | 1 user, 1 restart | **violated**: an id given out again replaces a stored password |
| DomainTracker | 4 directories (one 3 deep, two beside one another) and the root, 2 ids, 3 changes of files | tables agree, follow the files, nobody is dropped for another, and no parent is made up |
| DomainChildren | 3 directories below one another, 3 changes | **violated**: a domain is said to have children that are none of its own |
| Services | see below | properties, logger, move hook, trackers, Rodney client keep their invariants; the libraries agree with their references, but for what is listed below |
| RodneyOverlap | 3 characters, 2 queries, 1 line | **violated**: a piece is requested while another is under way |
| CommandController | register with 2/1/0 retries and 2 rounds, two made-up commands, 2 pending | only valid forms are executed, prompts are bounded per field and round |

Why the bounds are enough. Three sessions make the shapes a hierarchy with one link upward
can have (a chain, two below one, unrelated ones). Two clients suffice for a mix-up of
clients; four ids let each have one of its login and a late one of its avatar. In
LoginObject the times are scaled down, with the order that the code has: idle timeout plus a
heart beat before the retries run out (`TimeoutComesFirst`). Two overlapping forms are the
smallest number that lets an avatar complete one; two users of one name are what the tracker
allows. In CommandController fields with 0, 1 and 2 retries and two more rounds of the form
reach every interplay of the counters; `other` and `strict` in `MCCommandController` exercise
the prompt settings register does not use (`syntax`, `validate`, `never`, optional and
unparsable fields). In DomainTracker files may exist in any state at the start and are read at
any time, so three changes reach a domain that is deleted, made again and deleted; with four
changes, or five without the root, the invariants hold as well. In Services: one property with two values, a second object and two
nested calls (a hook that calls back within a hook), as properties share nothing but
the tables' shape; one logger with a program of two lines (muted as a whole, in part, not at all) and
all orders of two targets; three things, two rooms and two moves, one within the other; three
zones of which the middle one is broken, three programs (an ordinary one, the SQL client that
is tracked later, one loaded before the trackers), four objects; queries of three
characters in pieces of two over two lines, with a clock that allows ids of the same and of
different seconds. The libraries get every input of their sets: 6233 values for JSON (nested
once, with strings of the characters the code tells apart), 7209 lines of text, 3724 lists of
arguments with options, 4329 lines for a syntax, 28896 lines to route, 7854 trees with patterns,
10944 lists of specifications of objects with a context, a root context and flags.
`MaxChanges`, `MaxSessions`, `MaxConnections`, `MaxUsers`, `MaxBodies`, `MaxRestarts`,
`MaxCalls`, `MaxMoves`, `MaxSteps`, `MaxObjects`, `MaxInstances`, `MaxQueries`, `MaxLines`, `MaxConnects`, `MaxTime`, `MaxForms`, `MaxOpen`, `MaxInitiatives` and `MaxDos` bound counters that are unbounded in the
code. Symmetry is used for safety only, over kinds that no definition tells apart.
Deadlock is off where the bounds use everything up or every object ends in being destructed.

**Fairness.** Only LoginObject has liveness properties. Weak fairness is assumed of the
driver's clock, `call_out`s and heart beats (LDMud's main loop runs what is due) and of both
ends reading what they are sent on a line that is up. Nobody is assumed to type, offer, ask or
leave.

## Findings

1. `is_connected()` has its test the wrong way round (`.obj/tracker/session.c:90`). Since
   `disconnect_session()` asks it first, no connection of a session ever ends:
   `NothingEnds` is an invariant, and proved.
2. `set_interactive()` does not update the index by object
   (`.obj/tracker/connection.c:98`), so `query_connection()` of an avatar is 0, and a telnet
   command from it makes a second id for the line.
3. User ids restart with the driver (`.obj/tracker/user.c:113`) while the password files
   that they are keys of persist.
4. `delete_domain()` gives children away and leaves them listed under the id of the deleted
   domain (`.obj/tracker/domain.c:433`), so a domain that is made again under that id has
   children that are not its own, and its next deletion is a runtime error.
5. `flush_queue()` finds that a piece is under way, logs it and sends all the same
   (`.lib/rodney_client.c:183`), so a second query has the first piece sent twice.

Met and not run as findings. In the core: TERMINAL_MAX_TRIES is not used, the retries of
`get_terminal_type()` end at 2345235; an optional argument that is missing is assigned out of
bounds (`command_controller.c:226`; of the verbs in the specs only `abort` has such an argument,
and its controller is empty); `last_session` of a user is never set, so "resume the last session"
(`.lib/user.c:181`) never happens; the removal of a `domain.xml` that was not read yet
deletes the domain above (`domain.c:66`), until somebody asks for its path. The config of a domain
holds the domain_id of its parent as it was when it was read: when the parent is given another id
(366), or gets one because the domain above it is deleted (423-434), the configs below keep the old
one and stay listed under it, so that `query_children()` of the parent misses them, against its doc
(485-489). `ListedWithParent` therefore speaks of the id in the config, and `OrphansHadAParent` says that
such an id was a domain's once and is never made up on the way.

In the services: after a packet that does not match its checksum `incoming` is never started over
(`rodney_client.c:124`), so the client is deaf for good; each query without a ticket opens a
line of its own (290); a part that was sent is counted with its header (250), which
shifts the cursor; ERQ_E_PIPE resends at once and for ever (259). These are in the
model, and are why `QueriesArriveInOrder` has its premises. An error of `write_file()` leaves
the logger's flag set, which silences it for good (`logger.c:419`); functions that are inherited
cannot be muted, for the wrong parenthesis is looked for. A tracker that is reloaded fails on its
own creation and at that of any object after it (`hook_service.c:188`). A property that was
restored from a file has no entry for masks, so a query of it is an error; hooks given as an
object and a name are ignored.

In the libraries: `parse_args_explode()` gives the last of a fixed number of arguments `args[pos..]`, a piece of
the arguments so far, where its doc (349-352) says the rest of the line (`command.c:380`), and
`parse_opt()` looks an option up by its character, a number, among keys that are strings (300), so
that no short option is ever known and a line with one fits no syntax: `ArgumentsAreRead` asks nothing
of that argument and takes short options for bad. Of the types that `json_encode()` says map well
(577-579), zeros at the end of an array or before a blank are not read back (`json.c:401`), nor are
empty arrays, for which `out` is never set (744), nor strings that end in a backslash;
`JSONRestores` says exactly which values are lost. Bad options are never reported, as the mapping of syntaxes has
width 1 (81, 90); "--" does not end options there; a mapping of several
values for each key, none of which is a string, is no JSON that is read back, as `out` is not set
there either (`json.c:705`; for one value it is, 676). In `expand_object.c` the members of a group lose their first
character where its context is put together (287-291), against the comment there, and the
context is dropped with it: what follows a group in a chain is looked for in a place that is
not the group's, and the context that UPDATE_CONTEXT leaves after one finds something else.
An escaped "." in a context counts as a delimiter when the context is taken apart (146, 245,
543). The inputs and references of the libraries say where they leave such cases out.

## Proofs

For every value of the constants and every input, under the named assumptions in the modules. They say what the
code relies on: 0 is no id or object, the bounds are numbers, logins are no avatars, the
terminal type is an option, an absent property is none of the values, directories form a tree,
a program lies in a directory, rooms are not things. In each module an invariant is strengthened
until it is inductive; what had to be added, and why, is the content of the proof.

- **SessionTrackerProofs.** The type invariant is inductive by itself, `NothingEnds` with it: no
  call can stamp a history without a stamp in it. `Forest` needs that ids are given out in
  order, so the new session is younger than the one above and nobody links to it yet. `Chronicle`
  needs the clock to be ahead of all recorded times. `NothingUndone` is an action
  property from the type invariant; it would be false if connections could be ended, so it
  also rests on `NothingEnds`. `TrackerImplementsLives` maps initial states and each
  action to a step of SessionLives or a stutter.
- **ConnectionTrackerProofs.** The inductive invariant is the conjunction of the type invariant
  and the four the run checks: `FollowsExec` needs that exec switches the only id of the line,
  which is `OneIdPerLogin`, which needs that the index agrees with the driver
  (`IndexMatchesLines`); after a second exec, from an avatar, the claim is withdrawn by `moved_on`.
- **RegistrationProofs.** The command ends in seven ways, and first each is shown to have an
  outcome of one form: one session or two are new, and no more avatars than these; what there
  was before is untouched; the line stays, or moves to the first new avatar, with a session that
  runs. The invariant spans the tables: objects are numbered without gaps (so a clone is new), an
  avatar belongs to one session at most, a line that an avatar holds ends in its session
  (`LinesReachSessions`), and an object is indexed, if at all, under a connection of its own
  line, which every login object with a line is. So the line that moves with nobody told moves
  from an avatar, and is in `moved_on`. `OrphansStayOrphans` is then read off the outcome.
  `RunningFromTheTop` has an invariant of its own on top (`TopInv`): what hangs below what, with
  the users and players (`LinksOK`); that a line has one holder, which is no login object once it
  was moved on (`HoldersOK`); that an avatar that got a line has a form less open on it
  (`FormsOK`); and the count. For that, each unserved session at the top is charged to a form, a
  line that was moved on and a number above the number of forms still open on it, no two sessions
  to the same (`UnservedOK`). A line that moves on again closes a form, so its number
  is free for the new session; the pairs are finitely many, and the bound is their
  cardinality.
- **LoginObjectProofs.** `AnswersAreNotAnswered` is not inductive: that the tracker leaves
  a WILL unanswered rests on a request that it still has down as pending. The invariant
  (`Agreed`) follows each option across both directions of the line: a mindful client says
  WILL once, as an offer or as an answer while its mode is "off", until then no WILL of it is
  under way, and what it answers is still pending, as no WONT or DO of it takes it off. A forgetful
  client is exempt, as in the property. `NoneOutstays` needs that the seconds since the last heart beat are
  counted: idle time and beat together stay below the bound (`LoginInv`).
- **CommandControllerProofs.** The state is a stack of commands, and nothing of a command is
  remembered but its `CommandState`, so the invariant says of each that waits
  how far it has come (`Processed`): the fields below the one it waits at have valid values and a
  place of their own (`FilledTo`), the prompts of each field are within its retries, and tell how
  many of them are used (`PromptedTo`), and since the form was begun again, fields that are always
  asked for were (`AskedTo`). An answer has the command processed from its beginning. That what
  one field leaves is what the next may rely on is shown for one field and one round, and
  carried over any number of fields and rounds by induction. What is executed is then complete,
  valid and asked for; a command that failed at a field that is always asked for has used up the
  retries of that field (`RetriesAreNotShared`, a consequence that no run checks by itself).
- **DomainTrackerProofs.** The tables are changed by functions that call one another and may end
  half-way, refused or by an error, so no statement about whole calls is enough. `Sound` is what
  holds between any two steps of them: the two tables have the same configs (`SameConfigs`), each
  listed with its parent under an id that extends the parent's (`ListedIn`), and whatever is listed, a
  domain or not, extends what it is listed with (`ListsExtend`). The last is needed because ids stay
  behind in lists (finding 4): what is listed there and is a domain again has this domain for its
  parent, so that handing it over takes it out of no other list. `Sound` is carried by induction up
  the directories for a reading, with what a directory's file says now or said before (`Grown`),
  and over the children, in any order, for a deletion; `FollowsFiles` and `OthersStayTracked` come
  of what these leave of `domain_roots`.
- **ServicesProofs.** PropertyMixin: a hook or a mask may do anything while a call waits for it, so the
  invariant is about the stack: what each waiting call has read of its property is what the
  table still says, or the table was changed by a call within it, which it knows.
  Logger: `MessagesReachTargets` speaks of a message that has ended. The invariant says
  of one on its way that it has reached exactly the targets before the next, which an output
  changed in the middle cannot alter, and that the mapping of mutes says what was hushed line by line.
  RodneyClient: an answer reaches who asked because every id in the queue, in the
  requests of the driver and on the lines is that of its query, two queries have two ids,
  callbacks are filed under the id and none that was applied is filed still. Queries arrive in
  order because the cursor of the first query, the piece with the ERQ and what the service has
  read on the line agree, except on a line that has ended, whose loss sets the cursor back; this
  assumes of the sizes that a query is not empty and that a header leaves room for some of it.
  MoveHook: a move that has noted its player has noted the one it found, as far as that
  exists; one that has not noted it yet will find it, for it is what the move within it found
  (or this_player(), for the innermost). A destruct keeps these equations, because it takes the
  same object from both sides. A move whose item the destination's `init()` moved on ends early,
  without restoring (`hook_service.c:121`), and leaves that item; the player a move around it finds
  next is then not its own, and of such moves, which are misled, the property says nothing. `AllMeet`
  has an invariant of its own: while nothing disturbs a move, it still knows who is in the
  destination, and what has been met lies between what came before its place in the hook and
  what comes with it.
  ObjectTrackers: `ZonesFormATree`: a zone that is linked is linked both ways, and a
  zone that fails half-way has its own entry before it is listed above. `ObjectsHaveTheirProgram`:
  programs are numbered without gaps, and a program that is known has its zone and as its
  latest version that of the blueprint, also where the row of it could not be inserted, which is
  the one way for an object to be known and not created.
- **LibraryProofs.** A library keeps no state; `given` is its input, of which a theorem says what
  is assumed and which is otherwise arbitrary, where the runs have some thousands.
  *Routing* (`LinesAreRouted`). The loop over commands, the one over verbs and the up to two calls
  of a controller are each shown to keep `Tried`: the matches noted so far are those of the line;
  every call was for a command that is due, with the rest of the line; they are in order, with no
  success but the last; and whoever is due among the verbs tried was called (`IsServed`). That none is
  called thrice for a verb needs that a command's verbs are distinct, for then a verb that
  is tried has no call yet. `IsRouting` asks for that, as the code gives it
  (`parse_command_xml()` makes each command with one verb, its `primaryVerb`), and for letters that
  are not the two values that stand for the end of a line and for no match.
  *Files* (`AllFilesAreFound`). For paths, what a prefix of the parts resolves to determines what the whole
  does (`WholeIsResolved`, `PathsCompose`); for patterns, after k parts exactly those files are kept
  that match k parts (`PatternFinds`). For copies, the walk is shown to keep `Walked`: the
  list of what is to come holds nothing twice and nothing below anything else on it; the tree is the original and
  the copies of all below `src` that is no more to come; and a file is listed after its directory
  was made. Each call comes to one entry for good (`WalkStep`), so the number of entries still to come and
  that of calls made stay below the number of entries (`Ahead`), and at the end the list is empty
  and everything copied. Assumed are a finite tree whose paths go through directories from
  the root (`IsFileTree`), and of the pattern that it is not the empty string, for what is added to that would
  start at the root.
  *Text* (`TextIsReadAgain`). Whether a place is escaped is read off the backslashes before it, and first
  turned into a recurrence from one place to the next (`EscapedStep`), from which follows which places of an
  escaped word are escaped (`EscapedWord`). Then each loop over the text (finding the next delimiter,
  unescaping, cutting a list, reading a word) is followed from the end of the text to its
  beginning: what it makes of the rest from the place of a piece on is what was written from that
  piece on. Of a text with brackets (`NestedIsSplit`) it is shown first that one in which everything is
  closed at the end closes nothing that was not opened (`NestedIsOpen`), then that `find_close_char()`
  finds, from any place on, where what is open there on top is closed (`CloseIsFound`), and last
  that the parts still to come complete those before each place at which nothing is open
  (`SplitStep`). The characters are any set that has the blank, the backslash, the quotes and the
  comma; there is at least one part, as a list of none is written as the empty string, which is cut into
  one empty part; and a text with brackets holds no backslash, as none of the model's inputs of this kind
  does: `explode_nested()` heeds escapes of delimiters but not of brackets.

**Induction.** The library's induction theorems take the formula as an operator, which the
installed provers cannot instantiate. `SetInduction` states it of a set of numbers instead: a set
that has 0, and with each number the next, has all of them (from `WFMin` and
`NatLessThanWellFounded`). That such a recursive function satisfies its own equation is shown first
(a function on 0..n exists for each n, by induction, and is the one that is chosen), then
what its values satisfy. LibraryProofs does so once for all its loops: `Recursion` for any
function whose value at a place depends on places of a lower measure, of which `Iteration` (a loop of n
rounds) and `FromBehind` (a loop from a place in a text on) are cases, `FromBehindWithin` where the
loop makes sense only for values of a set for each place, and `Passing` for a
loop whose states keep to a set for each round; the step is a function, which the provers
can instantiate. The three modules that need `SetInduction` hold it each.

Only model-checked: liveness (`Settles`, `Learns`, `SuppressionEnds`) and what depends on ENABLED, which
are out of the provers' reach; the action property `OrphansHadAParent`; and of the libraries `JSONRestores`, `ObjectsAreFound` and the part of
`ArgumentsAreRead` about syntaxes and options, which recur over nested values and words by RECURSIVE
operators, about which the provers' main backend says nothing; its part about text (`TextIsSplit`) is
proved. What the findings' runs show is
shown by a counterexample and needs no proof. No module that is proved about reaches a RECURSIVE operator; MCServices does,
and holds no theorem.

## Not modelled

Of the modelled parts: times other than those of sessions, the arithmetic of window sizes,
opts of commands and the parsers of each type, rooms and flavors
(they appear as the failure of `try_descend`), the coordinates of rooms, the inheritance lists
of programs that nothing reads, the branches that resume a last session (dead code),
`set_session()` (never called), LoggerFactory's cache (never reached, `logger_factory.c:89`), and
texts of any kind. `process_opts()` (`command_controller.c:254-286`) is not translated: of the
commands in the repository `load` alone has options. It looks for each option in the map that it
loops over (256), not among what was given, so that one that is missing is processed like one that
is there, and never prompted for. Of the rest:

- SQL clients and PostalService: statements to a database that is not part of the repository;
  the tables' contents decide what they do.
- `command_spec.c`: reads the XML trees of command specifications, which the driver's parser
  builds, into structs; no state outlives a call.
- Of object expansion, groups within a chain and escaped delimiters (they are modelled, and left
  out of the inputs for what the code makes of them, above).
- Shell commands, soul, sensor and the avatar's mixins: output that is put together from the state
  of the components that are modelled.
- Stubs: functions without a body.

The reasons are listed by component in `PROJECT.json`.

## Plan

1. Flavors and the choice of an instance for an avatar, when `try_descend` is more than its
   failure or success.
2. `command_spec.c` as operators with a reference, as the libraries.
