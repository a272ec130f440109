-------------------------- MODULE ConnectionTracker --------------------------
(***************************************************************************)
(* ConnectionTracker (.obj/tracker/connection.c): the registry of network  *)
(* connections, and what the clients tell of themselves by telnet          *)
(* negotiation.  The driver knows which object holds which network line;   *)
(* the tracker keeps connection ids beside it, `connections` by id and     *)
(* `interactives` by object.  A line is taken by a login object, which has *)
(* it tracked (logon), and is later moved to an avatar by exec(), of which *)
(* ConnectionLib informs the tracker (.lib/connection.c).                  *)
(*                                                                         *)
(* The driver is not part of the repository: `holds` is its table of       *)
(* lines.  Two variables that no code reads remember what the properties   *)
(* are about: `line_of`, the line on which a connection id was made, and   *)
(* `moved_on`, the lines that were moved on from an avatar.  What a client *)
(* says of itself is the name of its line, so that a mixed-up client       *)
(* shows.  0 is LPC's null.  The times a record carries are left out:      *)
(* nothing but their query reads them.                                     *)
(***************************************************************************)
EXTENDS Integers, Sequences

CONSTANTS Lines,            \* network lines (one client each)
          Logins,           \* login objects, cloned by the driver for a line
          Bodies,           \* avatars, the targets of exec()
          Options,          \* telnet options that carry information
          TTYPE,            \* the option that asks for the terminal type
          MaxConnections    \* bound on connection_counter

Objects == Logins \cup Bodies

ASSUME ZeroIsNull == 0 \notin Lines \cup Objects

ASSUME LoginsAreNoBodies == Logins \cap Bodies = {}

ASSUME TerminalIsAnOption == TTYPE \in Options

ASSUME BoundIsANumber == MaxConnections \in Nat

VARIABLES connections,         \* connection id -> ConnectionState
          interactives,        \* object -> connection id
          connection_counter,  \* the last id given out
          holds,               \* driver: object -> the line it holds, or 0
          gone,                \* driver: the destructed objects
          line_of,             \* connection id -> the line it was made for
          moved_on             \* lines an avatar has lost to another by exec

vars == <<connections, interactives, connection_counter, holds, gone, line_of,
          moved_on>>

tracked == <<connections, interactives, connection_counter, line_of, moved_on>>
-----------------------------------------------------------------------------
(* The records of the tracker, and its functions as operators on them.     *)

ConnectionState ==
  [interactive : Objects \cup {0}, negotiation_pending : SUBSET Options,
   info : [Options -> Lines \cup {0}]]

interactive(ob) == holds[ob] # 0

NewState(ob) ==
  [interactive |-> ob, negotiation_pending |-> {},
   info |-> [opt \in Options |-> 0]]

\* A function with one more place, or another value in one it has.
With(f, x, v) == [y \in DOMAIN f \cup {x} |-> IF y = x THEN v ELSE f[y]]

\* query_connection(); in a state that is about to be, pass the mapping.
query_connection(index, ob) == IF ob \in DOMAIN index THEN index[ob] ELSE 0

\* set_interactive() for an interactive object; an unknown connection is
\* refused.
Switched(cs, c, ob) ==
  IF c \in DOMAIN cs THEN [cs EXCEPT ![c].interactive = ob] ELSE cs

\* telnet_get_terminal(), telnet_get_NAWS() and telnet_get_ttyloc() send DO
\* and note that an answer is due.
Asked(cs, c, opt) == [cs EXCEPT ![c].negotiation_pending = @ \cup {opt}]

Commands == {"WILL", "WONT", "DO", "DONT", "SB"}

\* What a telnet command does to the record.  An SB that carries the value of
\* its option (value # 0) is stored; any other SB settles the request (but one
\* without arguments, an error in the code, leaves the record as WONT does).
Negotiated(state, cmd, opt, value) ==
  CASE cmd = "SB" /\ value # 0 -> [state EXCEPT !.info[opt] = value]
    [] cmd = "WILL" \/ (cmd = "SB" /\ value = 0) ->
         [state EXCEPT !.negotiation_pending = @ \ {opt}]
    [] OTHER -> state

Say(cmd, opt, value) == [cmd |-> cmd, opt |-> opt, value |-> value]

\* Fault: every WILL is answered by DO, asked for or not.
RepliesEachTime(state, cmd, opt) ==
  CASE cmd = "WILL" -> <<Say("DO", opt, 0), Say("SEND", opt, 0)>>
    [] cmd = "DO"   -> <<Say("WILL", opt, 0)>>
    [] OTHER        -> <<>>

\* Fault: the WILL that answers a DO ends the matter.
RepliesOnlyToOffers(state, cmd, opt) ==
  CASE cmd = "WILL" -> IF opt \in state.negotiation_pending
                         THEN <<>> ELSE <<Say("DO", opt, 0), Say("SEND", opt, 0)>>
    [] cmd = "DO"   -> <<Say("WILL", opt, 0)>>
    [] OTHER        -> <<>>

\* What is sent back: a WILL nobody asked for is accepted by DO first, and
\* the value is requested ("SEND" is the subnegotiation SB ... SEND).
Replies(state, cmd, opt) ==
  CASE cmd = "WILL" -> (IF opt \in state.negotiation_pending
                          THEN <<>> ELSE <<Say("DO", opt, 0)>>)
                       \o <<Say("SEND", opt, 0)>>
    [] cmd = "DO"   -> <<Say("WILL", opt, 0)>>
    [] OTHER        -> <<>>
-----------------------------------------------------------------------------
Init ==
  /\ connections = <<>>
  /\ interactives = [ob \in {} |-> 0]
  /\ connection_counter = 0
  /\ holds = [ob \in Objects |-> 0]
  /\ gone = {}
  /\ line_of = <<>>
  /\ moved_on = {}

\* new_connection() of an object that holds `line`; an object that holds none
\* raises an error.  `asked` is what the caller goes on to ask the client.
new_connection(ob, line, asked) ==
  LET c == connection_counter + 1
  IN  /\ c <= MaxConnections
      /\ connection_counter' = c
      /\ connections' = With(connections, c,
                             [NewState(ob) EXCEPT !.negotiation_pending = asked])
      /\ interactives' = With(interactives, ob, c)
      /\ line_of' = With(line_of, c, line)

\* A client connects: the driver clones a login object onto the line and
\* calls logon(), whose connect() has it tracked and asks for the terminal.
\* A client that calls again comes in on another line.
logon(line, login) ==
  /\ \A c \in DOMAIN line_of : line_of[c] # line
  /\ login \notin gone \cup DOMAIN interactives
  /\ holds' = [holds EXCEPT ![login] = line]
  /\ new_connection(login, line, {TTYPE})
  /\ UNCHANGED <<gone, moved_on>>

\* Fault: the tracker is told of the exec under the old object.
switch_back(from, body) ==
  connections' = Switched(connections, query_connection(interactives, from), from)

\* set_interactive(), as ConnectionLib calls it after the exec.
switch(from, body) ==
  connections' = Switched(connections, query_connection(interactives, from), body)

\* Fault: the object that had the line keeps the entry, the new one takes it.
exec_shared(from, body) ==
  /\ interactive(from)
  /\ body \notin gone /\ ~interactive(body) /\ body \notin DOMAIN interactives
  /\ holds' = [holds EXCEPT ![body] = holds[from], ![from] = 0]
  /\ connections' = Switched(connections, query_connection(interactives, from), body)
  /\ interactives' = With(interactives, body, query_connection(interactives, from))
  /\ moved_on' = IF from \in Bodies THEN moved_on \cup {holds[from]} ELSE moved_on
  /\ UNCHANGED <<connection_counter, gone, line_of>>

\* connect_session() of ConnectionLib: exec() moves the line to an avatar,
\* then the connection of the object that had it is switched, if it has one.
\* attach_session(), its only caller, passes a fresh avatar.  It is called
\* from a login object, or again from that avatar, when a second registration
\* was begun before the first was done (Registration).
exec(from, body) ==
  /\ interactive(from)
  /\ body \notin gone /\ ~interactive(body) /\ body \notin DOMAIN interactives
  /\ holds' = [holds EXCEPT ![body] = holds[from], ![from] = 0]
  /\ switch(from, body)
  /\ moved_on' = IF from \in Bodies THEN moved_on \cup {holds[from]} ELSE moved_on
  /\ UNCHANGED <<interactives, connection_counter, gone, line_of>>

\* Fault: the command is booked on the last connection made.
telnet_negotiation_last(ob, cmd, opt, value) ==
  /\ interactive(ob)
  /\ ob \in DOMAIN interactives
  /\ connections' = [connections EXCEPT ![connection_counter] =
                       Negotiated(@, cmd, opt, value)]
  /\ UNCHANGED <<interactives, connection_counter, holds, gone, line_of, moved_on>>

\* telnet_negotiation(), called by the driver's hook for the object that holds
\* the line: the command is booked on the object's connection ...
negotiation_of_tracked(ob, cmd, opt, value) ==
  /\ interactive(ob)
  /\ ob \in DOMAIN interactives
  /\ connections' = [connections EXCEPT ![interactives[ob]] =
                       Negotiated(@, cmd, opt, value)]
  /\ UNCHANGED <<interactives, connection_counter, holds, gone, line_of, moved_on>>

\* Fault: a connection is made for every object that negotiates.
negotiation_of_anyone(ob, cmd, opt, value) ==
  LET c == connection_counter + 1
  IN  /\ interactive(ob)
      /\ c <= MaxConnections
      /\ connection_counter' = c
      /\ connections' = With(connections, c,
                             Negotiated(NewState(ob), cmd, opt, value))
      /\ interactives' = With(interactives, ob, c)
      /\ line_of' = With(line_of, c, holds[ob])
      /\ UNCHANGED <<holds, gone, moved_on>>

\* ... and an object without one gets a new connection ("I hope this should
\* never happen") on which it is booked.
negotiation_of_untracked(ob, cmd, opt, value) ==
  LET c == connection_counter + 1
  IN  /\ interactive(ob)
      /\ ob \notin DOMAIN interactives
      /\ c <= MaxConnections
      /\ connection_counter' = c
      /\ connections' = With(connections, c,
                             Negotiated(NewState(ob), cmd, opt, value))
      /\ interactives' = With(interactives, ob, c)
      /\ line_of' = With(line_of, c, holds[ob])
      /\ UNCHANGED <<holds, gone, moved_on>>

\* telnet_get_NAWS(), telnet_get_ttyloc() and telnet_get_terminal() do nothing
\* for an object the tracker does not know.
telnet_get(ob, opt) ==
  /\ interactive(ob)
  /\ ob \in DOMAIN interactives
  /\ connections' = Asked(connections, interactives[ob], opt)
  /\ UNCHANGED <<interactives, connection_counter, holds, gone, line_of, moved_on>>

\* The client hangs up: nothing in the repository is told.
hang_up(ob) ==
  /\ interactive(ob)
  /\ holds' = [holds EXCEPT ![ob] = 0]
  /\ UNCHANGED <<tracked, gone>>

\* An object is destructed: the driver closes its line, and every reference to
\* it in a mapping is gone.
destruct(ob) ==
  /\ ob \notin gone
  /\ gone' = gone \cup {ob}
  /\ holds' = [holds EXCEPT ![ob] = 0]
  /\ interactives' = [o \in DOMAIN interactives \ {ob} |-> interactives[o]]
  /\ connections' = [c \in DOMAIN connections |->
                       IF connections[c].interactive = ob
                         THEN [connections[c] EXCEPT !.interactive = 0]
                         ELSE connections[c]]
  /\ UNCHANGED <<connection_counter, line_of, moved_on>>

\* A client speaks of itself only: the value it sends names its line.
Receive ==
  \E ob \in Objects, cmd \in Commands, opt \in Options :
    \E value \in {0, holds[ob]} :
      \/ negotiation_of_tracked(ob, cmd, opt, value)
      \/ negotiation_of_untracked(ob, cmd, opt, value)

Next ==
  \/ \E line \in Lines, login \in Logins : logon(line, login)
  \/ \E from \in Objects, body \in Bodies : exec(from, body)
  \/ Receive
  \/ \E ob \in Objects, opt \in Options : telnet_get(ob, opt)
  \/ \E ob \in Objects : hang_up(ob)
  \/ \E ob \in Objects : destruct(ob)

Spec == Init /\ [][Next]_vars
-----------------------------------------------------------------------------
(* Properties.                                                             *)

\* Type invariant; the last part is the driver's: a line has one holder, and
\* a line that is held came in by a logon.
TypeOK ==
  /\ connection_counter \in 0..MaxConnections
  /\ DOMAIN connections = 1..connection_counter
  /\ \A c \in DOMAIN connections : connections[c] \in ConnectionState
  /\ DOMAIN interactives \subseteq Objects \ gone
  /\ \A ob \in DOMAIN interactives : interactives[ob] \in DOMAIN connections
  /\ holds \in [Objects -> Lines \cup {0}]
  /\ gone \subseteq Objects
  /\ line_of \in [1..connection_counter -> Lines]
  /\ moved_on \subseteq Lines
  /\ \A o, p \in Objects : holds[o] = holds[p] /\ holds[o] # 0 => o = p
  /\ \A o \in gone : holds[o] = 0
  /\ \A o \in Objects :
       holds[o] # 0 => \E c \in DOMAIN line_of : line_of[c] = holds[o]

\* Until exec, a client has exactly one connection id: whatever its client
\* negotiates and however often it is asked, a login object that holds a line
\* is indexed, and no other connection was made for that line.
OneIdPerLogin ==
  \A login \in Logins : interactive(login) =>
    /\ login \in DOMAIN interactives
    /\ \A c \in DOMAIN connections :
         line_of[c] = holds[login] <=> c = interactives[login]

\* The tracker follows a line across exec (connection.c:2-3, 98): as long as
\* the line is up, every connection id made for it names the object that
\* holds it now, whatever other clients connect, hang up or are destructed,
\* until an avatar loses it to another, whom the tracker does not look for.
FollowsExec ==
  \A c \in DOMAIN connections : \A ob \in Objects :
    holds[ob] = line_of[c] /\ line_of[c] \notin moved_on
      => connections[c].interactive = ob

\* Two objects never share a connection id, and an object that holds a line
\* is indexed, if at all, under a connection of that very line.
IndexMatchesLines ==
  /\ \A o, p \in DOMAIN interactives :
       interactives[o] = interactives[p] => o = p
  /\ \A o \in DOMAIN interactives :
       holds[o] # 0 => line_of[interactives[o]] = holds[o]

\* What is recorded of a connection was said by the client at the other end
\* of its own line: no interleaving of negotiation, exec and hang-ups books
\* one client's terminal on another's connection.
ClientsNotMixedUp ==
  \A c \in DOMAIN connections, opt \in Options :
    connections[c].info[opt] \in {0, line_of[c]}

\* The documentation of query_connection() (connection.c:132-135): the
\* connection of an interactive object is known, also after exec.
InteractivesAreIndexed ==
  \A ob \in Objects : interactive(ob) => query_connection(interactives, ob) # 0
=============================================================================
