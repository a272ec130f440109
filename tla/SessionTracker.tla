--------------------------- MODULE SessionTracker ---------------------------
(***************************************************************************)
(* SessionTracker (.obj/tracker/session.c): the registry of login          *)
(* sessions.  A session belongs to a user, may hang below a supersession,  *)
(* carries an avatar, and keeps the history of the connections that were   *)
(* switched to it.                                                         *)
(*                                                                         *)
(* LPC runs one call at a time to its end, so every public function is one *)
(* atomic step; what interleaves is the calls of different callers.  Each  *)
(* function is written twice: as an operator on the mapping (ss), so that  *)
(* a handler that makes several calls can compose them within its one      *)
(* step, and as an action of this component on its own.  A call that       *)
(* returns early without a change is a stuttering step.                    *)
(*                                                                         *)
(* 0 is LPC's null: no session, no user, no avatar, no time.  A session id *)
(* "program#n" is the number n, and time() is a clock that starts at 1.    *)
(***************************************************************************)
EXTENDS Integers, Sequences

CONSTANTS Users,         \* user ids passed to new_session()
          Connections,   \* connection ids passed to connect_session()
          Avatars,       \* objects passed to set_avatar()
          MaxSessions,   \* bound on session_counter
          MaxConnects,   \* bound on the length of a session's history
          MaxTime        \* bound on the clock

ASSUME ZeroIsNull == 0 \notin Users \cup Connections \cup Avatars

ASSUME BoundsAreNumbers ==
  MaxSessions \in Nat /\ MaxConnects \in Nat /\ MaxTime \in Nat \ {0}

VARIABLES sessions,          \* session id -> SessionInfo
          session_counter,   \* the last id given out
          now                \* time()

vars == <<sessions, session_counter, now>>
-----------------------------------------------------------------------------
(* The states of a session; SUSPENDED and DONE are declared by session.h   *)
(* and set by no code.                                                     *)

SESSION_STATE_UNKNOWN   == 0
SESSION_STATE_NEW       == 1
SESSION_STATE_RUNNING   == 2
SESSION_STATE_SUSPENDED == 3
SESSION_STATE_DONE      == 4

\* struct ConnectedSessionInfo and struct SessionInfo (.lib/session.c); the
\* fields nothing sets, transition_time and invisible, are left out.
Entry == [connection : Connections, connect_time : 1..MaxTime,
          disconnect_time : 0..MaxTime]

SessionInfo ==
  [user : Users, state : {SESSION_STATE_NEW, SESSION_STATE_RUNNING},
   create_time : 1..MaxTime, avatar : Avatars \cup {0},
   subsessions : SUBSET (1..MaxSessions),
   supersessions : SUBSET (1..MaxSessions),
   connections : Seq(Entry)]

-----------------------------------------------------------------------------
(* The functions of the tracker, as operators on its mapping.              *)

\* The record new_session() builds; above is 0 or a tracked session.
NewInfo(user, above, t) ==
  [user |-> user, state |-> SESSION_STATE_NEW, create_time |-> t, avatar |-> 0,
   subsessions |-> {}, supersessions |-> {above} \ {0},
   connections |-> <<>>]

\* Fault: the supersession is not told of its new subsession.
WithSessionUnlinked(ss, id, user, above, t) ==
  [s \in DOMAIN ss \cup {id} |->
     IF s = id THEN NewInfo(user, above, t) ELSE ss[s]]

\* new_session() of a known supersession, or of none.
WithSession(ss, id, user, above, t) ==
  [s \in DOMAIN ss \cup {id} |->
     CASE s = id    -> NewInfo(user, above, t)
       [] s = above -> [ss[s] EXCEPT !.subsessions = @ \cup {id}]
       [] OTHER     -> ss[s]]

\* is_connected(): true when the last connection has a disconnect time.
IsConnected(ss, s) ==
  /\ s \in DOMAIN ss
  /\ ss[s].connections # <<>>
  /\ ss[s].connections[Len(ss[s].connections)].disconnect_time # 0

\* disconnect_session(): stamps the last entry of a "connected" session.
Disconnected(ss, s, t) ==
  IF IsConnected(ss, s)
    THEN [ss EXCEPT ![s].connections[Len(ss[s].connections)].disconnect_time = t]
    ELSE ss

\* Fault: the new connection is written in front of the history.
ConnectedInFront(ss, s, connection, t) ==
  [ss EXCEPT ![s].connections =
     <<[connection |-> connection, connect_time |-> t,
        disconnect_time |-> 0]>> \o @]

\* connect_session() of a known session.
Connected(ss, s, connection, t) ==
  [Disconnected(ss, s, t) EXCEPT ![s].connections =
     Append(@, [connection |-> connection, connect_time |-> t,
                disconnect_time |-> 0])]

\* Fault: resuming a session forgets the connections that served it.
ResumedAfresh(ss, s) ==
  IF s \in DOMAIN ss /\ ss[s].state # SESSION_STATE_DONE
    THEN [ss EXCEPT ![s].state = SESSION_STATE_RUNNING, ![s].connections = <<>>]
    ELSE ss

\* resume_session(): every session but a finished one becomes running ...
Resumed(ss, s) ==
  IF s \in DOMAIN ss /\ ss[s].state # SESSION_STATE_DONE
    THEN [ss EXCEPT ![s].state = SESSION_STATE_RUNNING]
    ELSE ss

\* ... and the caller gets the state it had before, or 0.
ResumeResult(ss, s) ==
  IF s \in DOMAIN ss /\ ss[s].state # SESSION_STATE_DONE THEN ss[s].state ELSE 0

\* set_avatar(), and query_avatar() of any id.
WithAvatar(ss, s, avatar) ==
  IF s \in DOMAIN ss THEN [ss EXCEPT ![s].avatar = avatar] ELSE ss

AvatarOf(ss, s) == IF s \in DOMAIN ss THEN ss[s].avatar ELSE 0

\* query_user()
UserOf(ss, s) == IF s \in DOMAIN ss THEN ss[s].user ELSE 0
-----------------------------------------------------------------------------
(* The component on its own: any caller, any arguments.                    *)

Init ==
  /\ sessions = <<>>
  /\ session_counter = 0
  /\ now = 1

\* An unknown supersession is refused before an id is taken.
new_session(user, supersession_id) ==
  /\ session_counter < MaxSessions
  /\ supersession_id = 0 \/ supersession_id \in DOMAIN sessions
  /\ session_counter' = session_counter + 1
  /\ sessions' = WithSession(sessions, session_counter + 1, user,
                             supersession_id, now)
  /\ UNCHANGED now

connect_session(session_id, connection) ==
  /\ session_id \in DOMAIN sessions
  /\ Len(sessions[session_id].connections) < MaxConnects
  /\ sessions' = Connected(sessions, session_id, connection, now)
  /\ UNCHANGED <<session_counter, now>>

disconnect_session(session_id) ==
  /\ sessions' = Disconnected(sessions, session_id, now)
  /\ UNCHANGED <<session_counter, now>>

resume_session(session_id) ==
  /\ sessions' = Resumed(sessions, session_id)
  /\ UNCHANGED <<session_counter, now>>

set_avatar(session_id, avatar) ==
  /\ sessions' = WithAvatar(sessions, session_id, avatar)
  /\ UNCHANGED <<session_counter, now>>

Tick ==
  /\ now < MaxTime
  /\ now' = now + 1
  /\ UNCHANGED <<sessions, session_counter>>

Ids == 1..MaxSessions

Next ==
  \/ \E user \in Users, above \in Ids \cup {0} : new_session(user, above)
  \/ \E s \in Ids, connection \in Connections : connect_session(s, connection)
  \/ \E s \in Ids : disconnect_session(s)
  \/ \E s \in Ids : resume_session(s)
  \/ \E s \in Ids, avatar \in Avatars : set_avatar(s, avatar)
  \/ Tick

Spec == Init /\ [][Next]_vars
-----------------------------------------------------------------------------
(* Properties.                                                             *)

\* Type invariant: the ids in use are exactly those the counter gave out,
\* and every record has the shape of struct SessionInfo.
TypeOK ==
  /\ session_counter \in 0..MaxSessions
  /\ now \in 1..MaxTime
  /\ DOMAIN sessions = 1..session_counter
  /\ \A s \in DOMAIN sessions : sessions[s] \in SessionInfo

\* The two link sets that new_session() keeps (session.c:58-61) tell the
\* same story about a hierarchy that is a forest: a session is listed below
\* exactly the session it names above itself, it has at most one of those,
\* and that one is older, so no chain of supersessions ever loops.
Forest ==
  \A s \in DOMAIN sessions :
    /\ sessions[s].supersessions \subseteq 1..(s - 1)
    /\ \A p, q \in sessions[s].supersessions : p = q
    /\ \A t \in DOMAIN sessions :
         t \in sessions[s].subsessions <=> s \in sessions[t].supersessions
    /\ sessions[s].subsessions \subseteq DOMAIN sessions

\* The times a session records can be read as a chronicle: it was created
\* after its supersession and no later than its first connection, and the
\* connections follow one another (connect_session() appends, session.c:106).
Chronicle ==
  \A s \in DOMAIN sessions :
    /\ \A p \in sessions[s].supersessions :
         p \in DOMAIN sessions => sessions[p].create_time <= sessions[s].create_time
    /\ sessions[s].create_time <= now
    /\ \A i \in DOMAIN sessions[s].connections :
         /\ sessions[s].create_time <= sessions[s].connections[i].connect_time
         /\ sessions[s].connections[i].connect_time <= now
         /\ \A j \in 1..i : sessions[s].connections[j].connect_time
                              <= sessions[s].connections[i].connect_time

\* What a step keeps of every session there is.
Kept ==
  \A s \in DOMAIN sessions :
    /\ s \in DOMAIN sessions'
    /\ sessions'[s].user = sessions[s].user
    /\ sessions'[s].supersessions = sessions[s].supersessions
    /\ sessions[s].subsessions \subseteq sessions'[s].subsessions
    /\ sessions[s].state <= sessions'[s].state
    /\ Len(sessions[s].connections) <= Len(sessions'[s].connections)
    /\ \A i \in DOMAIN sessions[s].connections :
         sessions'[s].connections[i] = sessions[s].connections[i]

\* No call undoes what an earlier one recorded: a session keeps its owner
\* and its place in the hierarchy, a session that has been resumed never
\* looks new again, and its history of connections only grows at the end.
NothingUndone == [][Kept]_vars

\* is_connected() tests the disconnect time the wrong way round, and
\* disconnect_session() stamps only what is_connected() accepts (session.c:90,
\* 123): between them no connection of a session is ever ended, and no
\* session is ever reported as connected, whatever the callers do.
NothingEnds ==
  \A s \in DOMAIN sessions :
    /\ ~IsConnected(sessions, s)
    /\ \A i \in DOMAIN sessions[s].connections :
         sessions[s].connections[i].disconnect_time = 0

\* The documentation of is_connected() (session.c:82) and connect_session()
\* (session.c:94): a session whose last connection has not been ended is
\* reported as connected.
ConnectedIsReported ==
  \A s \in DOMAIN sessions :
    LET history == sessions[s].connections
    IN  history # <<>> /\ history[Len(history)].disconnect_time = 0
          => IsConnected(sessions, s)
-----------------------------------------------------------------------------
(* The tracker implements the abstract registry: the supersession set is a *)
(* single link upward, the state is "started or not", and of the history   *)
(* only the connections are visible.                                       *)

AboveOf(s) == IF sessions[s].supersessions = {} THEN 0
              ELSE CHOOSE p \in sessions[s].supersessions : TRUE

LifeOf(s) == [user    |-> sessions[s].user,
              above   |-> AboveOf(s),
              started |-> sessions[s].state # SESSION_STATE_NEW,
              served  |-> [i \in 1..Len(sessions[s].connections) |->
                             sessions[s].connections[i].connection]]

Lives == INSTANCE SessionLives WITH life <- [s \in 1..session_counter |-> LifeOf(s)]

LivesSpec == Lives!Spec
=============================================================================
