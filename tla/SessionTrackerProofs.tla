------------------------ MODULE SessionTrackerProofs ------------------------
(***************************************************************************)
(* Theorems about SessionTracker, for every set of users, connections and  *)
(* avatars and every bound.                                                *)
(*                                                                         *)
(* TypeOK and NothingEnds are inductive together: connect_session() calls  *)
(* disconnect_session(), which changes nothing as long as nothing has ever *)
(* ended.  Forest and Chronicle are inductive relative to the two.         *)
(***************************************************************************)
EXTENDS SessionTracker, SequenceTheorems, TLAPS

IInv == TypeOK /\ NothingEnds

-----------------------------------------------------------------------------
(* What the functions of the tracker do to the mapping.                    *)

\* disconnect_session() never finds a session it takes for connected.
LEMMA DisconnectIsIdle ==
  ASSUME NothingEnds, NEW s, NEW t
  PROVE  Disconnected(sessions, s, t) = sessions
  BY DEF NothingEnds, Disconnected, IsConnected

\* So connect_session() appends an open entry and does nothing else.
LEMMA ConnectAppends ==
  ASSUME NothingEnds, NEW s, NEW c, NEW t
  PROVE  Connected(sessions, s, c, t) =
           [sessions EXCEPT ![s].connections =
              Append(@, [connection |-> c, connect_time |-> t,
                         disconnect_time |-> 0])]
  BY DisconnectIsIdle DEF Connected

\* The record of a session that new_session() has just made.
LEMMA NewInfoType ==
  ASSUME NEW user \in Users, NEW above \in 0..MaxSessions, NEW t \in 1..MaxTime
  PROVE  NewInfo(user, above, t) \in SessionInfo
  <1>1. {above} \ {0} \in SUBSET (1..MaxSessions)
    BY BoundsAreNumbers
  <1>2. <<>> \in Seq(Entry)
    OBVIOUS
  <1> QED BY <1>1, <1>2
      DEF NewInfo, SessionInfo, SESSION_STATE_NEW, SESSION_STATE_RUNNING

-----------------------------------------------------------------------------
LEMMA InitIInv == Init => IInv
  BY BoundsAreNumbers DEF Init, IInv, TypeOK, NothingEnds

LEMMA StepIInv == IInv /\ [Next]_vars => IInv'
  <1> SUFFICES ASSUME IInv, [Next]_vars PROVE IInv'
    OBVIOUS
  <1> USE BoundsAreNumbers DEF IInv
  <1>1. ASSUME NEW user \in Users, NEW above \in Ids \cup {0},
               new_session(user, above)
        PROVE  IInv'
    <2> DEFINE n == session_counter + 1
    <2>1. /\ n \in 1..MaxSessions
          /\ above \in 0..MaxSessions /\ above # n
          /\ now \in 1..MaxTime
          /\ session_counter' = n /\ now' = now
          /\ sessions' = WithSession(sessions, n, user, above, now)
      BY <1>1 DEF new_session, TypeOK, Ids
    <2>2. DOMAIN sessions' = 1..n
      BY <2>1 DEF WithSession, TypeOK
    <2>3. ASSUME NEW s \in 1..n
          PROVE  /\ sessions'[s] \in SessionInfo
                 /\ sessions'[s].connections =
                      IF s = n THEN <<>> ELSE sessions[s].connections
      <3>1. CASE s = n
        <4>1. sessions'[s] = NewInfo(user, above, now)
          BY <2>1, <3>1 DEF WithSession, TypeOK
        <4> QED BY <4>1, <2>1, <3>1, NewInfoType DEF NewInfo
      <3>2. CASE s # n /\ s = above
        <4>1. s \in DOMAIN sessions /\ sessions[s] \in SessionInfo
          BY <2>1, <3>2 DEF TypeOK
        <4>2. sessions'[s] = [sessions[s] EXCEPT !.subsessions = @ \cup {n}]
          BY <2>1, <3>2 DEF WithSession, TypeOK
        <4> QED BY <4>1, <4>2, <2>1, <3>2 DEF SessionInfo
      <3>3. CASE s # n /\ s # above
        BY <2>1, <3>3 DEF WithSession, TypeOK
      <3> QED BY <3>1, <3>2, <3>3
    <2>4. TypeOK'
      BY <2>1, <2>2, <2>3 DEF TypeOK
    <2>5. NothingEnds'
      BY <2>2, <2>3, <2>1 DEF NothingEnds, IsConnected, TypeOK
    <2> QED BY <2>4, <2>5
  <1>2. ASSUME NEW s \in Ids, NEW c \in Connections, connect_session(s, c)
        PROVE  IInv'
    <2> DEFINE e == [connection |-> c, connect_time |-> now,
                     disconnect_time |-> 0]
    <2>1. /\ s \in DOMAIN sessions
          /\ sessions' = [sessions EXCEPT ![s].connections = Append(@, e)]
          /\ session_counter' = session_counter /\ now' = now
      BY <1>2, ConnectAppends DEF connect_session
    <2>2. e \in Entry /\ e.disconnect_time = 0
      BY DEF Entry, TypeOK
    <2>3. sessions[s] \in SessionInfo /\ sessions[s].connections \in Seq(Entry)
      BY <2>1 DEF TypeOK, SessionInfo
    <2> HIDE DEF e
    <2>4. /\ sessions'[s] = [sessions[s] EXCEPT !.connections = Append(@, e)]
          /\ DOMAIN sessions' = DOMAIN sessions
          /\ \A t \in DOMAIN sessions : t # s => sessions'[t] = sessions[t]
      BY <2>1
    <2>5. /\ sessions'[s] \in SessionInfo
          /\ sessions'[s].connections = Append(sessions[s].connections, e)
      <3>1. Append(sessions[s].connections, e) \in Seq(Entry)
        BY <2>2, <2>3
      <3> QED BY <2>3, <2>4, <3>1 DEF SessionInfo
    <2>6. TypeOK'
      BY <2>1, <2>4, <2>5 DEF TypeOK
    <2>7. \A i \in DOMAIN sessions'[s].connections :
            sessions'[s].connections[i].disconnect_time = 0
      <3>1. \A i \in DOMAIN sessions[s].connections :
              sessions[s].connections[i].disconnect_time = 0
        BY <2>1 DEF NothingEnds
      <3> QED BY <3>1, <2>2, <2>3, <2>5
    <2>8. ~IsConnected(sessions', s)
      BY <2>7, <2>5, <2>3 DEF IsConnected
    <2>9. NothingEnds'
      BY <2>1, <2>4, <2>7, <2>8 DEF NothingEnds, IsConnected
    <2> QED BY <2>6, <2>9
  <1>3. ASSUME NEW s \in Ids, disconnect_session(s)
        PROVE  IInv'
    <2>1. UNCHANGED vars
      BY <1>3, DisconnectIsIdle DEF disconnect_session, vars
    <2> QED BY <2>1 DEF vars, TypeOK, NothingEnds, IsConnected
  <1>4. ASSUME NEW s \in Ids, resume_session(s)
        PROVE  IInv'
    <2>1. /\ DOMAIN sessions' = DOMAIN sessions
          /\ session_counter' = session_counter /\ now' = now
      BY <1>4 DEF resume_session, Resumed
    <2>2. ASSUME NEW t \in DOMAIN sessions
          PROVE  /\ sessions'[t] \in SessionInfo
                 /\ sessions'[t].connections = sessions[t].connections
      <3>1. sessions[t] \in SessionInfo
        BY DEF TypeOK
      <3>2. \/ sessions'[t] = sessions[t]
            \/ sessions'[t] = [sessions[t] EXCEPT !.state = SESSION_STATE_RUNNING]
        BY <1>4 DEF resume_session, Resumed
      <3> QED BY <3>1, <3>2 DEF SessionInfo
    <2>3. TypeOK'
      BY <2>1, <2>2 DEF TypeOK
    <2>4. NothingEnds'
      BY <2>1, <2>2 DEF NothingEnds, IsConnected
    <2> QED BY <2>3, <2>4
  <1>5. ASSUME NEW s \in Ids, NEW a \in Avatars, set_avatar(s, a)
        PROVE  IInv'
    <2>1. /\ DOMAIN sessions' = DOMAIN sessions
          /\ session_counter' = session_counter /\ now' = now
      BY <1>5 DEF set_avatar, WithAvatar
    <2>2. ASSUME NEW t \in DOMAIN sessions
          PROVE  /\ sessions'[t] \in SessionInfo
                 /\ sessions'[t].connections = sessions[t].connections
      <3>1. sessions[t] \in SessionInfo
        BY DEF TypeOK
      <3>2. \/ sessions'[t] = sessions[t]
            \/ sessions'[t] = [sessions[t] EXCEPT !.avatar = a]
        BY <1>5 DEF set_avatar, WithAvatar
      <3> QED BY <3>1, <3>2 DEF SessionInfo
    <2>3. TypeOK'
      BY <2>1, <2>2 DEF TypeOK
    <2>4. NothingEnds'
      BY <2>1, <2>2 DEF NothingEnds, IsConnected
    <2> QED BY <2>3, <2>4
  <1>6. CASE Tick
    BY <1>6 DEF Tick, TypeOK, NothingEnds, IsConnected
  <1>7. CASE UNCHANGED vars
    BY <1>7 DEF vars, TypeOK, NothingEnds, IsConnected
  <1> QED BY <1>1, <1>2, <1>3, <1>4, <1>5, <1>6, <1>7 DEF Next

LEMMA IInvHolds == Spec => []IInv
  BY InitIInv, StepIInv, PTL DEF Spec

\* Type correctness: the ids in use are those the counter gave out, and every
\* session keeps the shape of struct SessionInfo.
THEOREM TypeCorrect == Spec => []TypeOK
  BY IInvHolds, PTL DEF IInv

\* No session is ever reported as connected and no connection is ever ended:
\* the inverted test of is_connected() disables disconnect_session() for good.
THEOREM NothingEverEnds == Spec => []NothingEnds
  BY IInvHolds, PTL DEF IInv
-----------------------------------------------------------------------------
(* The effect of a step, freed of the way the code brings it about.  The   *)
(* theorems below only look at these.                                      *)

\* new_session(): one session more, and its supersession told of it.
Grows(user, above) ==
  LET n == session_counter + 1
  IN  /\ session_counter' = n /\ now' = now
      /\ above = 0 \/ above \in DOMAIN sessions
      /\ DOMAIN sessions' = 1..n
      /\ sessions'[n] = NewInfo(user, above, now)
      /\ \A s \in DOMAIN sessions :
           sessions'[s] = IF s = above
                            THEN [sessions[s] EXCEPT !.subsessions = @ \cup {n}]
                            ELSE sessions[s]

\* Every other call leaves owners, links and creation times alone ...
KeepsLinks ==
  /\ session_counter' = session_counter /\ now <= now'
  /\ DOMAIN sessions' = DOMAIN sessions
  /\ \A s \in DOMAIN sessions :
       /\ sessions'[s].user = sessions[s].user
       /\ sessions'[s].subsessions = sessions[s].subsessions
       /\ sessions'[s].supersessions = sessions[s].supersessions
       /\ sessions'[s].create_time = sessions[s].create_time

\* ... and either one session starts or none does,
StartsOnly(S) ==
  \A s \in DOMAIN sessions :
    sessions'[s].state = IF s \in S THEN SESSION_STATE_RUNNING ELSE sessions[s].state

\* and either one session gets an open entry now or no history changes.
ServesOnly(S, c) ==
  \A s \in DOMAIN sessions :
    sessions'[s].connections =
      IF s \in S THEN Append(sessions[s].connections,
                            [connection |-> c, connect_time |-> now,
                             disconnect_time |-> 0])
                 ELSE sessions[s].connections

Starts(s) == KeepsLinks /\ StartsOnly({s}) /\ ServesOnly({}, 0)
Serves(s, c) == KeepsLinks /\ StartsOnly({}) /\ ServesOnly({s}, c)
Idles == KeepsLinks /\ StartsOnly({}) /\ ServesOnly({}, 0)

\* A step of the tracker has one of four effects.
LEMMA StepEffect ==
  ASSUME IInv, [Next]_vars
  PROVE  \/ \E user \in Users, above \in 0..MaxSessions : Grows(user, above)
         \/ \E s \in DOMAIN sessions : Starts(s)
         \/ \E s \in DOMAIN sessions, c \in Connections : Serves(s, c)
         \/ Idles
  <1> USE BoundsAreNumbers
  <1> USE DEF IInv, TypeOK
  <1> DEFINE Goal == \/ \E user \in Users, above \in 0..MaxSessions : Grows(user, above)
                     \/ \E s \in DOMAIN sessions : Starts(s)
                     \/ \E s \in DOMAIN sessions, c \in Connections : Serves(s, c)
                     \/ Idles
  <1>a. ASSUME NEW s \in DOMAIN sessions PROVE sessions[s] \in SessionInfo
    OBVIOUS
  <1>b. ASSUME UNCHANGED vars PROVE Idles
    BY <1>b DEF vars, Idles, KeepsLinks, StartsOnly, ServesOnly
  <1>1. ASSUME NEW user \in Users, NEW above \in Ids \cup {0},
               new_session(user, above)
        PROVE  Goal
    <2>1. above \in 0..MaxSessions
      BY DEF Ids
    <2>2. Grows(user, above)
      BY <1>1 DEF new_session, WithSession, Grows
    <2> QED BY <2>1, <2>2
  <1>2. ASSUME NEW s \in Ids, NEW c \in Connections, connect_session(s, c)
        PROVE  Goal
    <2>1. s \in DOMAIN sessions
      BY <1>2 DEF connect_session
    <2>2. sessions' = [sessions EXCEPT ![s].connections =
                         Append(@, [connection |-> c, connect_time |-> now,
                                    disconnect_time |-> 0])]
      BY <1>2, ConnectAppends DEF connect_session
    <2>3. KeepsLinks
      BY <2>1, <2>2, <1>2, <1>a DEF KeepsLinks, connect_session, SessionInfo
    <2>4. StartsOnly({}) /\ ServesOnly({s}, c)
      BY <2>1, <2>2, <1>a DEF StartsOnly, ServesOnly, SessionInfo
    <2> QED BY <2>1, <2>3, <2>4 DEF Serves
  <1>3. ASSUME NEW s \in Ids, disconnect_session(s) PROVE Goal
    <2>1. UNCHANGED vars
      BY <1>3, DisconnectIsIdle DEF disconnect_session, vars
    <2> QED BY <2>1, <1>b
  <1>4. ASSUME NEW s \in Ids, resume_session(s) PROVE Goal
    <2>1. CASE s \in DOMAIN sessions /\ sessions[s].state # SESSION_STATE_DONE
      <3>1. sessions' = [sessions EXCEPT ![s].state = SESSION_STATE_RUNNING]
        BY <1>4, <2>1 DEF resume_session, Resumed
      <3>2. KeepsLinks
        BY <2>1, <3>1, <1>4, <1>a DEF KeepsLinks, resume_session, SessionInfo
      <3>3. StartsOnly({s}) /\ ServesOnly({}, 0)
        BY <2>1, <3>1, <1>a DEF StartsOnly, ServesOnly, SessionInfo
      <3> QED BY <2>1, <3>2, <3>3 DEF Starts
    <2>2. CASE ~(s \in DOMAIN sessions /\ sessions[s].state # SESSION_STATE_DONE)
      <3>1. UNCHANGED vars
        BY <1>4, <2>2 DEF resume_session, Resumed, vars
      <3> QED BY <3>1, <1>b
    <2> QED BY <2>1, <2>2
  <1>5. ASSUME NEW s \in Ids, NEW a \in Avatars, set_avatar(s, a) PROVE Goal
    <2>1. KeepsLinks
      BY <1>5, <1>a DEF KeepsLinks, set_avatar, WithAvatar, SessionInfo
    <2>2. StartsOnly({}) /\ ServesOnly({}, 0)
      BY <1>5, <1>a
         DEF StartsOnly, ServesOnly, set_avatar, WithAvatar, SessionInfo
    <2> QED BY <2>1, <2>2 DEF Idles
  <1>6. ASSUME Tick PROVE Goal
    BY <1>6 DEF Tick, Idles, KeepsLinks, StartsOnly, ServesOnly
  <1> QED BY <1>1, <1>2, <1>3, <1>4, <1>5, <1>6, <1>b DEF Next

-----------------------------------------------------------------------------
LEMMA StepForest == IInv /\ Forest /\ [Next]_vars => Forest'
  <1> SUFFICES ASSUME IInv, Forest, [Next]_vars PROVE Forest'
    OBVIOUS
  <1> USE DEF IInv
  <1>1. ASSUME KeepsLinks PROVE Forest'
    BY <1>1 DEF KeepsLinks, Forest
  <1>2. ASSUME NEW user \in Users, NEW above \in 0..MaxSessions,
               Grows(user, above)
        PROVE  Forest'
    <2> DEFINE n == session_counter + 1
    <2>1. DOMAIN sessions = 1..session_counter /\ session_counter \in Nat
      BY BoundsAreNumbers DEF TypeOK
    <2>2. /\ DOMAIN sessions' = 1..n
          /\ sessions'[n].supersessions = {above} \ {0}
          /\ sessions'[n].subsessions = {}
          /\ above = 0 \/ above \in 1..session_counter
      BY <1>2, <2>1 DEF Grows, NewInfo
    <2>3. ASSUME NEW s \in 1..session_counter
          PROVE  /\ sessions'[s].supersessions = sessions[s].supersessions
                 /\ sessions'[s].subsessions =
                      sessions[s].subsessions \cup (IF s = above THEN {n} ELSE {})
      BY <1>2, <2>1 DEF Grows, TypeOK, SessionInfo
    <2> QED BY <2>1, <2>2, <2>3 DEF Forest
  <1> QED BY StepEffect, <1>1, <1>2 DEF Starts, Serves, Idles

\* The supersession and subsession links always describe one forest, in which
\* every session is younger than the one above it.
THEOREM SessionsFormForest == Spec => []Forest
  <1>1. Init => Forest
    BY DEF Init, Forest
  <1> QED BY <1>1, StepForest, IInvHolds, PTL DEF Spec
-----------------------------------------------------------------------------
LEMMA StepChronicle == IInv /\ Forest /\ Chronicle /\ [Next]_vars => Chronicle'
  <1> SUFFICES ASSUME IInv, Forest, Chronicle, [Next]_vars PROVE Chronicle'
    OBVIOUS
  <1> USE DEF IInv
  <1>a. /\ now \in Nat /\ session_counter \in Nat
        /\ DOMAIN sessions = 1..session_counter
        /\ \A s \in DOMAIN sessions :
             /\ sessions[s] \in SessionInfo
             /\ sessions[s].create_time \in Nat
             /\ sessions[s].connections \in Seq(Entry)
             /\ \A i \in DOMAIN sessions[s].connections :
                  sessions[s].connections[i].connect_time \in Nat
    <2>1. now \in Nat /\ session_counter \in Nat /\ DOMAIN sessions = 1..session_counter
      BY BoundsAreNumbers DEF TypeOK
    <2>2. ASSUME NEW s \in DOMAIN sessions
          PROVE  /\ sessions[s] \in SessionInfo
                 /\ sessions[s].create_time \in Nat
                 /\ sessions[s].connections \in Seq(Entry)
      BY BoundsAreNumbers DEF TypeOK, SessionInfo
    <2>3. ASSUME NEW s \in DOMAIN sessions, NEW i \in DOMAIN sessions[s].connections
          PROVE  sessions[s].connections[i].connect_time \in Nat
      <3>1. sessions[s].connections[i] \in Entry
        BY <2>2
      <3> QED BY <3>1, BoundsAreNumbers DEF Entry
    <2> QED BY <2>1, <2>2, <2>3
  <1>1. ASSUME KeepsLinks, ServesOnly({}, 0) PROVE Chronicle'
    <2>1. now <= now' /\ now' \in Nat
      BY <1>1, BoundsAreNumbers, StepIInv DEF KeepsLinks, TypeOK
    <2> QED BY <1>1, <2>1, <1>a DEF KeepsLinks, ServesOnly, Chronicle
  <1>2. ASSUME NEW s \in DOMAIN sessions, NEW c \in Connections, Serves(s, c)
        PROVE  Chronicle'
    <2> DEFINE old == sessions[s].connections
               e   == [connection |-> c, connect_time |-> now,
                       disconnect_time |-> 0]
    <2>1. now <= now' /\ now' \in Nat
      BY <1>2, BoundsAreNumbers, StepIInv DEF Serves, KeepsLinks, TypeOK
    <2>2. /\ DOMAIN sessions' = DOMAIN sessions
          /\ \A t \in DOMAIN sessions :
               /\ sessions'[t].supersessions = sessions[t].supersessions
               /\ sessions'[t].create_time = sessions[t].create_time
               /\ t # s => sessions'[t].connections = sessions[t].connections
          /\ sessions'[s].connections = Append(old, e)
      BY <1>2 DEF Serves, KeepsLinks, ServesOnly
    <2>3. old \in Seq(Entry) /\ e.connect_time = now
      BY <1>a
    <2> HIDE DEF e
    <2>4. /\ Len(Append(old, e)) = Len(old) + 1
          /\ DOMAIN old = 1..Len(old)
          /\ DOMAIN Append(old, e) = 1..(Len(old) + 1)
          /\ \A i \in 1..Len(old) : Append(old, e)[i] = old[i]
          /\ Append(old, e)[Len(old) + 1] = e
      BY <2>3
    <2>5. ASSUME NEW t \in DOMAIN sessions, NEW i \in DOMAIN sessions'[t].connections
          PROVE  /\ sessions'[t].create_time <= sessions'[t].connections[i].connect_time
                 /\ sessions'[t].connections[i].connect_time <= now'
                 /\ \A j \in 1..i : sessions'[t].connections[j].connect_time
                                      <= sessions'[t].connections[i].connect_time
      <3>1. CASE t # s
        <4>1. /\ sessions'[t].create_time = sessions[t].create_time
              /\ sessions'[t].connections = sessions[t].connections
          BY <3>1, <2>2
        <4>2. sessions[t].connections[i].connect_time \in Nat
          BY <4>1, <1>a
        <4>3. /\ sessions[t].create_time <= sessions[t].connections[i].connect_time
              /\ sessions[t].connections[i].connect_time <= now
              /\ \A j \in 1..i : sessions[t].connections[j].connect_time
                                   <= sessions[t].connections[i].connect_time
          BY <4>1 DEF Chronicle
        <4>4. sessions[t].connections[i].connect_time <= now'
          BY <4>2, <4>3, <2>1, <1>a
        <4> QED BY <4>1, <4>3, <4>4
      <3>2. CASE t = s /\ i \in 1..Len(old)
        <4>1. \A j \in 1..i : sessions'[t].connections[j] = old[j]
          BY <3>2, <2>2, <2>3, <2>4
        <4>2. /\ sessions[s].create_time <= old[i].connect_time
              /\ old[i].connect_time <= now
              /\ \A j \in 1..i : old[j].connect_time <= old[i].connect_time
          BY <3>2, <2>4 DEF Chronicle
        <4>3. old[i].connect_time \in Nat
          BY <3>2, <2>4, <1>a
        <4>4. i \in 1..i
          BY <3>2, <2>3
        <4>5. sessions'[t].connections[i] = old[i]
          BY <4>1, <4>4
        <4>6. sessions'[t].create_time = sessions[s].create_time
          BY <3>2, <2>2
        <4>7. old[i].connect_time <= now'
          BY <4>2, <4>3, <2>1, <1>a
        <4> QED BY <4>1, <4>2, <4>5, <4>6, <4>7
      <3>3. CASE t = s /\ i = Len(old) + 1
        <4>1. /\ sessions'[t].connections[i].connect_time = now
              /\ sessions[s].create_time <= now
              /\ \A j \in 1..Len(old) : old[j].connect_time <= now
          BY <3>3, <2>2, <2>3, <2>4 DEF Chronicle
        <4>2. ASSUME NEW j \in 1..i
              PROVE  sessions'[t].connections[j].connect_time <= now
          <5>1. CASE j = i
            BY <5>1, <4>1, <1>a
          <5>2. CASE j \in 1..Len(old)
            BY <5>2, <4>1, <3>3, <2>2, <2>4
          <5> QED BY <5>1, <5>2, <3>3, <2>3
        <4> QED BY <4>1, <4>2, <3>3, <2>1, <2>2, <1>a
      <3> QED BY <3>1, <3>2, <3>3, <2>2, <2>3, <2>4
    <2> QED BY <2>1, <2>2, <2>5, <1>a DEF Chronicle
  <1>3. ASSUME NEW user \in Users, NEW above \in 0..MaxSessions,
               Grows(user, above)
        PROVE  Chronicle'
    <2> DEFINE n == session_counter + 1
    <2>1. /\ DOMAIN sessions' = 1..n /\ now' = now
          /\ above = 0 \/ above \in 1..session_counter
          /\ sessions'[n].supersessions = {above} \ {0}
          /\ sessions'[n].create_time = now
          /\ sessions'[n].connections = <<>>
      BY <1>3, <1>a DEF Grows, NewInfo
    <2>2. ASSUME NEW t \in 1..session_counter
          PROVE  /\ sessions'[t].supersessions = sessions[t].supersessions
                 /\ sessions'[t].create_time = sessions[t].create_time
                 /\ sessions'[t].connections = sessions[t].connections
      BY <1>3, <1>a DEF Grows, SessionInfo
    <2>3. ASSUME NEW t \in 1..n, NEW p \in sessions'[t].supersessions
          PROVE  sessions'[p].create_time <= sessions'[t].create_time
      <3>1. CASE t = n
        BY <3>1, <2>1, <2>2, <1>a DEF Chronicle
      <3>2. CASE t # n
        <4>1. t \in 1..session_counter /\ p \in sessions[t].supersessions
          BY <3>2, <2>2, <1>a
        <4>2. p \in 1..session_counter
          BY <4>1, <1>a DEF Forest
        <4> QED BY <4>1, <4>2, <2>2, <1>a DEF Chronicle
      <3> QED BY <3>1, <3>2
    <2>4. ASSUME NEW t \in 1..n
          PROVE  /\ sessions'[t].create_time <= now'
                 /\ \A i \in DOMAIN sessions'[t].connections :
                      /\ sessions'[t].create_time <= sessions'[t].connections[i].connect_time
                      /\ sessions'[t].connections[i].connect_time <= now'
                      /\ \A j \in 1..i : sessions'[t].connections[j].connect_time
                                          <= sessions'[t].connections[i].connect_time
      <3>1. CASE t = n
        BY <3>1, <2>1, <1>a
      <3>2. CASE t # n
        <4>1. t \in DOMAIN sessions
          BY <3>2, <1>a
        <4>2. /\ sessions'[t].create_time = sessions[t].create_time
              /\ sessions'[t].connections = sessions[t].connections
          BY <4>1, <2>2, <1>a
        <4> QED BY <4>1, <4>2, <2>1 DEF Chronicle
      <3> QED BY <3>1, <3>2
    <2> QED BY <2>1, <2>3, <2>4 DEF Chronicle
  <1> QED BY StepEffect, <1>1, <1>2, <1>3 DEF Starts, Idles

\* The times of a session read as a chronicle in every reachable state.
THEOREM SessionsKeepChronicle == Spec => []Chronicle
  <1>1. Init => Chronicle
    BY DEF Init, Chronicle
  <1> QED BY <1>1, StepChronicle, IInvHolds, SessionsFormForest, PTL DEF Spec

-----------------------------------------------------------------------------
LEMMA StepKept == IInv /\ [Next]_vars => [Kept]_vars
  <1> SUFFICES ASSUME IInv, [Next]_vars PROVE Kept
    OBVIOUS
  <1> USE DEF IInv
  <1>a. /\ session_counter \in Nat /\ DOMAIN sessions = 1..session_counter
        /\ \A s \in DOMAIN sessions :
             /\ sessions[s] \in SessionInfo
             /\ sessions[s].state \in {SESSION_STATE_NEW, SESSION_STATE_RUNNING}
             /\ sessions[s].connections \in Seq(Entry)
    BY BoundsAreNumbers DEF TypeOK, SessionInfo
  <1> USE DEF SESSION_STATE_NEW, SESSION_STATE_RUNNING
  <1>1. ASSUME NEW user \in Users, NEW above \in 0..MaxSessions,
               Grows(user, above)
        PROVE  Kept
    <2>1. ASSUME NEW t \in DOMAIN sessions
          PROVE  /\ t \in DOMAIN sessions'
                 /\ sessions'[t].user = sessions[t].user
                 /\ sessions'[t].supersessions = sessions[t].supersessions
                 /\ sessions[t].subsessions \subseteq sessions'[t].subsessions
                 /\ sessions'[t].state = sessions[t].state
                 /\ sessions'[t].connections = sessions[t].connections
      <3>1. t \in DOMAIN sessions' /\ sessions[t] \in SessionInfo
        BY <1>1, <1>a DEF Grows
      <3>2. \/ sessions'[t] = sessions[t]
            \/ sessions'[t] = [sessions[t] EXCEPT !.subsessions =
                                 @ \cup {session_counter + 1}]
        BY <1>1 DEF Grows
      <3> QED BY <3>1, <3>2 DEF SessionInfo
    <2> QED BY <2>1, <1>a DEF Kept
  <1>2. ASSUME NEW s \in DOMAIN sessions, Starts(s) PROVE Kept
    <2> SUFFICES ASSUME NEW t \in DOMAIN sessions
                 PROVE  /\ sessions[t].state <= sessions'[t].state
                        /\ sessions'[t].connections = sessions[t].connections
      BY <1>2, <1>a DEF Starts, KeepsLinks, Kept
    <2> QED BY <1>2, <1>a DEF Starts, StartsOnly, ServesOnly
  <1>3. ASSUME NEW s \in DOMAIN sessions, NEW c \in Connections, Serves(s, c)
        PROVE  Kept
    <2> SUFFICES ASSUME NEW t \in DOMAIN sessions
                 PROVE  /\ sessions[t].state <= sessions'[t].state
                        /\ Len(sessions[t].connections) <= Len(sessions'[t].connections)
                        /\ \A i \in DOMAIN sessions[t].connections :
                             sessions'[t].connections[i] = sessions[t].connections[i]
      BY <1>3, <1>a DEF Serves, KeepsLinks, Kept
    <2>1. sessions[t].state <= sessions'[t].state
      BY <1>3, <1>a DEF Serves, StartsOnly
    <2>2. CASE t # s
      BY <2>1, <2>2, <1>3, <1>a DEF Serves, ServesOnly
    <2>3. CASE t = s
      <3> DEFINE e == [connection |-> c, connect_time |-> now, disconnect_time |-> 0]
      <3>1. sessions'[t].connections = Append(sessions[t].connections, e)
        BY <2>3, <1>3 DEF Serves, ServesOnly
      <3>2. sessions[t].connections \in Seq(Entry)
        BY <1>a
      <3> HIDE DEF e
      <3> QED BY <2>1, <3>1, <3>2
    <2> QED BY <2>2, <2>3
  <1>4. ASSUME Idles PROVE Kept
    <2> SUFFICES ASSUME NEW t \in DOMAIN sessions
                 PROVE  /\ sessions[t].state <= sessions'[t].state
                        /\ sessions'[t].connections = sessions[t].connections
      BY <1>4, <1>a DEF Idles, KeepsLinks, Kept
    <2> QED BY <1>4, <1>a DEF Idles, StartsOnly, ServesOnly
  <1> QED BY StepEffect, <1>1, <1>2, <1>3, <1>4

\* No call undoes what an earlier one recorded.
THEOREM SessionsUndoNothing == Spec => NothingUndone
  BY IInvHolds, StepKept, PTL DEF Spec, NothingUndone
-----------------------------------------------------------------------------
(* SessionTracker implements SessionLives: Grows is Begin, Starts is       *)
(* Start, Serves is Serve, and Idles changes nothing that is visible.      *)

life == [s \in 1..session_counter |-> LifeOf(s)]

\* A sequence with one more place, and r in it, is the sequence with r appended.
LEMMA ExtendIsAppend ==
  ASSUME NEW n \in Nat, NEW f, f = [i \in 1..n |-> f[i]], NEW r
  PROVE  [i \in 1..(n + 1) |-> IF i = n + 1 THEN r ELSE f[i]] = Append(f, r)
  <1> DEFINE S == {f[i] : i \in 1..n} \cup {r}
             g == [i \in 1..(n + 1) |-> IF i = n + 1 THEN r ELSE f[i]]
  <1>1. f \in [1..n -> S]
    OBVIOUS
  <1>2. f \in Seq(S) /\ Len(f) = n
    <2>1. f \in Seq(S)
      BY <1>1, SeqDef
    <2>2. DOMAIN f = 1..n /\ DOMAIN f = 1..Len(f) /\ Len(f) \in Nat
      BY <1>1, <2>1, LenProperties
    <2> QED BY <2>1, <2>2
  <1>3. r \in S
    OBVIOUS
  <1> HIDE DEF S
  <1>4. /\ Append(f, r) \in Seq(S) /\ Len(Append(f, r)) = n + 1
        /\ \A i \in 1..n : Append(f, r)[i] = f[i]
        /\ Append(f, r)[n + 1] = r
    BY <1>2, <1>3
  <1>5. DOMAIN Append(f, r) = 1..(n + 1)
    BY <1>4, LenProperties
  <1>6. Append(f, r) = [i \in 1..(n + 1) |-> Append(f, r)[i]]
    BY <1>4, <1>5, LenProperties
  <1>7. \A i \in 1..(n + 1) : Append(f, r)[i] = IF i = n + 1 THEN r ELSE f[i]
    BY <1>4
  <1> QED BY <1>6, <1>7

LEMMA StepLives ==
  ASSUME IInv, IInv', Forest, [Next]_vars
  PROVE  [Lives!Next]_life
  <1> USE DEF IInv
  <1>a. /\ session_counter \in Nat /\ DOMAIN sessions = 1..session_counter
        /\ \A s \in DOMAIN sessions :
             /\ sessions[s] \in SessionInfo
             /\ sessions[s].connections \in Seq(Entry)
    BY BoundsAreNumbers DEF TypeOK, SessionInfo
  <1>b. DOMAIN life = 1..session_counter
    BY DEF life
  <1>c. ASSUME NEW s \in DOMAIN sessions,
               sessions'[s].supersessions = sessions[s].supersessions
        PROVE  AboveOf(s)' = AboveOf(s)
    BY <1>c DEF AboveOf
  <1>1. ASSUME NEW user \in Users, NEW above \in 0..MaxSessions,
               Grows(user, above)
        PROVE  Lives!Next
    <2> DEFINE r == [user |-> user, above |-> above,
                     started |-> FALSE, served |-> <<>>]
    <2>0. PICK n \in Nat : n = session_counter + 1
      BY <1>a
    <2>1. /\ session_counter' = n
          /\ above = 0 \/ above \in 1..session_counter
          /\ sessions'[n] = NewInfo(user, above, now)
      BY <1>1, <1>a, <2>0 DEF Grows
    <2>2. AboveOf(n)' = above
      <3>1. sessions'[n].supersessions = {above} \ {0}
        BY <2>1 DEF NewInfo
      <3>2. CASE above = 0
        BY <3>1, <3>2 DEF AboveOf
      <3>3. CASE above # 0
        <4>1. sessions'[n].supersessions = {above}
          BY <3>1, <3>3
        <4>2. (CHOOSE p \in {above} : TRUE) = above
          OBVIOUS
        <4> QED BY <4>1, <4>2 DEF AboveOf
      <3> QED BY <3>2, <3>3
    <2>3. LifeOf(n)' = r
      <3>1. /\ sessions'[n].user = user
            /\ sessions'[n].state = SESSION_STATE_NEW
            /\ sessions'[n].connections = <<>>
        BY <2>1 DEF NewInfo
      <3>2. [i \in 1..Len(sessions'[n].connections) |->
               sessions'[n].connections[i].connection] = <<>>
        BY <3>1
      <3>3. (sessions'[n].state # SESSION_STATE_NEW) = FALSE
        BY <3>1
      <3> QED BY <3>1, <3>2, <3>3, <2>2 DEF LifeOf
    <2>4. ASSUME NEW s \in 1..session_counter PROVE LifeOf(s)' = LifeOf(s)
      <3>1. /\ sessions'[s].user = sessions[s].user
            /\ sessions'[s].supersessions = sessions[s].supersessions
            /\ sessions'[s].state = sessions[s].state
            /\ sessions'[s].connections = sessions[s].connections
        BY <1>1, <1>a DEF Grows, SessionInfo
      <3> QED BY <3>1, <1>c, <1>a DEF LifeOf
    <2>5. life' = [s \in 1..n |-> IF s = n THEN r ELSE life[s]]
      BY <2>0, <2>1, <2>3, <2>4, <1>a DEF life
    <2> HIDE DEF r
    <2>6. life' = Append(life, r)
      <3>1. life = [s \in 1..session_counter |-> life[s]]
        BY DEF life
      <3>2. life' = [s \in 1..(session_counter + 1) |->
                       IF s = session_counter + 1 THEN r ELSE life[s]]
        BY <2>0, <2>5
      <3> HIDE DEF life
      <3> QED BY <3>1, <3>2, <1>a, ExtendIsAppend
    <2> QED BY <2>6, <2>1, <1>b
               DEF Lives!Next, Lives!Begin, Lives!SessionsSoFar, r, life
  <1>2. ASSUME NEW s \in DOMAIN sessions, Starts(s)
        PROVE  Lives!Next
    <2>1. ASSUME NEW t \in 1..session_counter
          PROVE  LifeOf(t)' = IF t = s THEN [LifeOf(t) EXCEPT !.started = TRUE]
                                       ELSE LifeOf(t)
      <3>1. /\ sessions'[t].user = sessions[t].user
            /\ AboveOf(t)' = AboveOf(t)
            /\ sessions'[t].connections = sessions[t].connections
        BY <1>2, <1>a, <1>c DEF Starts, KeepsLinks, ServesOnly
      <3>2. (sessions'[t].state # SESSION_STATE_NEW)
              = (IF t = s THEN TRUE ELSE sessions[t].state # SESSION_STATE_NEW)
        <4>1. sessions'[t].state = IF t = s THEN SESSION_STATE_RUNNING ELSE sessions[t].state
          BY <1>2, <1>a DEF Starts, StartsOnly
        <4>2. CASE t = s
          <5>1. (sessions'[t].state # SESSION_STATE_NEW) = TRUE
            BY <4>1, <4>2 DEF SESSION_STATE_NEW, SESSION_STATE_RUNNING
          <5> QED BY <5>1, <4>2
        <4>3. CASE t # s
          BY <4>1, <4>3
        <4> QED BY <4>2, <4>3
      <3> QED BY <3>1, <3>2 DEF LifeOf
    <2>2. life' = [life EXCEPT ![s].started = TRUE]
      BY <2>1, <1>2, <1>a DEF life, Starts, KeepsLinks
    <2> QED BY <2>2, <1>a, <1>b
               DEF Lives!Next, Lives!Start, Lives!SessionsSoFar, life
  <1>3. ASSUME NEW s \in DOMAIN sessions, NEW c \in Connections, Serves(s, c)
        PROVE  Lives!Next
    <2> DEFINE served(t) == [i \in 1..Len(sessions[t].connections) |->
                               sessions[t].connections[i].connection]
    <2>1. served(s)' = Append(served(s), c)
      <3> DEFINE old == sessions[s].connections
                 e   == [connection |-> c, connect_time |-> now,
                         disconnect_time |-> 0]
      <3>1. sessions'[s].connections = Append(old, e)
        BY <1>3 DEF Serves, ServesOnly
      <3>2. old \in Seq(Entry) /\ e.connection = c
        BY <1>a
      <3> HIDE DEF e
      <3>3. /\ Len(Append(old, e)) = Len(old) + 1
            /\ \A i \in 1..Len(old) : Append(old, e)[i] = old[i]
            /\ Append(old, e)[Len(old) + 1] = e
        BY <3>2
      <3> DEFINE f == [i \in 1..Len(old) |-> old[i].connection]
      <3>4. [i \in 1..(Len(old) + 1) |-> Append(old, e)[i].connection]
              = [i \in 1..(Len(old) + 1) |-> IF i = Len(old) + 1 THEN c ELSE f[i]]
        BY <3>2, <3>3
      <3>5. Append(f, c) = [i \in 1..(Len(old) + 1) |->
                              IF i = Len(old) + 1 THEN c ELSE f[i]]
        BY <3>2
      <3> QED BY <3>1, <3>3, <3>4, <3>5
    <2>2. ASSUME NEW t \in 1..session_counter
          PROVE  LifeOf(t)' = IF t = s THEN [LifeOf(t) EXCEPT !.served = Append(@, c)]
                                       ELSE LifeOf(t)
      <3>1. /\ sessions'[t].user = sessions[t].user
            /\ AboveOf(t)' = AboveOf(t)
            /\ sessions'[t].state = sessions[t].state
        BY <1>3, <1>a, <1>c DEF Serves, KeepsLinks, StartsOnly
      <3>2. served(t)' = IF t = s THEN Append(served(t), c) ELSE served(t)
        BY <1>3, <1>a, <2>1 DEF Serves, ServesOnly
      <3> QED BY <3>1, <3>2 DEF LifeOf
    <2>3. life' = [life EXCEPT ![s].served = Append(@, c)]
      BY <2>2, <1>3, <1>a DEF life, Serves, KeepsLinks
    <2> QED BY <2>3, <1>a, <1>b
               DEF Lives!Next, Lives!Serve, Lives!SessionsSoFar, life
  <1>4. ASSUME Idles PROVE UNCHANGED life
    BY <1>4, <1>a, <1>c
       DEF Idles, KeepsLinks, StartsOnly, ServesOnly, LifeOf, life
  <1> QED BY StepEffect, <1>1, <1>2, <1>3, <1>4

\* The tracker implements the abstract registry of SessionLives.
THEOREM TrackerImplementsLives == Spec => LivesSpec
  <1>1. Init => Lives!Init
    BY DEF Init, Lives!Init
  <1>2. IInv /\ IInv' /\ Forest /\ [Next]_vars => [Lives!Next]_life
    BY StepLives
  <1> QED BY <1>1, <1>2, IInvHolds, SessionsFormForest, PTL
      DEF Spec, LivesSpec, Lives!Spec, life
=============================================================================
