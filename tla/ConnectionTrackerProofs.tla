---------------------- MODULE ConnectionTrackerProofs ----------------------
(***************************************************************************)
(* Theorems about ConnectionTracker, for every set of lines, objects and   *)
(* options and every bound on the connections.                             *)
(*                                                                         *)
(* FollowsExec is not inductive: exec switches one connection id, so it    *)
(* has to be the only one made for the line (OneIdPerLogin), which in turn *)
(* needs the index to agree with the driver (IndexMatchesLines).           *)
(***************************************************************************)
EXTENDS ConnectionTracker, TLAPS

IInv == /\ TypeOK
        /\ FollowsExec
        /\ IndexMatchesLines
        /\ ClientsNotMixedUp
        /\ OneIdPerLogin

-----------------------------------------------------------------------------
LEMMA InitIInv == Init => IInv
  <1> SUFFICES ASSUME Init PROVE IInv
    OBVIOUS
  <1>1. /\ DOMAIN connections = 1..0 /\ DOMAIN line_of = 1..0
        /\ DOMAIN interactives = {} /\ gone = {} /\ connection_counter = 0
        /\ holds = [ob \in Objects |-> 0] /\ moved_on = {}
    BY DEF Init
  <1>2. TypeOK
    <2>1. line_of \in [1..connection_counter -> Lines]
      BY DEF Init
    <2> QED BY <1>1, <2>1, BoundIsANumber DEF TypeOK
  <1> QED BY <1>1, <1>2 DEF IInv, FollowsExec, IndexMatchesLines,
          ClientsNotMixedUp, OneIdPerLogin, interactive, Objects

\* A command leaves the object of a record alone and stores nothing but the
\* value it carries.
LEMMA NegotiatedType ==
  ASSUME NEW state \in ConnectionState, NEW cmd \in Commands,
         NEW opt \in Options, NEW value \in Lines \cup {0}
  PROVE  /\ Negotiated(state, cmd, opt, value) \in ConnectionState
         /\ Negotiated(state, cmd, opt, value).interactive = state.interactive
         /\ \A o \in Options :
              Negotiated(state, cmd, opt, value).info[o] \in {state.info[o], value}
  <1>1. CASE cmd = "SB" /\ value # 0
    BY <1>1 DEF Negotiated, ConnectionState
  <1>2. CASE cmd = "WILL" \/ (cmd = "SB" /\ value = 0)
    BY <1>2 DEF Negotiated, ConnectionState
  <1>3. CASE ~(cmd = "SB" /\ value # 0) /\ ~(cmd = "WILL" \/ (cmd = "SB" /\ value = 0))
    BY <1>3 DEF Negotiated, ConnectionState
  <1> QED BY <1>1, <1>2, <1>3

\* Naming another object, or none, and noting a request keep the shape.
LEMMA UpdatedType ==
  ASSUME NEW state \in ConnectionState, NEW ob \in Objects \cup {0},
         NEW opt \in Options
  PROVE  /\ [state EXCEPT !.interactive = ob] \in ConnectionState
         /\ [state EXCEPT !.negotiation_pending = @ \cup {opt}] \in ConnectionState
  BY DEF ConnectionState

\* A fresh record knows nothing of its client.
LEMMA NewStateType ==
  ASSUME NEW ob \in Objects, NEW asked \in SUBSET Options
  PROVE  /\ NewState(ob) \in ConnectionState /\ NewState(ob).interactive = ob
         /\ [NewState(ob) EXCEPT !.negotiation_pending = asked] \in ConnectionState
         /\ \A o \in Options : NewState(ob).info[o] = 0
  BY DEF NewState, ConnectionState

-----------------------------------------------------------------------------
LEMMA StepIInv == IInv /\ [Next]_vars => IInv'
  <1> SUFFICES ASSUME IInv, [Next]_vars PROVE IInv'
    OBVIOUS
  <1> USE ZeroIsNull, LoginsAreNoBodies, TerminalIsAnOption, BoundIsANumber DEF IInv, Objects
  <1>1. ASSUME NEW line \in Lines, NEW login \in Logins, logon(line, login)
        PROVE  IInv'
    <2>0. /\ moved_on' = moved_on
          /\ holds' = [o \in Objects |-> IF o = login THEN line ELSE holds[o]]
          /\ DOMAIN line_of' = DOMAIN line_of \cup {connection_counter + 1}
          /\ \A c \in DOMAIN line_of' :
               line_of'[c] = IF c = connection_counter + 1 THEN line ELSE line_of[c]
          /\ DOMAIN connections' = DOMAIN connections \cup {connection_counter + 1}
          /\ \A c \in DOMAIN connections \ {connection_counter + 1} :
               connections'[c] = connections[c]
          /\ connections'[connection_counter + 1].interactive = login
      BY <1>1 DEF TypeOK, logon, new_connection, With, NewState
    <2>1. TypeOK'
      <3>1. /\ connection_counter' \in 0..MaxConnections
            /\ DOMAIN connections' = 1..connection_counter'
        BY <1>1 DEF TypeOK, logon, new_connection, With
      <3>2. \A c \in DOMAIN connections' : connections'[c] \in ConnectionState
        BY <1>1, NegotiatedType, NewStateType
           DEF TypeOK, logon, new_connection, With
      <3>3. /\ DOMAIN interactives' \subseteq Objects \ gone'
            /\ \A o \in DOMAIN interactives' : interactives'[o] \in DOMAIN connections'
        BY <1>1 DEF TypeOK, logon, new_connection, With
      <3>4. /\ holds' \in [Objects -> Lines \cup {0}]
            /\ gone' \subseteq Objects /\ moved_on' \subseteq Lines
        BY <1>1 DEF TypeOK, logon, new_connection, With
      <3>5. line_of' \in [1..connection_counter' -> Lines]
        BY <1>1 DEF TypeOK, logon, new_connection, With
      <3>6. /\ \A o, p \in Objects : holds'[o] = holds'[p] /\ holds'[o] # 0 => o = p
            /\ \A o \in gone' : holds'[o] = 0
        BY <1>1 DEF TypeOK, logon, new_connection, With
      <3>7. \A o \in Objects :
              holds'[o] # 0 => \E c \in DOMAIN line_of' : line_of'[c] = holds'[o]
        <4> SUFFICES ASSUME NEW o \in Objects, holds'[o] # 0
                     PROVE  \E c \in DOMAIN line_of' : line_of'[c] = holds'[o]
          OBVIOUS
        <4>1. CASE o = login
          <5>1. /\ connection_counter + 1 \in DOMAIN line_of'
                /\ line_of'[connection_counter + 1] = holds'[o]
            BY <2>0, <4>1
          <5> QED BY <5>1
        <4>2. CASE o # login
          <5>1. PICK c \in DOMAIN line_of : line_of[c] = holds[o]
            BY <2>0, <4>2 DEF TypeOK
          <5>2. c \in DOMAIN line_of' /\ line_of'[c] = holds'[o]
            BY <2>0, <4>2, <5>1 DEF TypeOK
          <5> QED BY <5>2
        <4> QED BY <4>1, <4>2
      <3> QED BY <3>1, <3>2, <3>3, <3>4, <3>5, <3>6, <3>7 DEF TypeOK
    <2>2. FollowsExec'
      <3> SUFFICES ASSUME NEW c \in DOMAIN connections', NEW o \in Objects,
                          holds'[o] = line_of'[c], line_of'[c] \notin moved_on'
                   PROVE  connections'[c].interactive = o
        BY DEF FollowsExec
      <3>1. CASE c = connection_counter + 1
        <4>1. line_of'[c] = line /\ connections'[c].interactive = login
          BY <2>0, <3>1
        <4>2. o = login
          <5> SUFFICES ASSUME o # login PROVE FALSE
            OBVIOUS
          <5>1. holds[o] = line /\ holds[o] # 0
            BY <2>0, <4>1
          <5>2. PICK d \in DOMAIN line_of : line_of[d] = holds[o]
            BY <5>1 DEF TypeOK
          <5> QED BY <1>1, <5>1, <5>2 DEF logon
        <4> QED BY <4>1, <4>2
      <3>2. CASE c # connection_counter + 1
        <4>1. /\ c \in DOMAIN connections /\ c \in DOMAIN line_of
              /\ line_of'[c] = line_of[c] /\ connections'[c] = connections[c]
          BY <2>0, <3>2 DEF TypeOK
        <4>2. o # login
          BY <1>1, <2>0, <4>1 DEF logon
        <4> QED BY <2>0, <4>1, <4>2 DEF FollowsExec
      <3> QED BY <3>1, <3>2
    <2>3. IndexMatchesLines'
      BY <1>1
         DEF TypeOK, IndexMatchesLines, logon, new_connection, With, NewState
    <2>4. ClientsNotMixedUp'
      BY <1>1, NegotiatedType, NewStateType
         DEF TypeOK, ClientsNotMixedUp, IndexMatchesLines, logon,
             new_connection, With, NewState
    <2>5. OneIdPerLogin'
      BY <1>1
         DEF TypeOK, OneIdPerLogin, IndexMatchesLines, interactive, logon,
             new_connection, With, NewState
    <2> QED BY <2>1, <2>2, <2>3, <2>4, <2>5
  <1>2. ASSUME NEW from \in Objects, NEW body \in Bodies, exec(from, body)
        PROVE  IInv'
    <2>0. /\ from # body /\ holds[from] # 0 /\ holds[body] = 0
          /\ holds' = [o \in Objects |-> IF o = body THEN holds[from]
                                         ELSE IF o = from THEN 0 ELSE holds[o]]
      BY <1>2 DEF exec, interactive, TypeOK
    <2>1. TypeOK'
      <3>1. /\ connection_counter' \in 0..MaxConnections
            /\ DOMAIN connections' = 1..connection_counter'
        BY <1>2
           DEF TypeOK, exec, switch, Switched, query_connection, interactive
      <3>2. \A c \in DOMAIN connections' : connections'[c] \in ConnectionState
        <4>1. ASSUME NEW c \in DOMAIN connections
              PROVE  /\ connections[c] \in ConnectionState
                     /\ [connections[c] EXCEPT !.interactive = body] \in ConnectionState
          <5>1. connections[c] \in ConnectionState
            BY DEF TypeOK
          <5> QED BY <5>1, UpdatedType
        <4>2. \A c \in DOMAIN connections' :
                /\ c \in DOMAIN connections
                /\ connections'[c] \in {connections[c],
                                        [connections[c] EXCEPT !.interactive = body]}
          BY <1>2 DEF exec, switch, Switched
        <4> QED BY <4>1, <4>2
      <3>3. /\ DOMAIN interactives' \subseteq Objects \ gone'
            /\ \A o \in DOMAIN interactives' : interactives'[o] \in DOMAIN connections'
        BY <1>2
           DEF TypeOK, exec, switch, Switched, query_connection, interactive
      <3>4. /\ holds' \in [Objects -> Lines \cup {0}]
            /\ gone' \subseteq Objects /\ moved_on' \subseteq Lines
        BY <1>2
           DEF TypeOK, exec, switch, Switched, query_connection, interactive
      <3>5. line_of' \in [1..connection_counter' -> Lines]
        BY <1>2
           DEF TypeOK, exec, switch, Switched, query_connection, interactive
      <3>6. /\ \A o, p \in Objects : holds'[o] = holds'[p] /\ holds'[o] # 0 => o = p
            /\ \A o \in gone' : holds'[o] = 0
        BY <1>2
           DEF TypeOK, exec, switch, Switched, query_connection, interactive
      <3>7. \A o \in Objects :
              holds'[o] # 0 => \E c \in DOMAIN line_of' : line_of'[c] = holds'[o]
        <4>1. line_of' = line_of
          BY <1>2 DEF exec
        <4> QED BY <2>0, <4>1 DEF TypeOK
      <3> QED BY <3>1, <3>2, <3>3, <3>4, <3>5, <3>6, <3>7 DEF TypeOK
    <2>2. FollowsExec'
      <3> SUFFICES ASSUME NEW c \in DOMAIN connections, NEW ob \in Objects,
                          holds'[ob] = line_of[c], line_of[c] \notin moved_on'
                   PROVE  connections'[c].interactive = ob
        BY <1>2 DEF FollowsExec, exec, switch, Switched
      <3> DEFINE k == query_connection(interactives, from)
      <3>1. /\ line_of[c] \in Lines /\ line_of[c] \notin moved_on
            /\ k \in DOMAIN connections <=> from \in DOMAIN interactives
            /\ connections[c] \in ConnectionState
        BY <1>2 DEF TypeOK, exec, query_connection
      <3>2. /\ c # k => connections'[c] = connections[c]
            /\ c = k => connections'[c].interactive = body
        BY <1>2, <3>1 DEF exec, switch, Switched, ConnectionState
      <3>3. CASE ob = body
        <4>1. from \in Logins /\ line_of[c] = holds[from]
          BY <1>2, <2>0, <3>3 DEF exec
        <4>2. c = k
          BY <1>2, <4>1 DEF exec, OneIdPerLogin, query_connection
        <4> QED BY <3>2, <3>3, <4>2
      <3>4. CASE ob # body
        <4>1. ob # from /\ holds[ob] = line_of[c]
          BY <2>0, <3>1, <3>4
        <4>2. connections[c].interactive = ob
          BY <3>1, <4>1 DEF FollowsExec
        <4>3. c # k
          <5>1. ASSUME c = k PROVE holds[from] = line_of[c]
            BY <2>0, <3>1, <5>1 DEF IndexMatchesLines, query_connection
          <5> QED BY <2>0, <4>1, <5>1 DEF TypeOK
        <4> QED BY <3>2, <4>2, <4>3
      <3> QED BY <3>3, <3>4
    <2>3. IndexMatchesLines'
      BY <1>2
         DEF TypeOK, IndexMatchesLines, exec, switch, Switched,
             query_connection, interactive
    <2>4. ClientsNotMixedUp'
      BY <1>2, NegotiatedType, NewStateType
         DEF TypeOK, ClientsNotMixedUp, IndexMatchesLines, exec, switch,
             Switched, query_connection, interactive
    <2>5. OneIdPerLogin'
      BY <1>2
         DEF TypeOK, OneIdPerLogin, IndexMatchesLines, interactive, exec,
             switch, Switched, query_connection
    <2> QED BY <2>1, <2>2, <2>3, <2>4, <2>5
  <1>3. ASSUME NEW ob \in Objects, NEW cmd \in Commands, NEW opt \in Options, NEW value \in {0, holds[ob]},
               negotiation_of_tracked(ob, cmd, opt, value)
        PROVE  IInv'
    <2>1. TypeOK'
      <3>1. /\ connection_counter' \in 0..MaxConnections
            /\ DOMAIN connections' = 1..connection_counter'
        BY <1>3 DEF TypeOK, negotiation_of_tracked, interactive
      <3>2. \A c \in DOMAIN connections' : connections'[c] \in ConnectionState
        BY <1>3, NegotiatedType, NewStateType
           DEF TypeOK, negotiation_of_tracked, interactive
      <3>3. /\ DOMAIN interactives' \subseteq Objects \ gone'
            /\ \A o \in DOMAIN interactives' : interactives'[o] \in DOMAIN connections'
        BY <1>3 DEF TypeOK, negotiation_of_tracked, interactive
      <3>4. /\ holds' \in [Objects -> Lines \cup {0}]
            /\ gone' \subseteq Objects /\ moved_on' \subseteq Lines
        BY <1>3 DEF TypeOK, negotiation_of_tracked, interactive
      <3>5. line_of' \in [1..connection_counter' -> Lines]
        BY <1>3 DEF TypeOK, negotiation_of_tracked, interactive
      <3>6. /\ \A o, p \in Objects : holds'[o] = holds'[p] /\ holds'[o] # 0 => o = p
            /\ \A o \in gone' : holds'[o] = 0
        BY <1>3 DEF TypeOK, negotiation_of_tracked, interactive
      <3>7. \A o \in Objects :
              holds'[o] # 0 => \E c \in DOMAIN line_of' : line_of'[c] = holds'[o]
        BY <1>3 DEF TypeOK, negotiation_of_tracked, interactive
      <3> QED BY <3>1, <3>2, <3>3, <3>4, <3>5, <3>6, <3>7 DEF TypeOK
    <2>2. FollowsExec'
      BY <1>3, NegotiatedType
         DEF TypeOK, FollowsExec, OneIdPerLogin, IndexMatchesLines,
             negotiation_of_tracked, interactive
    <2>3. IndexMatchesLines'
      BY <1>3 DEF TypeOK, IndexMatchesLines, negotiation_of_tracked, interactive
    <2>4. ClientsNotMixedUp'
      BY <1>3, NegotiatedType, NewStateType
         DEF TypeOK, ClientsNotMixedUp, IndexMatchesLines,
             negotiation_of_tracked, interactive
    <2>5. OneIdPerLogin'
      BY <1>3
         DEF TypeOK, OneIdPerLogin, IndexMatchesLines, interactive,
             negotiation_of_tracked
    <2> QED BY <2>1, <2>2, <2>3, <2>4, <2>5
  <1>4. ASSUME NEW ob \in Objects, NEW cmd \in Commands, NEW opt \in Options, NEW value \in {0, holds[ob]},
               negotiation_of_untracked(ob, cmd, opt, value)
        PROVE  IInv'
    <2>1. TypeOK'
      <3>1. /\ connection_counter' \in 0..MaxConnections
            /\ DOMAIN connections' = 1..connection_counter'
        BY <1>4 DEF TypeOK, negotiation_of_untracked, interactive, With
      <3>2. \A c \in DOMAIN connections' : connections'[c] \in ConnectionState
        BY <1>4, NegotiatedType, NewStateType
           DEF TypeOK, negotiation_of_untracked, interactive, With
      <3>3. /\ DOMAIN interactives' \subseteq Objects \ gone'
            /\ \A o \in DOMAIN interactives' : interactives'[o] \in DOMAIN connections'
        BY <1>4 DEF TypeOK, negotiation_of_untracked, interactive, With
      <3>4. /\ holds' \in [Objects -> Lines \cup {0}]
            /\ gone' \subseteq Objects /\ moved_on' \subseteq Lines
        BY <1>4 DEF TypeOK, negotiation_of_untracked, interactive, With
      <3>5. line_of' \in [1..connection_counter' -> Lines]
        BY <1>4 DEF TypeOK, negotiation_of_untracked, interactive, With
      <3>6. /\ \A o, p \in Objects : holds'[o] = holds'[p] /\ holds'[o] # 0 => o = p
            /\ \A o \in gone' : holds'[o] = 0
        BY <1>4 DEF TypeOK, negotiation_of_untracked, interactive, With
      <3>7. \A o \in Objects :
              holds'[o] # 0 => \E c \in DOMAIN line_of' : line_of'[c] = holds'[o]
        BY <1>4 DEF TypeOK, negotiation_of_untracked, interactive, With
      <3> QED BY <3>1, <3>2, <3>3, <3>4, <3>5, <3>6, <3>7 DEF TypeOK
    <2>2. FollowsExec'
      <3> DEFINE k == connection_counter + 1
                 r == Negotiated(NewState(ob), cmd, opt, value)
      <3>1. r.interactive = ob
        <4>1. value \in Lines \cup {0}
          BY DEF TypeOK
        <4>2. NewState(ob) \in ConnectionState /\ NewState(ob).interactive = ob
          BY NewStateType
        <4> QED BY <4>1, <4>2, NegotiatedType
      <3> HIDE DEF r
      <3>2. /\ connections' = [c \in 1..k |-> IF c = k THEN r ELSE connections[c]]
            /\ line_of' = [c \in 1..k |-> IF c = k THEN holds[ob] ELSE line_of[c]]
            /\ holds' = holds
        BY <1>4 DEF TypeOK, negotiation_of_untracked, With, r
      <3> QED BY <1>4, <3>1, <3>2
                 DEF TypeOK, FollowsExec, negotiation_of_untracked, interactive
    <2>3. IndexMatchesLines'
      BY <1>4
         DEF TypeOK, IndexMatchesLines, negotiation_of_untracked, interactive,
             With
    <2>4. ClientsNotMixedUp'
      <3> DEFINE k == connection_counter + 1
                 r == Negotiated(NewState(ob), cmd, opt, value)
      <3>1. \A o \in Options : r.info[o] \in {0, holds[ob]}
        <4>1. value \in Lines \cup {0}
          BY DEF TypeOK
        <4>2. NewState(ob) \in ConnectionState
          BY NewStateType
        <4>3. \A o \in Options : r.info[o] \in {NewState(ob).info[o], value}
          BY <4>1, <4>2, NegotiatedType
        <4>4. \A o \in Options : NewState(ob).info[o] = 0
          BY NewStateType
        <4> QED BY <4>3, <4>4
      <3> HIDE DEF r
      <3>2. /\ connections' = [c \in 1..k |-> IF c = k THEN r ELSE connections[c]]
            /\ line_of' = [c \in 1..k |-> IF c = k THEN holds[ob] ELSE line_of[c]]
        BY <1>4 DEF TypeOK, negotiation_of_untracked, With, r
      <3> QED BY <3>1, <3>2 DEF TypeOK, ClientsNotMixedUp
    <2>5. OneIdPerLogin'
      BY <1>4
         DEF TypeOK, OneIdPerLogin, IndexMatchesLines, interactive,
             negotiation_of_untracked, With
    <2> QED BY <2>1, <2>2, <2>3, <2>4, <2>5
  <1>5. ASSUME NEW ob \in Objects, NEW opt \in Options, telnet_get(ob, opt)
        PROVE  IInv'
    <2>1. TypeOK'
      <3> DEFINE k == interactives[ob]
      <3>1. /\ k \in DOMAIN connections
            /\ connections' = [connections EXCEPT ![k].negotiation_pending = @ \cup {opt}]
        BY <1>5 DEF TypeOK, telnet_get, Asked
      <3>2. [connections[k] EXCEPT !.negotiation_pending = @ \cup {opt}] \in ConnectionState
        <4>1. connections[k] \in ConnectionState
          BY <3>1 DEF TypeOK
        <4> QED BY <4>1, UpdatedType
      <3> QED BY <1>5, <3>1, <3>2 DEF TypeOK, telnet_get
    <2>2. FollowsExec'
      BY <1>5, NegotiatedType
         DEF TypeOK, FollowsExec, OneIdPerLogin, IndexMatchesLines, telnet_get,
             Asked, interactive
    <2>3. IndexMatchesLines'
      BY <1>5 DEF TypeOK, IndexMatchesLines, telnet_get, Asked, interactive
    <2>4. ClientsNotMixedUp'
      BY <1>5, NegotiatedType, NewStateType
         DEF TypeOK, ClientsNotMixedUp, IndexMatchesLines, telnet_get, Asked,
             interactive
    <2>5. OneIdPerLogin'
      BY <1>5
         DEF TypeOK, OneIdPerLogin, IndexMatchesLines, interactive, telnet_get,
             Asked
    <2> QED BY <2>1, <2>2, <2>3, <2>4, <2>5
  <1>6. ASSUME NEW ob \in Objects, hang_up(ob)
        PROVE  IInv'
    <2>1. TypeOK'
      <3>1. /\ connection_counter' \in 0..MaxConnections
            /\ DOMAIN connections' = 1..connection_counter'
        BY <1>6 DEF TypeOK, hang_up, tracked, interactive
      <3>2. \A c \in DOMAIN connections' : connections'[c] \in ConnectionState
        BY <1>6, NegotiatedType, NewStateType
           DEF TypeOK, hang_up, tracked, interactive
      <3>3. /\ DOMAIN interactives' \subseteq Objects \ gone'
            /\ \A o \in DOMAIN interactives' : interactives'[o] \in DOMAIN connections'
        BY <1>6 DEF TypeOK, hang_up, tracked, interactive
      <3>4. /\ holds' \in [Objects -> Lines \cup {0}]
            /\ gone' \subseteq Objects /\ moved_on' \subseteq Lines
        BY <1>6 DEF TypeOK, hang_up, tracked, interactive
      <3>5. line_of' \in [1..connection_counter' -> Lines]
        BY <1>6 DEF TypeOK, hang_up, tracked, interactive
      <3>6. /\ \A o, p \in Objects : holds'[o] = holds'[p] /\ holds'[o] # 0 => o = p
            /\ \A o \in gone' : holds'[o] = 0
        BY <1>6 DEF TypeOK, hang_up, tracked, interactive
      <3>7. \A o \in Objects :
              holds'[o] # 0 => \E c \in DOMAIN line_of' : line_of'[c] = holds'[o]
        BY <1>6 DEF TypeOK, hang_up, tracked, interactive
      <3> QED BY <3>1, <3>2, <3>3, <3>4, <3>5, <3>6, <3>7 DEF TypeOK
    <2>2. FollowsExec'
      BY <1>6, NegotiatedType
         DEF TypeOK, FollowsExec, OneIdPerLogin, IndexMatchesLines, hang_up,
             tracked, interactive
    <2>3. IndexMatchesLines'
      BY <1>6 DEF TypeOK, IndexMatchesLines, hang_up, tracked, interactive
    <2>4. ClientsNotMixedUp'
      BY <1>6, NegotiatedType, NewStateType
         DEF TypeOK, ClientsNotMixedUp, IndexMatchesLines, hang_up, tracked,
             interactive
    <2>5. OneIdPerLogin'
      BY <1>6
         DEF TypeOK, OneIdPerLogin, IndexMatchesLines, interactive, hang_up,
             tracked
    <2> QED BY <2>1, <2>2, <2>3, <2>4, <2>5
  <1>7. ASSUME NEW ob \in Objects, destruct(ob)
        PROVE  IInv'
    <2>1. TypeOK'
      <3>1. /\ connection_counter' \in 0..MaxConnections
            /\ DOMAIN connections' = 1..connection_counter'
        BY <1>7 DEF TypeOK, destruct
      <3>2. \A c \in DOMAIN connections' : connections'[c] \in ConnectionState
        <4>1. ASSUME NEW c \in DOMAIN connections
              PROVE  /\ connections[c] \in ConnectionState
                     /\ [connections[c] EXCEPT !.interactive = 0] \in ConnectionState
          <5>1. connections[c] \in ConnectionState
            BY DEF TypeOK
          <5> QED BY <5>1, UpdatedType
        <4> QED BY <4>1, <1>7 DEF destruct
      <3>3. /\ DOMAIN interactives' \subseteq Objects \ gone'
            /\ \A o \in DOMAIN interactives' : interactives'[o] \in DOMAIN connections'
        BY <1>7 DEF TypeOK, destruct
      <3>4. /\ holds' \in [Objects -> Lines \cup {0}]
            /\ gone' \subseteq Objects /\ moved_on' \subseteq Lines
        BY <1>7 DEF TypeOK, destruct
      <3>5. line_of' \in [1..connection_counter' -> Lines]
        BY <1>7 DEF TypeOK, destruct
      <3>6. /\ \A o, p \in Objects : holds'[o] = holds'[p] /\ holds'[o] # 0 => o = p
            /\ \A o \in gone' : holds'[o] = 0
        BY <1>7 DEF TypeOK, destruct
      <3>7. \A o \in Objects :
              holds'[o] # 0 => \E c \in DOMAIN line_of' : line_of'[c] = holds'[o]
        BY <1>7 DEF TypeOK, destruct
      <3> QED BY <3>1, <3>2, <3>3, <3>4, <3>5, <3>6, <3>7 DEF TypeOK
    <2>2. FollowsExec'
      BY <1>7, NegotiatedType
         DEF TypeOK, FollowsExec, OneIdPerLogin, IndexMatchesLines, destruct
    <2>3. IndexMatchesLines'
      BY <1>7 DEF TypeOK, IndexMatchesLines, destruct
    <2>4. ClientsNotMixedUp'
      BY <1>7, NegotiatedType, NewStateType
         DEF TypeOK, ClientsNotMixedUp, IndexMatchesLines, destruct
    <2>5. OneIdPerLogin'
      BY <1>7
         DEF TypeOK, OneIdPerLogin, IndexMatchesLines, interactive, destruct
    <2> QED BY <2>1, <2>2, <2>3, <2>4, <2>5
  <1>8. CASE UNCHANGED vars
    BY <1>8 DEF vars, TypeOK, FollowsExec, IndexMatchesLines,
       ClientsNotMixedUp, OneIdPerLogin, interactive
  <1> QED BY <1>1, <1>2, <1>3, <1>4, <1>5, <1>6, <1>7, <1>8 DEF Next, Receive

LEMMA IInvHolds == Spec => []IInv
  BY InitIInv, StepIInv, PTL DEF Spec

\* Type correctness, and the driver's part of the environment.
THEOREM TypeCorrect == Spec => []TypeOK
  BY IInvHolds, PTL DEF IInv

\* As long as a line is up, every connection id made for it names the object
\* that holds it, across exec and whatever other clients do.
THEOREM TrackerFollowsExec == Spec => []FollowsExec
  BY IInvHolds, PTL DEF IInv

\* The index by object never points at another client's connection.
THEOREM IndexIsSound == Spec => []IndexMatchesLines
  BY IInvHolds, PTL DEF IInv

\* What is recorded of a client was said by that client.
THEOREM ClientsStayApart == Spec => []ClientsNotMixedUp
  BY IInvHolds, PTL DEF IInv

\* Until exec, a client has exactly one connection id.
THEOREM LoginHasOneId == Spec => []OneIdPerLogin
  BY IInvHolds, PTL DEF IInv
=============================================================================
