-------------------------- MODULE RegistrationProofs --------------------------
(***************************************************************************)
(* Proofs about Registration, for any clients, usernames and bounds: lines *)
(* reach sessions, masters match, accounts agree, what failed stays so, and*)
(* sessions run from the top.                                              *)
(*                                                                         *)
(* Whatever way the command ends, it adds one session or two and no more   *)
(* avatars than these, and does nothing to those there are: that is        *)
(* Outcome, proved of every way.  The invariant is then kept by what is    *)
(* said of the new ones.                                                   *)
(***************************************************************************)
EXTENDS Registration, SequenceTheorems, FunctionTheorems, FiniteSetTheorems, TLAPS

NEW_ == ST!SESSION_STATE_NEW

RUNNING == ST!SESSION_STATE_RUNNING

IsInfo(r) ==
  DOMAIN r = {"user", "state", "create_time", "avatar", "subsessions",
              "supersessions", "connections"}

IsAvatar(r) == DOMAIN r = {"master", "slaves"}

SessionsOK ==
  /\ session_counter \in Nat /\ DOMAIN sessions = 1..session_counter
  /\ \A s \in DOMAIN sessions :
       /\ IsInfo(sessions[s]) /\ sessions[s].state \in {NEW_, RUNNING}
       /\ sessions[s].state = NEW_ => sessions[s].connections = <<>>
       /\ sessions[s].avatar \in {0} \cup DOMAIN avatars
  /\ \A s, t \in DOMAIN sessions :
       sessions[s].avatar = sessions[t].avatar => s = t \/ sessions[s].avatar = 0

BodiesOK ==
  /\ \E k \in Nat : DOMAIN avatars \cup (gone \cap Bodies) = 1..k
  /\ DOMAIN avatars \cap gone = {} /\ DOMAIN avatars \subseteq Bodies
  /\ \A a \in DOMAIN avatars : IsAvatar(avatars[a])

MastersOK ==
  \A a \in DOMAIN avatars :
    avatars[a].master # 0 =>
      /\ avatars[a].master \in DOMAIN sessions
      /\ sessions[avatars[a].master].state = RUNNING
      /\ sessions[avatars[a].master].avatar = a

LinesOK ==
  /\ connection_counter \in Nat /\ DOMAIN line_of = 1..connection_counter
  /\ DOMAIN holds = CT!Objects /\ DOMAIN interactives \subseteq CT!Objects
  /\ \A ob \in DOMAIN interactives :
       /\ interactives[ob] \in 1..connection_counter
       /\ holds[ob] # 0 => line_of[interactives[ob]] = holds[ob]
  /\ \A login \in Logins : holds[login] # 0 => login \in DOMAIN interactives

Reaches(a, s) ==
  /\ s \in DOMAIN sessions /\ sessions[s].avatar = a
  /\ sessions[s].state = RUNNING /\ sessions[s].supersessions = {}
  /\ \/ /\ Len(sessions[s].connections) = 1
        /\ sessions[s].connections[1].connection \in 1..connection_counter
        /\ line_of[sessions[s].connections[1].connection] = holds[a]
        /\ avatars[a].master = s
     \/ /\ holds[a] \in moved_on
        /\ sessions[s].connections = <<>>
        /\ avatars[a].master = 0

Reaching ==
  \A a \in Bodies : holds[a] # 0 =>
    a \in DOMAIN avatars /\ \E s \in DOMAIN sessions : Reaches(a, s)

AccountsOK ==
  /\ users \in Seq(Usernames)
  /\ DOMAIN usernames \subseteq Usernames
  /\ players \in Seq(1..Len(users))
  /\ AccountsAgree

IInv ==
  /\ SessionsOK /\ BodiesOK /\ MastersOK /\ LinesOK /\ Reaching /\ AccountsOK
  /\ restarts \in Nat
-----------------------------------------------------------------------------
(* What the functions of SessionTracker do to any mapping of sessions.     *)

Infos(ss) == \A s \in DOMAIN ss : IsInfo(ss[s])

\* A session that differs from what it was at most in its links.
SameBut(r, q) ==
  /\ IsInfo(r) /\ r.user = q.user /\ r.state = q.state /\ r.avatar = q.avatar
  /\ r.connections = q.connections /\ r.supersessions = q.supersessions

LEMMA WithAvatarSets ==
  ASSUME NEW ss, Infos(ss), NEW id \in DOMAIN ss, NEW a
  PROVE  /\ DOMAIN ST!WithAvatar(ss, id, a) = DOMAIN ss /\ Infos(ST!WithAvatar(ss, id, a))
         /\ \A s \in DOMAIN ss \ {id} : ST!WithAvatar(ss, id, a)[s] = ss[s]
         /\ ST!WithAvatar(ss, id, a)[id] = [ss[id] EXCEPT !.avatar = a]
  BY DEF ST!WithAvatar, Infos, IsInfo

LEMMA ResumedRuns ==
  ASSUME NEW ss, Infos(ss), NEW id \in DOMAIN ss, ss[id].state = NEW_
  PROVE  /\ DOMAIN ST!Resumed(ss, id) = DOMAIN ss /\ Infos(ST!Resumed(ss, id))
         /\ \A s \in DOMAIN ss \ {id} : ST!Resumed(ss, id)[s] = ss[s]
         /\ ST!Resumed(ss, id)[id] = [ss[id] EXCEPT !.state = RUNNING]
  BY DEF ST!Resumed, Infos, IsInfo, NEW_, RUNNING, ST!SESSION_STATE_NEW,
         ST!SESSION_STATE_RUNNING, ST!SESSION_STATE_DONE

EntryOf(c) == [connection |-> c, connect_time |-> 1, disconnect_time |-> 0]

ConnectedOf(ss, id, c) == ST!Connected(ss, id, c, 1)

LEMMA ConnectedServes ==
  ASSUME NEW ss, NEW id \in DOMAIN ss, ss[id].connections = <<>>, NEW c
  PROVE  ConnectedOf(ss, id, c) = [ss EXCEPT ![id].connections = <<EntryOf(c)>>]
<1>1. ST!Disconnected(ss, id, 1) = ss
  BY DEF ST!Disconnected, ST!IsConnected
<1>2. ConnectedOf(ss, id, c) = [ss EXCEPT ![id].connections = Append(@, EntryOf(c))]
  BY <1>1 DEF ConnectedOf, ST!Connected, EntryOf
<1>3. Append(<<>>, EntryOf(c)) = <<EntryOf(c)>>
  OBVIOUS
<1> QED BY <1>2, <1>3

LEMMA ConnectedKeeps ==
  ASSUME NEW ss, Infos(ss), NEW id \in DOMAIN ss, ss[id].connections = <<>>, NEW c
  PROVE  /\ DOMAIN ConnectedOf(ss, id, c) = DOMAIN ss /\ Infos(ConnectedOf(ss, id, c))
         /\ \A s \in DOMAIN ss \ {id} : ConnectedOf(ss, id, c)[s] = ss[s]
BY ConnectedServes DEF Infos, IsInfo

-----------------------------------------------------------------------------
(* The avatars that are cloned are new.                                    *)

LEMMA ClonesAreNew ==
  ASSUME BodiesOK
  PROVE  \E k \in Nat :
           /\ Clone(1) = k + 1 /\ Clone(2) = k + 2
           /\ DOMAIN avatars \cup (gone \cap Bodies) = 1..k
           /\ DOMAIN avatars \cup {Clone(1)} \cup (gone \cap Bodies) = 1..(k + 1)
           /\ DOMAIN avatars \cup {Clone(1), Clone(2)} \cup (gone \cap Bodies) = 1..(k + 2)
           /\ Clone(1) \notin DOMAIN avatars /\ Clone(2) \notin DOMAIN avatars
           /\ Clone(1) \in Bodies => Clone(1) \notin gone
           /\ Clone(2) \in Bodies => Clone(2) \notin gone /\ Clone(1) \in Bodies
<1>1. PICK k \in Nat : DOMAIN avatars \cup (gone \cap Bodies) = 1..k
  BY DEF BodiesOK
<1>2. Cardinality(DOMAIN avatars \cup (gone \cap Bodies)) = k
  <2>1. Cardinality(1..k) = k
    BY FS_Interval
  <2> QED BY <1>1, <2>1
<1>3. Clone(1) = k + 1 /\ Clone(2) = k + 2
  BY <1>2 DEF Clone
<1>4. k + 1 \notin 1..k /\ k + 2 \notin 1..k
  OBVIOUS
<1>5. Clone(2) \in Bodies => Clone(1) \in Bodies
  BY <1>3, BoundsAreNumbers DEF Bodies
<1>6. 1..(k + 1) = 1..k \cup {k + 1} /\ 1..(k + 2) = 1..k \cup {k + 1, k + 2}
  OBVIOUS
<1> QED BY <1>1, <1>3, <1>4, <1>5, <1>6

-----------------------------------------------------------------------------
(* What the command leaves behind, however it ends.                        *)

\* Of the i-th session and avatar that are new.
NewOnes(i, user) ==
  LET s == session_counter + i
      a == Clone(i)
  IN  /\ s \in DOMAIN sessions' =>
           /\ IsInfo(sessions'[s]) /\ sessions'[s].user = user
           /\ sessions'[s].state \in {NEW_, RUNNING}
           /\ sessions'[s].state = NEW_ => sessions'[s].connections = <<>>
           /\ sessions'[s].avatar = 0 \/ (sessions'[s].avatar = a /\ a \in DOMAIN avatars')
      /\ a \in DOMAIN avatars' =>
           /\ a \in Bodies /\ IsAvatar(avatars'[a])
           /\ avatars'[a].master # 0 =>
                /\ avatars'[a].master = s /\ s \in DOMAIN sessions'
                /\ sessions'[s].state = RUNNING /\ sessions'[s].avatar = a

\* The line stays, or it is moved into the first of the new avatars.
LineGoes(who) ==
  \/ UNCHANGED lineVars
  \/ /\ CT!exec(who, Clone(1)) /\ Clone(1) \in DOMAIN avatars'
     /\ sessions'[sid].avatar = Clone(1) /\ sessions'[sid].state = RUNNING
     /\ sessions'[sid].supersessions = {}
     /\ \/ /\ CT!query_connection(interactives, who) = 0
           /\ sessions'[sid].connections = <<>> /\ avatars'[Clone(1)].master = 0
        \/ /\ CT!query_connection(interactives, who) # 0
           /\ Len(sessions'[sid].connections) = 1
           /\ sessions'[sid].connections[1].connection =
                CT!query_connection(interactives, who)
           /\ avatars'[Clone(1)].master = sid

Outcome(who, user) ==
  /\ session_counter' \in {sid, ssid} /\ DOMAIN sessions' = 1..session_counter'
  /\ \A s \in DOMAIN sessions : sessions'[s] = sessions[s]
  /\ \/ DOMAIN avatars' = DOMAIN avatars
     \/ DOMAIN avatars' = DOMAIN avatars \cup {Clone(1)}
     \/ DOMAIN avatars' = DOMAIN avatars \cup {Clone(1), Clone(2)}
  /\ \A a \in DOMAIN avatars : avatars'[a] = avatars[a]
  /\ NewOnes(1, user) /\ NewOnes(2, user)
  /\ LineGoes(who)
  /\ playerVars' = playerVars \/ get_player(user)

\* The sessions and avatars there are, before anything fails or succeeds.
LEMMA StartedIs ==
  ASSUME SessionsOK, NEW user
  PROVE  /\ DOMAIN Started(user) = 1..sid /\ Infos(Started(user))
         /\ \A s \in DOMAIN sessions : Started(user)[s] = sessions[s]
         /\ Started(user)[sid] = ST!NewInfo(user, 0, 1)
<1>1. sid \notin DOMAIN sessions /\ 0 # sid /\ 0 \notin DOMAIN sessions /\ Infos(sessions)
  BY DEF SessionsOK, Infos, sid
<1>2. DOMAIN sessions \cup {sid} = 1..sid
  BY DEF SessionsOK, sid
<1>3. DOMAIN Started(user) = 1..sid
  BY <1>2 DEF Started, ST!WithSession
<1>4. ASSUME NEW s \in DOMAIN sessions PROVE Started(user)[s] = sessions[s]
  BY <1>1, <1>4 DEF Started, ST!WithSession
<1>5. Started(user)[sid] = ST!NewInfo(user, 0, 1)
  BY <1>1 DEF Started, ST!WithSession
<1>6. IsInfo(ST!NewInfo(user, 0, 1))
  BY DEF IsInfo, ST!NewInfo
<1>7. Infos(Started(user))
  BY <1>1, <1>2, <1>3, <1>4, <1>5, <1>6 DEF Infos
<1> QED BY <1>3, <1>4, <1>5, <1>7

LEMMA WithBodyIs ==
  ASSUME SessionsOK, NEW user
  PROVE  /\ DOMAIN WithBody(user) = 1..sid /\ Infos(WithBody(user))
         /\ \A s \in DOMAIN sessions : WithBody(user)[s] = sessions[s]
         /\ WithBody(user)[sid] = [ST!NewInfo(user, 0, 1) EXCEPT !.avatar = Clone(1)]
<1>1. /\ sid \in 1..sid /\ \A s \in DOMAIN sessions : s \in 1..sid \ {sid}
  BY DEF SessionsOK, sid
<1> QED BY <1>1, StartedIs, WithAvatarSets DEF WithBody

LEMMA WithSubsessionIs ==
  ASSUME SessionsOK, NEW user
  PROVE  /\ DOMAIN WithSubsession(user) = 1..ssid /\ Infos(WithSubsession(user))
         /\ \A s \in DOMAIN sessions : WithSubsession(user)[s] = sessions[s]
         /\ SameBut(WithSubsession(user)[sid],
                    [ST!NewInfo(user, 0, 1) EXCEPT !.avatar = Clone(1)])
         /\ WithSubsession(user)[ssid] = ST!NewInfo(user, sid, 1)
<1>1. /\ sid \in 1..sid /\ ssid \notin 1..sid /\ sid # ssid /\ 1..sid \cup {ssid} = 1..ssid
      /\ \A s \in DOMAIN sessions : s \in 1..sid \ {sid}
  BY DEF SessionsOK, sid, ssid
<1>2. /\ DOMAIN WithBody(user) = 1..sid /\ Infos(WithBody(user))
      /\ \A s \in DOMAIN sessions : WithBody(user)[s] = sessions[s]
      /\ WithBody(user)[sid] = [ST!NewInfo(user, 0, 1) EXCEPT !.avatar = Clone(1)]
  BY WithBodyIs
<1>3. DOMAIN WithSubsession(user) = 1..ssid
  BY <1>1, <1>2 DEF WithSubsession, ST!WithSession
<1>4. ASSUME NEW s \in DOMAIN sessions PROVE WithSubsession(user)[s] = sessions[s]
  <2>1. s # sid /\ s # ssid /\ s \in 1..sid
    BY <1>1, <1>4
  <2> QED BY <1>2, <2>1 DEF WithSubsession, ST!WithSession
<1>5. WithSubsession(user)[ssid] = ST!NewInfo(user, sid, 1)
  BY <1>1 DEF WithSubsession, ST!WithSession
<1>6. /\ WithSubsession(user)[sid] = [WithBody(user)[sid] EXCEPT !.subsessions = @ \cup {ssid}]
      /\ IsInfo(WithBody(user)[sid])
  BY <1>1, <1>2 DEF WithSubsession, ST!WithSession, Infos
<1>7. SameBut(WithSubsession(user)[sid], WithBody(user)[sid])
  BY <1>6 DEF SameBut, IsInfo
<1>8. IsInfo(ST!NewInfo(user, sid, 1))
  BY DEF IsInfo, ST!NewInfo
<1>9. Infos(WithSubsession(user))
  <2>1. ASSUME NEW s \in 1..ssid PROVE IsInfo(WithSubsession(user)[s])
    <3>1. CASE s = ssid
      BY <1>5, <1>8, <3>1
    <3>2. CASE s = sid
      BY <1>7, <3>2 DEF SameBut
    <3>3. CASE s # sid /\ s # ssid
      <4>1. s \in DOMAIN sessions
        BY <3>3 DEF SessionsOK, sid, ssid
      <4> QED BY <1>4, <4>1 DEF SessionsOK
    <3> QED BY <3>1, <3>2, <3>3
  <2> QED BY <1>3, <2>1 DEF Infos
<1> QED BY <1>2, <1>3, <1>4, <1>5, <1>7, <1>9

\* The two sessions before they are resumed.
LEMMA PreparedIs ==
  ASSUME SessionsOK, NEW user
  PROVE  /\ DOMAIN Prepared(user) = 1..ssid /\ Infos(Prepared(user))
         /\ \A s \in DOMAIN sessions : Prepared(user)[s] = sessions[s]
         /\ SameBut(Prepared(user)[sid],
                    [ST!NewInfo(user, 0, 1) EXCEPT !.avatar = Clone(1)])
         /\ Prepared(user)[ssid] = [ST!NewInfo(user, sid, 1) EXCEPT !.avatar = Clone(2)]
<1>1. /\ sid \in 1..ssid \ {ssid} /\ ssid \in 1..ssid
      /\ \A s \in DOMAIN sessions : s \in 1..ssid \ {ssid}
  BY DEF SessionsOK, sid, ssid
<1> QED BY <1>1, WithSubsessionIs, WithAvatarSets DEF Prepared

\* A session of the user, with this avatar and nothing served yet.
IsNew(r, user, above, a) ==
  /\ IsInfo(r) /\ r.user = user /\ r.state = NEW_ /\ r.avatar = a
  /\ r.connections = <<>> /\ r.supersessions = {above} \ {0}

Runs(r, user, above, a) ==
  /\ IsInfo(r) /\ r.user = user /\ r.state = RUNNING /\ r.avatar = a
  /\ r.connections = <<>> /\ r.supersessions = {above} \ {0}

LEMMA PreparedAreNew ==
  ASSUME SessionsOK, NEW user
  PROVE  /\ DOMAIN Prepared(user) = 1..ssid /\ Infos(Prepared(user))
         /\ \A s \in DOMAIN sessions : Prepared(user)[s] = sessions[s]
         /\ IsNew(Prepared(user)[sid], user, 0, Clone(1))
         /\ IsNew(Prepared(user)[ssid], user, sid, Clone(2))
<1> DEFINE r == [ST!NewInfo(user, 0, 1) EXCEPT !.avatar = Clone(1)]
<1>1. IsNew(r, user, 0, Clone(1))
  BY DEF IsNew, IsInfo, ST!NewInfo, NEW_
<1>2. SameBut(Prepared(user)[sid], r)
  BY PreparedIs
<1> HIDE DEF r
<1>3. IsNew(Prepared(user)[sid], user, 0, Clone(1))
  BY <1>1, <1>2 DEF SameBut, IsNew
<1> DEFINE q == [ST!NewInfo(user, sid, 1) EXCEPT !.avatar = Clone(2)]
<1>4. IsNew(q, user, sid, Clone(2))
  BY DEF IsNew, IsInfo, ST!NewInfo, NEW_
<1>5. Prepared(user)[ssid] = q
  BY PreparedIs
<1> HIDE DEF q
<1>6. IsNew(Prepared(user)[ssid], user, sid, Clone(2))
  BY <1>4, <1>5
<1> QED BY <1>3, <1>6, PreparedIs

\* One of the two new sessions of a mapping is resumed.
LEMMA ResumedOf ==
  ASSUME NEW ss, Infos(ss), NEW id \in DOMAIN ss, NEW user, NEW above, NEW a,
         IsNew(ss[id], user, above, a)
  PROVE  /\ DOMAIN ST!Resumed(ss, id) = DOMAIN ss /\ Infos(ST!Resumed(ss, id))
         /\ \A s \in DOMAIN ss \ {id} : ST!Resumed(ss, id)[s] = ss[s]
         /\ Runs(ST!Resumed(ss, id)[id], user, above, a)
<1>1. ss[id].state = NEW_ /\ IsInfo(ss[id])
  BY DEF IsNew
<1>2. ST!Resumed(ss, id)[id] = [ss[id] EXCEPT !.state = RUNNING]
  BY <1>1, ResumedRuns
<1>3. Runs(ST!Resumed(ss, id)[id], user, above, a)
  BY <1>1, <1>2 DEF IsNew, Runs, IsInfo
<1> QED BY <1>1, <1>3, ResumedRuns

LEMMA SidsAre ==
  ASSUME SessionsOK
  PROVE  /\ sid = session_counter + 1 /\ ssid = session_counter + 2
         /\ sid \in 1..sid /\ sid \in 1..ssid /\ ssid \in 1..ssid /\ sid # ssid
         /\ ssid \notin 1..sid
         /\ \A s \in DOMAIN sessions : s \in 1..sid /\ s \in 1..ssid /\ s # sid /\ s # ssid
  BY DEF SessionsOK, sid, ssid

LEMMA ServedIs ==
  ASSUME SessionsOK, NEW user, NEW who
  PROVE  LET tt == Served(Prepared(user), who)
         IN  /\ DOMAIN tt = 1..ssid /\ Infos(tt)
             /\ \A s \in DOMAIN sessions : tt[s] = sessions[s]
             /\ tt[sid].user = user /\ tt[sid].avatar = Clone(1)
             /\ tt[sid].state = RUNNING /\ tt[sid].supersessions = {}
             /\ Len(tt[sid].connections) = 1
             /\ tt[sid].connections[1].connection = CT!query_connection(interactives, who)
             /\ IsNew(tt[ssid], user, sid, Clone(2))
<1> DEFINE prepared == Prepared(user)
           resumed == ST!Resumed(prepared, sid)
           query == CT!query_connection(interactives, who)
           after == ConnectedOf(resumed, sid, query)
           entry == EntryOf(query)
<1>1. /\ DOMAIN prepared = 1..ssid /\ Infos(prepared) /\ IsNew(prepared[sid], user, 0, Clone(1))
      /\ IsNew(prepared[ssid], user, sid, Clone(2))
      /\ \A s \in DOMAIN sessions : prepared[s] = sessions[s]
  BY PreparedAreNew
<1>2. after = Served(Prepared(user), who)
  BY DEF Served, ConnectedOf
<1> HIDE DEF prepared
<1>3. /\ DOMAIN resumed = 1..ssid /\ Infos(resumed) /\ resumed[ssid] = prepared[ssid]
      /\ \A s \in DOMAIN sessions : resumed[s] = sessions[s]
      /\ IsInfo(resumed[sid]) /\ resumed[sid].user = user /\ resumed[sid].state = RUNNING
      /\ resumed[sid].avatar = Clone(1) /\ resumed[sid].connections = <<>>
      /\ resumed[sid].supersessions = {}
  <2>1. /\ DOMAIN resumed = 1..ssid /\ Infos(resumed) /\ \A s \in 1..ssid \ {sid} : resumed[s] = prepared[s]
    BY <1>1, SidsAre, ResumedOf
  <2>2. Runs(resumed[sid], user, 0, Clone(1))
    BY <1>1, SidsAre, ResumedOf
  <2> QED BY <1>1, <2>1, <2>2, SidsAre DEF Runs
<1> HIDE DEF resumed
<1>4. /\ DOMAIN after = 1..ssid /\ Infos(after) /\ \A s \in 1..ssid \ {sid} : after[s] = resumed[s]
      /\ after[sid] = [resumed[sid] EXCEPT !.connections = <<entry>>]
  <2> HIDE DEF query
  <2>1. sid \in DOMAIN resumed /\ resumed[sid].connections = <<>> /\ Infos(resumed)
    BY <1>3, SidsAre
  <2>2. DOMAIN after = DOMAIN resumed /\ Infos(after)
    BY <2>1, ConnectedKeeps
  <2>3. \A s \in DOMAIN resumed \ {sid} : after[s] = resumed[s]
    BY <2>1, ConnectedKeeps
  <2>4. after[sid] = [resumed[sid] EXCEPT !.connections = <<entry>>]
    <3>1. after = [resumed EXCEPT ![sid].connections = <<entry>>]
      BY <2>1, ConnectedServes
    <3> QED BY <2>1, <3>1
  <2> QED BY <1>3, <2>2, <2>3, <2>4
<1> HIDE DEF after
<1>5. Len(<<entry>>) = 1 /\ <<entry>>[1].connection = query
  BY DEF EntryOf
<1> HIDE DEF entry
<1>6. /\ after[sid].user = user /\ after[sid].avatar = Clone(1)
      /\ after[sid].state = RUNNING /\ after[sid].supersessions = {}
      /\ after[sid].connections = <<entry>>
  BY <1>3, <1>4 DEF IsInfo
<1> QED BY <1>1, <1>2, <1>3, <1>4, <1>5, <1>6, SidsAre

LEMMA DescendedIs ==
  ASSUME NEW avs, NEW ss, NEW a \in DOMAIN avs, NEW s, avs[a].master = 0, IsAvatar(avs[a])
  PROVE  /\ DOMAIN OnDescend(avs, ss, a, s) = DOMAIN avs
         /\ \A b \in DOMAIN avs \ {a} : OnDescend(avs, ss, a, s)[b] = avs[b]
         /\ OnDescend(avs, ss, a, s)[a].master = s /\ IsAvatar(OnDescend(avs, ss, a, s)[a])
<1>1. OnDescend(avs, ss, a, s) =
        [avs EXCEPT ![a] = [master |-> s, slaves |-> avs[a].slaves \ {s}]]
  BY DEF OnDescend
<1> QED BY <1>1 DEF IsAvatar

LEMMA ClonedIs ==
  ASSUME BodiesOK
  PROVE  /\ DOMAIN BothCloned = DOMAIN avatars \cup {Clone(1), Clone(2)}
         /\ \A a \in DOMAIN avatars : BothCloned[a] = avatars[a]
         /\ \A i \in {1, 2} : BothCloned[Clone(i)].master = 0 /\ IsAvatar(BothCloned[Clone(i)])
<1>1. /\ Clone(1) # Clone(2) /\ Clone(1) \notin DOMAIN avatars
      /\ Clone(2) \notin DOMAIN avatars
  BY ClonesAreNew
<1> QED BY <1>1 DEF BothCloned, CT!With, NewAvatar, IsAvatar
-----------------------------------------------------------------------------
(* Each way the command can end has such an outcome.                       *)

LEMMA NotCloned ==
  ASSUME BodiesOK
  PROVE  /\ Clone(1) \notin DOMAIN avatars /\ Clone(2) \notin DOMAIN avatars
         /\ Clone(1) # Clone(2) /\ Clone(2) \notin DOMAIN avatars \cup {Clone(1)}
         /\ Clone(2) \in Bodies => Clone(1) \in Bodies
  BY ClonesAreNew

LEMMA NoAvatarOutcome ==
  ASSUME SessionsOK, BodiesOK, NEW who, NEW user, no_avatar(user)
  PROVE  Outcome(who, user)
<1>1. /\ sessions' = Started(user) /\ session_counter' = sid /\ UNCHANGED lineVars
      /\ avatars' = avatars /\ playerVars' = playerVars
  BY DEF no_avatar
<1>2. /\ DOMAIN sessions' = 1..sid /\ \A s \in DOMAIN sessions : sessions'[s] = sessions[s]
      /\ sessions'[sid] = ST!NewInfo(user, 0, 1)
  BY <1>1, StartedIs
<1>3. NewOnes(1, user)
  BY <1>1, <1>2, SidsAre, NotCloned DEF NewOnes, IsInfo, ST!NewInfo, NEW_
<1>4. NewOnes(2, user)
  BY <1>1, <1>2, SidsAre, NotCloned DEF NewOnes
<1> QED BY <1>1, <1>2, <1>3, <1>4 DEF Outcome, LineGoes

LEMMA NoPlayerAvatarOutcome ==
  ASSUME SessionsOK, BodiesOK, NEW who, NEW user, no_player_avatar(user)
  PROVE  Outcome(who, user)
<1>1. /\ sessions' = WithBody(user) /\ session_counter' = sid /\ UNCHANGED lineVars
      /\ avatars' = CT!With(avatars, Clone(1), NewAvatar) /\ get_player(user)
      /\ Clone(1) \in Bodies
  BY DEF no_player_avatar
<1>2. /\ DOMAIN sessions' = 1..sid /\ \A s \in DOMAIN sessions : sessions'[s] = sessions[s]
      /\ sessions'[sid] = [ST!NewInfo(user, 0, 1) EXCEPT !.avatar = Clone(1)]
  BY <1>1, WithBodyIs
<1>3. /\ DOMAIN avatars' = DOMAIN avatars \cup {Clone(1)}
      /\ \A a \in DOMAIN avatars : avatars'[a] = avatars[a]
      /\ IsAvatar(avatars'[Clone(1)]) /\ avatars'[Clone(1)].master = 0
  BY <1>1, NotCloned DEF CT!With, NewAvatar, IsAvatar
<1>4. NewOnes(1, user)
  <2>1. IsNew(sessions'[sid], user, 0, Clone(1))
    BY <1>2 DEF IsNew, IsInfo, ST!NewInfo, NEW_
  <2> QED BY <1>1, <1>3, <2>1, SidsAre DEF NewOnes, IsNew
<1>5. NewOnes(2, user)
  BY <1>1, <1>2, <1>3, SidsAre, NotCloned DEF NewOnes
<1> QED BY <1>1, <1>2, <1>3, <1>4, <1>5 DEF Outcome, LineGoes

LEMMA NotAnAvatarOutcome ==
  ASSUME SessionsOK, BodiesOK, NEW who, NEW user, not_an_avatar(user)
  PROVE  Outcome(who, user)
<1>1. /\ sessions' = WithSubsession(user) /\ session_counter' = ssid
      /\ UNCHANGED lineVars /\ get_player(user) /\ Clone(1) \in Bodies
      /\ avatars' = CT!With(avatars, Clone(1), NewAvatar)
  BY DEF not_an_avatar
<1> DEFINE r == [ST!NewInfo(user, 0, 1) EXCEPT !.avatar = Clone(1)]
<1>2. /\ DOMAIN sessions' = 1..ssid /\ \A s \in DOMAIN sessions : sessions'[s] = sessions[s]
      /\ SameBut(sessions'[sid], r) /\ sessions'[ssid] = ST!NewInfo(user, sid, 1)
  BY <1>1, WithSubsessionIs
<1>3. /\ DOMAIN avatars' = DOMAIN avatars \cup {Clone(1)}
      /\ \A a \in DOMAIN avatars : avatars'[a] = avatars[a]
      /\ IsAvatar(avatars'[Clone(1)]) /\ avatars'[Clone(1)].master = 0
  BY <1>1, NotCloned DEF CT!With, NewAvatar, IsAvatar
<1>4. NewOnes(1, user)
  <2>1. IsNew(r, user, 0, Clone(1))
    BY DEF IsNew, IsInfo, ST!NewInfo, NEW_
  <2> HIDE DEF r
  <2>2. IsNew(sessions'[sid], user, 0, Clone(1))
    BY <1>2, <2>1 DEF SameBut, IsNew
  <2> QED BY <1>1, <1>3, <2>2, SidsAre DEF NewOnes, IsNew
<1>5. NewOnes(2, user)
  <2>1. IsNew(sessions'[ssid], user, sid, 0)
    BY <1>2 DEF IsNew, IsInfo, ST!NewInfo, NEW_
  <2> QED BY <1>1, <1>3, <2>1, SidsAre, NotCloned DEF NewOnes, IsNew
<1> QED BY <1>1, <1>2, <1>3, <1>4, <1>5 DEF Outcome, LineGoes

\* The ways in which both are cloned and the line is moved.
LEMMA UnknownOutcome ==
  ASSUME SessionsOK, BodiesOK, NEW who, NEW user, unknown_to_the_tracker(who, user)
  PROVE  Outcome(who, user)
<1>1. /\ sessions' = ST!Resumed(Prepared(user), sid) /\ session_counter' = ssid
      /\ CT!exec(who, Clone(1)) /\ get_player(user) /\ Clone(2) \in Bodies
      /\ avatars' = BothCloned /\ CT!query_connection(interactives, who) = 0
  BY DEF unknown_to_the_tracker
<1>2. /\ DOMAIN sessions' = 1..ssid /\ \A s \in 1..ssid \ {sid} : sessions'[s] = Prepared(user)[s]
      /\ Runs(sessions'[sid], user, 0, Clone(1))
  <2>1. /\ Infos(Prepared(user)) /\ DOMAIN Prepared(user) = 1..ssid /\ sid \in 1..ssid
        /\ IsNew(Prepared(user)[sid], user, 0, Clone(1))
    BY PreparedAreNew, SidsAre
  <2> QED BY <1>1, <2>1, ResumedOf
<1>3. /\ \A s \in DOMAIN sessions : sessions'[s] = sessions[s]
      /\ IsNew(sessions'[ssid], user, sid, Clone(2))
  BY <1>2, PreparedAreNew, SidsAre
<1>4. /\ DOMAIN avatars' = DOMAIN avatars \cup {Clone(1), Clone(2)}
      /\ \A a \in DOMAIN avatars : avatars'[a] = avatars[a]
      /\ \A i \in {1, 2} : avatars'[Clone(i)].master = 0 /\ IsAvatar(avatars'[Clone(i)])
  BY <1>1, ClonedIs
<1>5. NewOnes(1, user) /\ NewOnes(2, user)
  BY <1>1, <1>2, <1>3, <1>4, SidsAre, NotCloned DEF NewOnes, IsNew, Runs
<1>6. LineGoes(who)
  BY <1>1, <1>2, <1>4 DEF LineGoes, Runs
<1> QED BY <1>1, <1>2, <1>3, <1>4, <1>5, <1>6 DEF Outcome

\* Both avatars are there, and the first has its session as its master.
LEMMA MasteredIs ==
  ASSUME BodiesOK, NEW ss
  PROVE  LET avs == OnDescend(BothCloned, ss, Clone(1), sid)
         IN  /\ DOMAIN avs = DOMAIN avatars \cup {Clone(1), Clone(2)}
             /\ \A a \in DOMAIN avatars : avs[a] = avatars[a]
             /\ avs[Clone(1)].master = sid /\ IsAvatar(avs[Clone(1)])
             /\ avs[Clone(2)].master = 0 /\ IsAvatar(avs[Clone(2)])
<1> DEFINE avs == OnDescend(BothCloned, ss, Clone(1), sid)
<1>1. /\ DOMAIN BothCloned = DOMAIN avatars \cup {Clone(1), Clone(2)}
      /\ \A a \in DOMAIN avatars : BothCloned[a] = avatars[a]
      /\ BothCloned[Clone(1)].master = 0 /\ IsAvatar(BothCloned[Clone(1)])
      /\ BothCloned[Clone(2)].master = 0 /\ IsAvatar(BothCloned[Clone(2)])
  BY ClonedIs
<1>2. /\ DOMAIN avs = DOMAIN BothCloned
      /\ \A b \in DOMAIN BothCloned \ {Clone(1)} : avs[b] = BothCloned[b]
      /\ avs[Clone(1)].master = sid /\ IsAvatar(avs[Clone(1)])
  BY <1>1, DescendedIs
<1> HIDE DEF avs
<1> QED BY <1>1, <1>2, NotCloned DEF avs

LEMMA PlayerRefusesOutcome ==
  ASSUME SessionsOK, BodiesOK, NEW who, NEW user, player_refuses(who, user),
         CT!query_connection(interactives, who) # 0
  PROVE  Outcome(who, user)
<1>1. /\ sessions' = Served(Prepared(user), who) /\ session_counter' = ssid
      /\ CT!exec(who, Clone(1)) /\ get_player(user) /\ Clone(2) \in Bodies
      /\ avatars' = OnDescend(BothCloned, sessions', Clone(1), sid)
  BY DEF player_refuses
<1>2. /\ DOMAIN sessions' = 1..ssid /\ Infos(sessions')
      /\ \A s \in DOMAIN sessions : sessions'[s] = sessions[s]
      /\ sessions'[sid].user = user /\ sessions'[sid].avatar = Clone(1)
      /\ sessions'[sid].state = RUNNING /\ sessions'[sid].supersessions = {}
      /\ Len(sessions'[sid].connections) = 1
      /\ sessions'[sid].connections[1].connection = CT!query_connection(interactives, who)
      /\ IsNew(sessions'[ssid], user, sid, Clone(2))
  BY <1>1, ServedIs
<1>3. /\ DOMAIN avatars' = DOMAIN avatars \cup {Clone(1), Clone(2)}
      /\ \A a \in DOMAIN avatars : avatars'[a] = avatars[a]
      /\ avatars'[Clone(1)].master = sid /\ IsAvatar(avatars'[Clone(1)])
      /\ avatars'[Clone(2)].master = 0 /\ IsAvatar(avatars'[Clone(2)])
  BY <1>1, MasteredIs
<1>4. NEW_ # RUNNING
  BY DEF NEW_, RUNNING, ST!SESSION_STATE_NEW, ST!SESSION_STATE_RUNNING
<1>5. IsInfo(sessions'[sid])
  BY <1>2, SidsAre DEF Infos
<1>6. NewOnes(1, user) /\ NewOnes(2, user)
  BY <1>1, <1>2, <1>3, <1>4, <1>5, SidsAre, NotCloned DEF NewOnes, IsNew
<1>7. LineGoes(who)
  BY <1>1, <1>2, <1>3 DEF LineGoes
<1> QED BY <1>1, <1>2, <1>3, <1>6, <1>7 DEF Outcome

LEMMA DescendOutcome ==
  ASSUME SessionsOK, BodiesOK, NEW who, NEW user, NEW completed \in BOOLEAN,
         descend(who, user, completed), CT!query_connection(interactives, who) # 0
  PROVE  Outcome(who, user)
<1> DEFINE before == Served(Prepared(user), who)
           mastered == OnDescend(BothCloned, sessions', Clone(1), sid)
<1>1. /\ sessions' = ST!Resumed(before, ssid) /\ session_counter' = ssid
      /\ CT!exec(who, Clone(1)) /\ get_player(user) /\ Clone(2) \in Bodies
      /\ avatars' = IF completed THEN OnDescend(mastered, sessions', Clone(2), ssid)
                    ELSE mastered
  BY DEF descend
<1>2. /\ DOMAIN before = 1..ssid /\ Infos(before)
      /\ \A s \in DOMAIN sessions : before[s] = sessions[s]
      /\ before[sid].user = user /\ before[sid].avatar = Clone(1)
      /\ before[sid].state = RUNNING /\ before[sid].supersessions = {}
      /\ Len(before[sid].connections) = 1
      /\ before[sid].connections[1].connection = CT!query_connection(interactives, who)
      /\ IsNew(before[ssid], user, sid, Clone(2))
  BY ServedIs
<1>3. /\ DOMAIN mastered = DOMAIN avatars \cup {Clone(1), Clone(2)}
      /\ \A a \in DOMAIN avatars : mastered[a] = avatars[a]
      /\ mastered[Clone(1)].master = sid /\ IsAvatar(mastered[Clone(1)])
      /\ mastered[Clone(2)].master = 0 /\ IsAvatar(mastered[Clone(2)])
  BY MasteredIs
<1> HIDE DEF before, mastered
<1>4. /\ DOMAIN sessions' = 1..ssid /\ Infos(sessions')
      /\ \A s \in 1..ssid \ {ssid} : sessions'[s] = before[s]
      /\ Runs(sessions'[ssid], user, sid, Clone(2))
  <2>1. ssid \in DOMAIN before
    BY <1>2, SidsAre
  <2> QED BY <1>1, <1>2, <2>1, ResumedOf
<1>5. /\ DOMAIN avatars' = DOMAIN avatars \cup {Clone(1), Clone(2)}
      /\ \A a \in DOMAIN avatars : avatars'[a] = avatars[a]
      /\ avatars'[Clone(1)].master = sid /\ IsAvatar(avatars'[Clone(1)])
      /\ avatars'[Clone(2)].master = 0 \/ avatars'[Clone(2)].master = ssid
      /\ IsAvatar(avatars'[Clone(2)])
  <2>1. CASE completed
    <3>1. avatars' = OnDescend(mastered, sessions', Clone(2), ssid)
      BY <1>1, <2>1
    <3>2. /\ DOMAIN avatars' = DOMAIN mastered
          /\ \A b \in DOMAIN mastered \ {Clone(2)} : avatars'[b] = mastered[b]
          /\ avatars'[Clone(2)].master = ssid /\ IsAvatar(avatars'[Clone(2)])
      BY <1>3, <3>1, DescendedIs
    <3> QED BY <1>3, <3>2, NotCloned
  <2>2. CASE ~completed
    BY <1>1, <1>3, <2>2
  <2> QED BY <2>1, <2>2
<1>6. NEW_ # RUNNING
  BY DEF NEW_, RUNNING, ST!SESSION_STATE_NEW, ST!SESSION_STATE_RUNNING
<1>7. /\ \A s \in DOMAIN sessions : sessions'[s] = sessions[s]
      /\ sessions'[sid] = before[sid] /\ IsInfo(sessions'[sid])
  BY <1>2, <1>4, SidsAre DEF Infos
<1>8. NewOnes(1, user)
  BY <1>1, <1>2, <1>4, <1>5, <1>6, <1>7, SidsAre, NotCloned DEF NewOnes
<1>9. NewOnes(2, user)
  BY <1>1, <1>4, <1>5, <1>6, SidsAre DEF NewOnes, Runs
<1>10. LineGoes(who)
  BY <1>1, <1>2, <1>5, <1>7 DEF LineGoes
<1> QED BY <1>1, <1>4, <1>5, <1>7, <1>8, <1>9, <1>10 DEF Outcome

LEMMA EveryOutcome ==
  ASSUME SessionsOK, BodiesOK, NEW who, NEW user, attach_session(who, user)
  PROVE  Outcome(who, user)
  BY NoAvatarOutcome, NoPlayerAvatarOutcome, NotAnAvatarOutcome, UnknownOutcome,
     PlayerRefusesOutcome, DescendOutcome DEF attach_session
-----------------------------------------------------------------------------
(* An outcome keeps each part of the invariant.                            *)

LEMMA OutcomeKeepsBodies ==
  ASSUME BodiesOK, NEW who, NEW user, Outcome(who, user)
  PROVE  BodiesOK'
<1>1. PICK k \in Nat :
        /\ DOMAIN avatars \cup (gone \cap Bodies) = 1..k
        /\ DOMAIN avatars \cup {Clone(1)} \cup (gone \cap Bodies) = 1..(k + 1)
        /\ DOMAIN avatars \cup {Clone(1), Clone(2)} \cup (gone \cap Bodies) = 1..(k + 2)
        /\ Clone(1) \in Bodies => Clone(1) \notin gone
        /\ Clone(2) \in Bodies => Clone(2) \notin gone
  BY ClonesAreNew
<1>2. gone' = gone
  BY DEF Outcome, LineGoes, lineVars, CT!exec
<1>3. \A i \in {1, 2} : Clone(i) \in DOMAIN avatars' =>
                          Clone(i) \in Bodies /\ IsAvatar(avatars'[Clone(i)])
  BY DEF Outcome, NewOnes
<1>4. /\ \A a \in DOMAIN avatars : avatars'[a] = avatars[a]
      /\ \/ DOMAIN avatars' = DOMAIN avatars
         \/ DOMAIN avatars' = DOMAIN avatars \cup {Clone(1)}
         \/ DOMAIN avatars' = DOMAIN avatars \cup {Clone(1), Clone(2)}
  BY DEF Outcome
<1>5. \E n \in Nat : DOMAIN avatars' \cup (gone' \cap Bodies) = 1..n
  <2>1. k + 1 \in Nat /\ k + 2 \in Nat
    OBVIOUS
  <2> QED BY <1>1, <1>2, <1>4, <2>1
<1>6. /\ DOMAIN avatars' \cap gone' = {} /\ DOMAIN avatars' \subseteq Bodies
      /\ \A a \in DOMAIN avatars' : IsAvatar(avatars'[a])
  BY <1>1, <1>2, <1>3, <1>4 DEF BodiesOK
<1> QED BY <1>5, <1>6 DEF BodiesOK

LEMMA OutcomeAdds ==
  ASSUME SessionsOK, NEW who, NEW user, Outcome(who, user)
  PROVE  /\ DOMAIN sessions \subseteq DOMAIN sessions'
         /\ DOMAIN avatars \subseteq DOMAIN avatars'
  BY DEF SessionsOK, Outcome, sid, ssid

\* What a session of a new mapping is: one there was, or one of the two.
LEMMA OutcomeSessions ==
  ASSUME SessionsOK, NEW who, NEW user, Outcome(who, user), NEW s \in DOMAIN sessions'
  PROVE  \/ s \in DOMAIN sessions /\ sessions'[s] = sessions[s]
         \/ \E i \in {1, 2} : s = session_counter + i /\ NewOnes(i, user)
<1>1. session_counter \in Nat /\ DOMAIN sessions = 1..session_counter
  BY DEF SessionsOK
<1>2. /\ DOMAIN sessions' = 1..session_counter' /\ session_counter' \in {sid, ssid}
      /\ \A t \in DOMAIN sessions : sessions'[t] = sessions[t]
      /\ NewOnes(1, user) /\ NewOnes(2, user)
  BY DEF Outcome
<1>3. s \in 1..session_counter \/ s = session_counter + 1 \/ s = session_counter + 2
  BY <1>1, <1>2 DEF sid, ssid
<1> QED BY <1>1, <1>2, <1>3

LEMMA OutcomeKeepsSessions ==
  ASSUME SessionsOK, BodiesOK, NEW who, NEW user, Outcome(who, user)
  PROVE  SessionsOK'
<1>1. session_counter' \in Nat /\ DOMAIN sessions' = 1..session_counter'
  BY DEF SessionsOK, Outcome, sid, ssid
<1>2. DOMAIN avatars \subseteq DOMAIN avatars'
  BY DEF Outcome
<1>3. ASSUME NEW s \in DOMAIN sessions'
      PROVE  /\ IsInfo(sessions'[s]) /\ sessions'[s].state \in {NEW_, RUNNING}
             /\ sessions'[s].state = NEW_ => sessions'[s].connections = <<>>
             /\ sessions'[s].avatar \in {0} \cup DOMAIN avatars'
             /\ s \in DOMAIN sessions => sessions'[s].avatar \in {0} \cup DOMAIN avatars
             /\ s \notin DOMAIN sessions =>
                  \E i \in {1, 2} : s = session_counter + i /\ sessions'[s].avatar \in {0, Clone(i)}
  <2>1. CASE s \in DOMAIN sessions
    <3>1. sessions'[s] = sessions[s]
      BY <2>1 DEF Outcome
    <3> QED BY <1>2, <2>1, <3>1 DEF SessionsOK
  <2>2. CASE s \notin DOMAIN sessions
    <3>1. PICK i \in {1, 2} : s = session_counter + i /\ NewOnes(i, user)
      BY <2>2, OutcomeSessions
    <3> QED BY <1>3, <2>2, <3>1 DEF NewOnes
  <2> QED BY <2>1, <2>2
<1>4. ASSUME NEW s \in DOMAIN sessions', NEW t \in DOMAIN sessions',
             sessions'[s].avatar = sessions'[t].avatar, sessions'[s].avatar # 0
      PROVE  s = t
  <2>1. CASE s \in DOMAIN sessions /\ t \in DOMAIN sessions
    <3>1. sessions'[s] = sessions[s] /\ sessions'[t] = sessions[t]
      BY <2>1 DEF Outcome
    <3> QED BY <1>4, <2>1, <3>1 DEF SessionsOK
  <2>2. CASE s \notin DOMAIN sessions /\ t \notin DOMAIN sessions
    BY <1>3, <1>4, <2>2, NotCloned
  <2>3. CASE ~(s \in DOMAIN sessions <=> t \in DOMAIN sessions)
    BY <1>3, <1>4, <2>3, NotCloned
  <2> QED BY <2>1, <2>2, <2>3
<1> QED BY <1>1, <1>3, <1>4 DEF SessionsOK, NEW_, RUNNING

LEMMA OutcomeKeepsMasters ==
  ASSUME SessionsOK, MastersOK, NEW who, NEW user, Outcome(who, user)
  PROVE  MastersOK'
<1>1. ASSUME NEW a \in DOMAIN avatars', avatars'[a].master # 0
      PROVE  /\ avatars'[a].master \in DOMAIN sessions'
             /\ sessions'[avatars'[a].master].state = RUNNING
             /\ sessions'[avatars'[a].master].avatar = a
  <2>1. CASE a \in DOMAIN avatars
    <3>1. avatars'[a] = avatars[a] /\ avatars[a].master \in DOMAIN sessions
      BY <1>1, <2>1 DEF Outcome, MastersOK
    <3>2. /\ sessions'[avatars[a].master] = sessions[avatars[a].master]
      BY <3>1 DEF Outcome
    <3>3. avatars[a].master \in DOMAIN sessions'
      BY <3>1, OutcomeAdds
    <3> QED BY <1>1, <2>1, <3>1, <3>2, <3>3 DEF MastersOK
  <2>2. CASE a \notin DOMAIN avatars
    <3>1. PICK i \in {1, 2} : a = Clone(i) /\ NewOnes(i, user)
      BY <1>1, <2>2 DEF Outcome
    <3> QED BY <1>1, <3>1 DEF NewOnes
  <2> QED BY <2>1, <2>2
<1> QED BY <1>1 DEF MastersOK, RUNNING

LEMMA OutcomeKeepsLines ==
  ASSUME LinesOK, NEW who, NEW user, Outcome(who, user)
  PROVE  LinesOK'
<1>1. CASE UNCHANGED lineVars
  BY <1>1 DEF lineVars, LinesOK
<1>2. CASE CT!exec(who, Clone(1)) /\ Clone(1) \in DOMAIN avatars'
  <2>1. /\ holds' = [holds EXCEPT ![Clone(1)] = holds[who], ![who] = 0]
        /\ Clone(1) \notin DOMAIN interactives
        /\ interactives' = interactives /\ connection_counter' = connection_counter
        /\ line_of' = line_of
    BY <1>2 DEF CT!exec
  <2>2. Clone(1) \notin Logins
    <3>1. Clone(1) \in Bodies
      BY <1>2 DEF Outcome, NewOnes
    <3> QED BY <3>1, LoginsAreNoAvatars DEF Bodies
  <2>3. DOMAIN holds' = CT!Objects /\ DOMAIN interactives' \subseteq CT!Objects
    BY <2>1 DEF LinesOK
  <2>4. ASSUME NEW ob \in CT!Objects, ob # Clone(1)
        PROVE  holds'[ob] # 0 => holds'[ob] = holds[ob]
    BY <2>1, <2>4 DEF LinesOK
  <2>5. ASSUME NEW ob \in DOMAIN interactives'
        PROVE  /\ interactives'[ob] \in 1..connection_counter'
               /\ holds'[ob] # 0 => line_of'[interactives'[ob]] = holds'[ob]
    BY <2>1, <2>4, <2>5 DEF LinesOK
  <2>6. ASSUME NEW login \in Logins, holds'[login] # 0 PROVE login \in DOMAIN interactives'
    BY <2>1, <2>2, <2>4, <2>6 DEF LinesOK, CT!Objects
  <2>7. connection_counter' \in Nat /\ DOMAIN line_of' = 1..connection_counter'
    BY <2>1 DEF LinesOK
  <2> QED BY <2>3, <2>5, <2>6, <2>7 DEF LinesOK, CT!Objects
<1> QED BY <1>1, <1>2 DEF Outcome, LineGoes

\* A line that does not move is reached as before.
LEMMA StillReaches ==
  ASSUME SessionsOK, LinesOK, NEW a \in DOMAIN avatars, NEW s, Reaches(a, s),
         sessions'[s] = sessions[s], s \in DOMAIN sessions', avatars'[a] = avatars[a],
         holds'[a] = holds[a], moved_on \subseteq moved_on',
         connection_counter \in Nat, connection_counter' \in Nat,
         connection_counter <= connection_counter',
         \A c \in 1..connection_counter : line_of'[c] = line_of[c]
  PROVE  Reaches(a, s)'
  BY DEF Reaches, RUNNING

LEMMA OutcomeKeepsReaching ==
  ASSUME SessionsOK, BodiesOK, LinesOK, Reaching, NEW who, NEW user, Outcome(who, user),
         CT!interactive(who), who \in CT!Objects
  PROVE  Reaching'
<1>1. /\ DOMAIN sessions \subseteq DOMAIN sessions' /\ DOMAIN avatars \subseteq DOMAIN avatars'
  BY OutcomeAdds
<1>2. /\ connection_counter' = connection_counter /\ line_of' = line_of
      /\ moved_on \subseteq moved_on' /\ connection_counter \in Nat
  BY DEF Outcome, LineGoes, lineVars, CT!exec, LinesOK
<1>3. ASSUME NEW a \in Bodies, holds'[a] # 0, holds'[a] = holds[a]
      PROVE  a \in DOMAIN avatars' /\ \E s \in DOMAIN sessions' : Reaches(a, s)'
  <2>1. a \in DOMAIN avatars /\ \E s \in DOMAIN sessions : Reaches(a, s)
    BY <1>3 DEF Reaching
  <2>2. PICK s \in DOMAIN sessions : Reaches(a, s)
    BY <2>1
  <2>3. s \in DOMAIN sessions' /\ a \in DOMAIN avatars'
    BY <1>1, <2>1, <2>2
  <2>4. sessions'[s] = sessions[s] /\ avatars'[a] = avatars[a]
    BY <2>1, <2>2 DEF Outcome
  <2>5. connection_counter <= connection_counter'
    BY <1>2
  <2>6. Reaches(a, s)'
    BY <1>2, <1>3, <2>1, <2>2, <2>3, <2>4, <2>5, StillReaches
  <2> QED BY <2>3, <2>6
<1>4. CASE UNCHANGED lineVars
  BY <1>3, <1>4 DEF lineVars, Reaching
<1>5. CASE /\ CT!exec(who, Clone(1)) /\ Clone(1) \in DOMAIN avatars'
           /\ sessions'[sid].avatar = Clone(1) /\ sessions'[sid].state = RUNNING
           /\ sessions'[sid].supersessions = {}
           /\ \/ /\ CT!query_connection(interactives, who) = 0
                 /\ sessions'[sid].connections = <<>> /\ avatars'[Clone(1)].master = 0
              \/ /\ CT!query_connection(interactives, who) # 0
                 /\ Len(sessions'[sid].connections) = 1
                 /\ sessions'[sid].connections[1].connection =
                      CT!query_connection(interactives, who)
                 /\ avatars'[Clone(1)].master = sid
  <2>1. /\ holds' = [holds EXCEPT ![Clone(1)] = holds[who], ![who] = 0]
        /\ moved_on' = IF who \in Bodies THEN moved_on \cup {holds[who]} ELSE moved_on
        /\ holds[Clone(1)] = 0 /\ holds[who] # 0
    BY <1>5 DEF CT!exec, CT!interactive
  <2>2. Clone(1) \in Bodies /\ Clone(1) \in CT!Objects /\ Clone(1) # who
    BY <1>5, <2>1 DEF Outcome, NewOnes, CT!Objects
  <2>3. holds'[Clone(1)] = holds[who]
    BY <2>1, <2>2 DEF LinesOK
  <2>4. sid \in DOMAIN sessions'
    BY SidsAre DEF Outcome
  <2>5. ASSUME NEW a, a = Clone(1), NEW s, s = sid,
               CT!query_connection(interactives, who) = 0
        PROVE  Reaches(a, s)'
    <3>1. who \notin DOMAIN interactives
      BY <2>5 DEF CT!query_connection, LinesOK
    <3>2. who \in Bodies
      BY <2>1, <3>1 DEF LinesOK, CT!Objects
    <3>3. holds'[a] \in moved_on'
      BY <2>1, <2>3, <2>5, <3>2
    <3> QED BY <1>5, <2>4, <2>5, <3>3 DEF Reaches, RUNNING
  <2>6. ASSUME NEW a, a = Clone(1), NEW s, s = sid,
               CT!query_connection(interactives, who) # 0
        PROVE  Reaches(a, s)'
    <3>1. /\ who \in DOMAIN interactives
          /\ CT!query_connection(interactives, who) = interactives[who]
      BY <2>6 DEF CT!query_connection
    <3>2. interactives[who] \in 1..connection_counter /\ line_of[interactives[who]] = holds[who]
      BY <2>1, <3>1 DEF LinesOK
    <3> QED BY <1>2, <1>5, <2>3, <2>4, <2>6, <3>1, <3>2 DEF Reaches, RUNNING
  <2>7. \A a, s : a = Clone(1) /\ s = sid => Reaches(a, s)'
    BY <2>5, <2>6
  <2>8. ASSUME NEW a \in Bodies, holds'[a] # 0
        PROVE  a \in DOMAIN avatars' /\ \E s \in DOMAIN sessions' : Reaches(a, s)'
    <3>1. CASE a = Clone(1)
      BY <1>5, <2>4, <2>7, <3>1
    <3>2. CASE a # Clone(1)
      <4>1. holds'[a] = holds[a]
        BY <2>1, <2>8, <3>2 DEF LinesOK, CT!Objects
      <4> QED BY <1>3, <2>8, <4>1
    <3> QED BY <3>1, <3>2
  <2> QED BY <2>8 DEF Reaching
<1> QED BY <1>4, <1>5 DEF Outcome, LineGoes
-----------------------------------------------------------------------------
(* The accounts.                                                           *)

\* The four indexes, each with what it says of the users.
NamesAgree ==
  \A n \in Usernames : Get(usernames, n, {}) = {u \in DOMAIN users : users[u] = n}

PlayersAgree ==
  /\ \A p \in DOMAIN players : playersOf[players[p]] = {p}
  /\ DOMAIN playersOf = {players[p] : p \in DOMAIN players}

OwnersAreUsers == \A s \in DOMAIN sessions : sessions[s].user \in DOMAIN users

LEMMA Appended ==
  ASSUME NEW S, NEW seq \in Seq(S), NEW e \in S
  PROVE  /\ Append(seq, e) \in Seq(S) /\ Len(Append(seq, e)) = Len(seq) + 1
         /\ DOMAIN Append(seq, e) = DOMAIN seq \cup {Len(seq) + 1}
         /\ Len(seq) + 1 \notin DOMAIN seq /\ Len(seq) \in Nat
         /\ \A i \in DOMAIN seq : Append(seq, e)[i] = seq[i]
         /\ Append(seq, e)[Len(seq) + 1] = e
  OBVIOUS

LEMMA NewUserIsNamed ==
  ASSUME users \in Seq(Usernames), DOMAIN usernames \subseteq Usernames, NamesAgree,
         NEW username \in Usernames, new_user(username)
  PROVE  /\ NamesAgree' /\ users' \in Seq(Usernames) /\ DOMAIN usernames' \subseteq Usernames
         /\ DOMAIN users' = DOMAIN users \cup {user_counter + 1}
         /\ Len(users') = Len(users) + 1
<1>1. /\ users' = Append(users, username)
      /\ usernames' = CT!With(usernames, username,
                              Get(usernames, username, {}) \cup {user_counter + 1})
  BY DEF new_user
<1>2. /\ users' \in Seq(Usernames) /\ Len(users') = Len(users) + 1
      /\ DOMAIN users' = DOMAIN users \cup {user_counter + 1}
      /\ user_counter + 1 \notin DOMAIN users
      /\ \A u \in DOMAIN users : users'[u] = users[u]
      /\ users'[user_counter + 1] = username
  BY <1>1, Appended DEF user_counter
<1>3. DOMAIN usernames' = DOMAIN usernames \cup {username}
  BY <1>1 DEF CT!With
<1>4. ASSUME NEW n \in Usernames
      PROVE  Get(usernames', n, {}) = {u \in DOMAIN users' : users'[u] = n}
  <2>1. Get(usernames, n, {}) = {u \in DOMAIN users : users[u] = n}
    BY DEF NamesAgree
  <2>2. CASE n = username
    <3>1. Get(usernames', n, {}) = Get(usernames, n, {}) \cup {user_counter + 1}
      BY <1>1, <2>2 DEF Get, CT!With
    <3> HIDE DEF user_counter
    <3> QED BY <1>2, <2>1, <2>2, <3>1
  <2>3. CASE n # username
    <3>1. Get(usernames', n, {}) = Get(usernames, n, {})
      BY <1>1, <2>3 DEF Get, CT!With
    <3> QED BY <1>2, <2>1, <2>3, <3>1
  <2> QED BY <2>2, <2>3
<1> QED BY <1>2, <1>3, <1>4 DEF NamesAgree

LEMMA NewPlayerIsTheirs ==
  ASSUME players \in Seq(1..Len(users)), users \in Seq(Usernames), PlayersAgree,
         Len(users') = Len(users) + 1,
         playerVars' = playerVars \/ get_player(user_counter + 1)
  PROVE  players' \in Seq(1..Len(users')) /\ PlayersAgree'
<1> DEFINE user == Len(users) + 1
<1>1. /\ Len(users) \in Nat /\ user \in 1..Len(users') /\ 1..Len(users) \subseteq 1..Len(users')
      /\ user \notin 1..Len(users) /\ players \in Seq(1..Len(users'))
  OBVIOUS
<1>2. \A p \in DOMAIN players : players[p] \in 1..Len(users)
  OBVIOUS
<1>3. user \notin DOMAIN playersOf
  BY <1>1, <1>2 DEF PlayersAgree
<1>4. CASE playerVars' = playerVars
  BY <1>1, <1>4 DEF playerVars, PlayersAgree
<1>5. CASE get_player(user)
  <2>1. /\ players' = Append(players, user)
        /\ playersOf' = CT!With(playersOf, user, {player_counter + 1})
    BY <1>3, <1>5 DEF get_player, Get
  <2> HIDE DEF user
  <2>2. /\ players' \in Seq(1..Len(users'))
        /\ DOMAIN players' = DOMAIN players \cup {player_counter + 1}
        /\ player_counter + 1 \notin DOMAIN players
        /\ \A p \in DOMAIN players : players'[p] = players[p]
        /\ players'[player_counter + 1] = user
    BY <1>1, <2>1, Appended DEF player_counter
  <2>3. /\ DOMAIN playersOf' = DOMAIN playersOf \cup {user}
        /\ playersOf'[user] = {player_counter + 1}
        /\ \A u \in DOMAIN playersOf : u # user /\ playersOf'[u] = playersOf[u]
    BY <1>3, <2>1 DEF CT!With
  <2>4. \A p \in DOMAIN players : players[p] \in DOMAIN playersOf
    BY DEF PlayersAgree
  <2>5. \A p \in DOMAIN players' : playersOf'[players'[p]] = {p}
    BY <2>2, <2>3, <2>4 DEF PlayersAgree
  <2>6. DOMAIN playersOf' = {players'[p] : p \in DOMAIN players'}
    BY <2>2, <2>3 DEF PlayersAgree
  <2> QED BY <2>2, <2>5, <2>6 DEF PlayersAgree
<1> QED BY <1>4, <1>5 DEF user_counter

LEMMA OutcomeKeepsAccounts ==
  ASSUME SessionsOK, AccountsOK, NEW who, NEW username \in Usernames, create_user(username),
         Outcome(who, user_counter + 1)
  PROVE  AccountsOK'
<1>1. /\ users \in Seq(Usernames) /\ DOMAIN usernames \subseteq Usernames
      /\ players \in Seq(1..Len(users)) /\ NamesAgree /\ PlayersAgree /\ OwnersAreUsers
  BY DEF AccountsOK, AccountsAgree, NamesAgree, PlayersAgree, OwnersAreUsers
<1>2. /\ NamesAgree' /\ users' \in Seq(Usernames) /\ DOMAIN usernames' \subseteq Usernames
      /\ DOMAIN users' = DOMAIN users \cup {user_counter + 1}
      /\ Len(users') = Len(users) + 1
  BY <1>1, NewUserIsNamed DEF create_user
<1>3. players' \in Seq(1..Len(users')) /\ PlayersAgree'
  BY <1>1, <1>2, NewPlayerIsTheirs DEF Outcome
<1>4. ASSUME NEW s \in DOMAIN sessions' PROVE sessions'[s].user \in DOMAIN users'
  <2>1. \/ s \in DOMAIN sessions /\ sessions'[s] = sessions[s]
        \/ sessions'[s].user = user_counter + 1
    BY <1>4, OutcomeSessions DEF NewOnes
  <2> QED BY <1>1, <1>2, <2>1 DEF OwnersAreUsers
<1> QED BY <1>2, <1>3, <1>4 DEF AccountsOK, AccountsAgree, NamesAgree, PlayersAgree

LEMMA RegisterKeeps ==
  ASSUME IInv, NEW who \in CT!Objects, NEW username \in Usernames, register(who, username)
  PROVE  IInv'
<1>1. /\ CT!interactive(who) /\ create_user(username)
      /\ attach_session(who, user_counter + 1) /\ restarts' = restarts
  BY DEF register
<1>2. Outcome(who, user_counter + 1)
  BY <1>1, EveryOutcome DEF IInv
<1> QED BY <1>1, <1>2, OutcomeKeepsSessions, OutcomeKeepsBodies, OutcomeKeepsMasters,
           OutcomeKeepsLines, OutcomeKeepsReaching, OutcomeKeepsAccounts DEF IInv
-----------------------------------------------------------------------------
(* What happens around the command.                                        *)

\* Where sessions, accounts and avatars stay, these parts stay.
LEMMA WorldStays ==
  ASSUME IInv, UNCHANGED world
  PROVE  /\ SessionsOK' /\ MastersOK' /\ AccountsOK' /\ restarts' \in Nat
         /\ avatars' = avatars /\ sessions' = sessions
<1>1. /\ sessions' = sessions /\ session_counter' = session_counter /\ users' = users
      /\ usernames' = usernames /\ players' = players /\ playersOf' = playersOf
      /\ avatars' = avatars /\ restarts' = restarts
  BY DEF world, sessionVars, userVars, playerVars
<1>2. SessionsOK'
  BY <1>1 DEF IInv, SessionsOK, NEW_, RUNNING
<1>3. MastersOK'
  BY <1>1 DEF IInv, MastersOK, RUNNING
<1>4. AccountsOK'
  BY <1>1 DEF IInv, AccountsOK, AccountsAgree, Get
<1> QED BY <1>1, <1>2, <1>3, <1>4 DEF IInv

\* No avatar is given a line, and connection ids are at most added.
LEMMA ReachingStays ==
  ASSUME IInv, UNCHANGED world,
         \A a \in Bodies : holds'[a] # 0 => holds'[a] = holds[a],
         moved_on' = moved_on, connection_counter' \in Nat,
         connection_counter <= connection_counter',
         \A c \in 1..connection_counter : line_of'[c] = line_of[c]
  PROVE  Reaching'
<1>1. avatars' = avatars /\ sessions' = sessions
  BY WorldStays
<1>2. SessionsOK /\ LinesOK /\ Reaching /\ connection_counter \in Nat
  BY DEF IInv, LinesOK
<1>3. ASSUME NEW a \in Bodies, holds'[a] # 0
      PROVE  a \in DOMAIN avatars' /\ \E s \in DOMAIN sessions' : Reaches(a, s)'
  <2>1. a \in DOMAIN avatars /\ holds'[a] = holds[a]
    BY <1>2, <1>3 DEF Reaching
  <2>2. PICK s \in DOMAIN sessions : Reaches(a, s)
    BY <1>2, <1>3, <2>1 DEF Reaching
  <2>3. Reaches(a, s)'
    BY <1>1, <1>2, <2>1, <2>2, StillReaches
  <2> QED BY <1>1, <2>1, <2>2, <2>3
<1> QED BY <1>3 DEF Reaching

LEMMA BodiesStay ==
  ASSUME BodiesOK, avatars' = avatars, gone' \cap Bodies = gone \cap Bodies
  PROVE  BodiesOK'
<1>1. DOMAIN avatars' \cup (gone' \cap Bodies) = DOMAIN avatars \cup (gone \cap Bodies)
  OBVIOUS
<1>2. DOMAIN avatars' \cap gone' = {}
  BY DEF BodiesOK
<1> QED BY <1>1, <1>2 DEF BodiesOK

\* A connection that is made for an object keeps the lines as they should be.
LEMMA NewConnectionKeepsLines ==
  ASSUME LinesOK, NEW ob \in CT!Objects, NEW line, holds'[ob] = line,
         DOMAIN holds' = CT!Objects, \A o \in CT!Objects \ {ob} : holds'[o] = holds[o],
         connection_counter' = connection_counter + 1,
         interactives' = CT!With(interactives, ob, connection_counter + 1),
         line_of' = CT!With(line_of, connection_counter + 1, line)
  PROVE  /\ LinesOK' /\ connection_counter' \in Nat /\ connection_counter <= connection_counter'
         /\ \A c \in 1..connection_counter : line_of'[c] = line_of[c]
<1> DEFINE c == connection_counter + 1
<1>1. /\ connection_counter \in Nat /\ c \in Nat /\ 1..connection_counter \cup {c} = 1..c
      /\ connection_counter <= c /\ c \notin 1..connection_counter /\ c \in 1..c
      /\ \A d \in 1..connection_counter : d \in 1..c
  BY DEF LinesOK
<1>2. /\ connection_counter' = c /\ interactives' = CT!With(interactives, ob, c)
      /\ line_of' = CT!With(line_of, c, line)
  OBVIOUS
<1> HIDE DEF c
<1>3. /\ DOMAIN line_of' = 1..c /\ line_of'[c] = line
      /\ \A d \in 1..connection_counter : line_of'[d] = line_of[d]
  BY <1>1, <1>2 DEF LinesOK, CT!With
<1>4. /\ DOMAIN interactives' = DOMAIN interactives \cup {ob} /\ interactives'[ob] = c
      /\ \A o \in DOMAIN interactives \ {ob} : interactives'[o] = interactives[o]
  BY <1>2 DEF CT!With
<1>5. ASSUME NEW o \in DOMAIN interactives'
      PROVE  /\ interactives'[o] \in 1..c
             /\ holds'[o] # 0 => line_of'[interactives'[o]] = holds'[o]
  <2>1. CASE o = ob
    BY <1>1, <1>3, <1>4, <2>1
  <2>2. CASE o # ob
    <3>1. /\ o \in DOMAIN interactives /\ o \in CT!Objects /\ holds'[o] = holds[o]
          /\ interactives'[o] = interactives[o] /\ interactives[o] \in 1..connection_counter
      BY <1>4, <1>5, <2>2 DEF LinesOK
    <3> QED BY <1>1, <1>3, <3>1 DEF LinesOK
  <2> QED BY <2>1, <2>2
<1>6. ASSUME NEW login \in Logins, holds'[login] # 0 PROVE login \in DOMAIN interactives'
  BY <1>4, <1>6 DEF LinesOK, CT!Objects
<1>7. DOMAIN interactives' \subseteq CT!Objects
  BY <1>4 DEF LinesOK
<1>8. LinesOK'
  BY <1>1, <1>2, <1>3, <1>5, <1>6, <1>7 DEF LinesOK, CT!Objects
<1> QED BY <1>1, <1>2, <1>3, <1>8

LEMMA LogonKeeps ==
  ASSUME IInv, NEW line \in Lines, NEW login \in Logins, logon(line, login)
  PROVE  IInv'
<1>1. /\ holds' = [holds EXCEPT ![login] = line] /\ gone' = gone /\ moved_on' = moved_on
      /\ connection_counter' = connection_counter + 1
      /\ interactives' = CT!With(interactives, login, connection_counter + 1)
      /\ line_of' = CT!With(line_of, connection_counter + 1, line)
      /\ UNCHANGED world
  BY DEF logon, CT!logon, CT!new_connection
<1>2. /\ login \in CT!Objects /\ DOMAIN holds' = CT!Objects /\ holds'[login] = line
      /\ \A o \in CT!Objects \ {login} : holds'[o] = holds[o]
  BY <1>1 DEF IInv, LinesOK, CT!Objects
<1>3. /\ LinesOK' /\ connection_counter' \in Nat /\ connection_counter <= connection_counter'
      /\ \A c \in 1..connection_counter : line_of'[c] = line_of[c]
  BY <1>1, <1>2, NewConnectionKeepsLines DEF IInv
<1>4. \A a \in Bodies : holds'[a] # 0 => holds'[a] = holds[a]
  BY <1>2, LoginsAreNoAvatars DEF Bodies, CT!Objects
<1>5. Reaching'
  BY <1>1, <1>3, <1>4, ReachingStays
<1>6. BodiesOK'
  BY <1>1, WorldStays, BodiesStay DEF IInv
<1> QED BY <1>1, <1>3, <1>5, <1>6, WorldStays DEF IInv

LEMMA NegotiateKeeps ==
  ASSUME IInv, NEW a \in Bodies, negotiate(a)
  PROVE  IInv'
<1>1. /\ holds' = holds /\ gone' = gone /\ moved_on' = moved_on
      /\ connection_counter' = connection_counter + 1
      /\ interactives' = CT!With(interactives, a, connection_counter + 1)
      /\ line_of' = CT!With(line_of, connection_counter + 1, holds[a])
      /\ UNCHANGED world
  BY DEF negotiate, CT!negotiation_of_untracked
<1>2. a \in CT!Objects /\ DOMAIN holds' = CT!Objects
  BY <1>1 DEF IInv, LinesOK, CT!Objects
<1>3. /\ LinesOK' /\ connection_counter' \in Nat /\ connection_counter <= connection_counter'
      /\ \A c \in 1..connection_counter : line_of'[c] = line_of[c]
  BY <1>1, <1>2, NewConnectionKeepsLines DEF IInv
<1>4. Reaching'
  BY <1>1, <1>3, ReachingStays
<1>5. BodiesOK'
  BY <1>1, WorldStays, BodiesStay DEF IInv
<1> QED BY <1>1, <1>3, <1>4, <1>5, WorldStays DEF IInv

LEMMA HangUpKeeps ==
  ASSUME IInv, NEW ob \in CT!Objects, hang_up(ob)
  PROVE  IInv'
<1>1. /\ holds' = [holds EXCEPT ![ob] = 0] /\ gone' = gone /\ moved_on' = moved_on
      /\ connection_counter' = connection_counter /\ interactives' = interactives
      /\ line_of' = line_of /\ UNCHANGED world
  BY DEF hang_up, CT!hang_up, CT!tracked
<1>2. DOMAIN holds' = CT!Objects /\ \A o \in CT!Objects : holds'[o] # 0 => holds'[o] = holds[o]
  BY <1>1 DEF IInv, LinesOK
<1>3. LinesOK'
  BY <1>1, <1>2 DEF IInv, LinesOK, CT!Objects
<1>4. connection_counter \in Nat /\ connection_counter <= connection_counter
  BY DEF IInv, LinesOK
<1>5. Reaching'
  BY <1>1, <1>2, <1>4, ReachingStays DEF CT!Objects
<1>6. BodiesOK'
  BY <1>1, WorldStays, BodiesStay DEF IInv
<1> QED BY <1>1, <1>3, <1>5, <1>6, WorldStays DEF IInv

\* An object that is destructed lets go of its line and of its entry.
LEMMA DestructKeepsLines ==
  ASSUME LinesOK, NEW ob \in CT!Objects, CT!destruct(ob)
  PROVE  /\ LinesOK' /\ holds'[ob] = 0
         /\ \A o \in CT!Objects : holds'[o] # 0 => holds'[o] = holds[o]
<1>1. /\ holds' = [holds EXCEPT ![ob] = 0] /\ line_of' = line_of
      /\ interactives' = [o \in DOMAIN interactives \ {ob} |-> interactives[o]]
      /\ connection_counter' = connection_counter
  BY DEF CT!destruct
<1>2. /\ DOMAIN holds' = CT!Objects /\ holds'[ob] = 0
      /\ \A o \in CT!Objects : holds'[o] # 0 => o # ob /\ holds'[o] = holds[o]
  BY <1>1 DEF LinesOK
<1>3. /\ DOMAIN interactives' = DOMAIN interactives \ {ob}
      /\ \A o \in DOMAIN interactives' : interactives'[o] = interactives[o]
  BY <1>1
<1>4. ASSUME NEW o \in DOMAIN interactives'
      PROVE  /\ interactives'[o] \in 1..connection_counter'
             /\ holds'[o] # 0 => line_of'[interactives'[o]] = holds'[o]
  BY <1>1, <1>2, <1>3, <1>4 DEF LinesOK
<1>5. ASSUME NEW login \in Logins, holds'[login] # 0 PROVE login \in DOMAIN interactives'
  BY <1>2, <1>3, <1>5 DEF LinesOK, CT!Objects
<1>6. /\ connection_counter' \in Nat /\ DOMAIN line_of' = 1..connection_counter'
      /\ DOMAIN interactives' \subseteq CT!Objects
  BY <1>1, <1>3 DEF LinesOK
<1> QED BY <1>2, <1>4, <1>5, <1>6 DEF LinesOK, CT!Objects

LEMMA AbortKeeps ==
  ASSUME IInv, NEW login \in Logins, abort(login)
  PROVE  IInv'
<1>1. /\ gone' = gone \cup {login} /\ moved_on' = moved_on /\ line_of' = line_of
      /\ connection_counter' = connection_counter /\ CT!destruct(login) /\ UNCHANGED world
  BY DEF abort, CT!destruct
<1>2. login \in CT!Objects /\ login \notin Bodies
  BY LoginsAreNoAvatars DEF CT!Objects, Bodies
<1>3. /\ LinesOK' /\ \A o \in CT!Objects : holds'[o] # 0 => holds'[o] = holds[o]
  BY <1>1, <1>2, DestructKeepsLines DEF IInv
<1>4. connection_counter \in Nat /\ connection_counter <= connection_counter
  BY DEF IInv, LinesOK
<1>5. Reaching'
  BY <1>1, <1>3, <1>4, ReachingStays DEF CT!Objects
<1>6. BodiesOK'
  BY <1>1, <1>2, WorldStays, BodiesStay DEF IInv
<1> QED BY <1>1, <1>3, <1>5, <1>6, WorldStays DEF IInv

\* Of an avatar that is destructed, a session keeps all but the avatar.
LEMMA DestSessions ==
  ASSUME SessionsOK, NEW a, dest(a)
  PROVE  /\ DOMAIN sessions' = DOMAIN sessions
         /\ \A s \in DOMAIN sessions : sessions[s].avatar # a => sessions'[s] = sessions[s]
         /\ \A s \in DOMAIN sessions : sessions[s].avatar = a =>
              /\ IsInfo(sessions'[s]) /\ sessions'[s].avatar = 0
              /\ sessions'[s].state = sessions[s].state
              /\ sessions'[s].user = sessions[s].user
              /\ sessions'[s].connections = sessions[s].connections
<1>1. sessions' = [s \in DOMAIN sessions |->
                     IF sessions[s].avatar = a
                       THEN [sessions[s] EXCEPT !.avatar = 0] ELSE sessions[s]]
  BY DEF dest
<1>2. ASSUME NEW s \in DOMAIN sessions, sessions[s].avatar = a
      PROVE  /\ IsInfo(sessions'[s]) /\ sessions'[s].avatar = 0
             /\ sessions'[s].state = sessions[s].state
             /\ sessions'[s].user = sessions[s].user
             /\ sessions'[s].connections = sessions[s].connections
  <2>1. sessions'[s] = [sessions[s] EXCEPT !.avatar = 0]
    BY <1>1, <1>2
  <2>2. IsInfo(sessions[s])
    BY DEF SessionsOK
  <2> QED BY <2>1, <2>2 DEF IsInfo
<1> QED BY <1>1, <1>2

LEMMA DestKeeps ==
  ASSUME IInv, NEW a \in Bodies, dest(a)
  PROVE  IInv'
<1>1. /\ gone' = gone \cup {a} /\ moved_on' = moved_on /\ line_of' = line_of
      /\ connection_counter' = connection_counter /\ CT!destruct(a)
      /\ avatars' = [b \in DOMAIN avatars \ {a} |-> avatars[b]]
      /\ session_counter' = session_counter /\ users' = users /\ usernames' = usernames
      /\ players' = players /\ playersOf' = playersOf /\ restarts' = restarts
      /\ a \in DOMAIN avatars
  BY DEF dest, CT!destruct, userVars, playerVars
<1>2. /\ DOMAIN sessions' = DOMAIN sessions
      /\ \A s \in DOMAIN sessions : sessions[s].avatar # a => sessions'[s] = sessions[s]
      /\ \A s \in DOMAIN sessions : sessions[s].avatar = a =>
           /\ IsInfo(sessions'[s]) /\ sessions'[s].avatar = 0
           /\ sessions'[s].state = sessions[s].state
           /\ sessions'[s].user = sessions[s].user
           /\ sessions'[s].connections = sessions[s].connections
  BY DestSessions DEF IInv
<1>3. /\ DOMAIN avatars' = DOMAIN avatars \ {a}
      /\ \A b \in DOMAIN avatars' : b # a /\ avatars'[b] = avatars[b]
  BY <1>1
<1>4. a # 0 /\ a \in CT!Objects
  BY DEF Bodies, CT!Objects
<1>5. SessionsOK'
  <2>1. session_counter' \in Nat /\ DOMAIN sessions' = 1..session_counter'
    BY <1>1, <1>2 DEF IInv, SessionsOK
  <2>2. ASSUME NEW s \in DOMAIN sessions'
        PROVE  /\ IsInfo(sessions'[s]) /\ sessions'[s].state \in {NEW_, RUNNING}
               /\ sessions'[s].state = NEW_ => sessions'[s].connections = <<>>
               /\ sessions'[s].avatar \in {0} \cup DOMAIN avatars'
    BY <1>2, <1>3, <2>2 DEF IInv, SessionsOK
  <2>3. ASSUME NEW s \in DOMAIN sessions', NEW t \in DOMAIN sessions',
               sessions'[s].avatar = sessions'[t].avatar, sessions'[s].avatar # 0
        PROVE  s = t
    BY <1>2, <2>3 DEF IInv, SessionsOK
  <2> QED BY <2>1, <2>2, <2>3 DEF SessionsOK, NEW_, RUNNING
<1>6. BodiesOK'
  <2>1. DOMAIN avatars' \cup (gone' \cap Bodies) = DOMAIN avatars \cup (gone \cap Bodies)
    BY <1>1, <1>3
  <2>2. /\ DOMAIN avatars' \cap gone' = {} /\ DOMAIN avatars' \subseteq Bodies
        /\ \A b \in DOMAIN avatars' : IsAvatar(avatars'[b])
    BY <1>1, <1>3 DEF IInv, BodiesOK
  <2> QED BY <2>1, <2>2 DEF IInv, BodiesOK
<1>7. MastersOK'
  <2>1. ASSUME NEW b \in DOMAIN avatars', avatars'[b].master # 0
        PROVE  /\ avatars'[b].master \in DOMAIN sessions'
               /\ sessions'[avatars'[b].master].state = RUNNING
               /\ sessions'[avatars'[b].master].avatar = b
    BY <1>2, <1>3, <2>1 DEF IInv, MastersOK
  <2> QED BY <2>1 DEF MastersOK, RUNNING
<1>8. /\ LinesOK' /\ holds'[a] = 0
      /\ \A o \in CT!Objects : holds'[o] # 0 => holds'[o] = holds[o]
  BY <1>1, <1>4, DestructKeepsLines DEF IInv
<1>9. Reaching'
  <2>1. ASSUME NEW b \in Bodies, holds'[b] # 0
        PROVE  b \in DOMAIN avatars' /\ \E s \in DOMAIN sessions' : Reaches(b, s)'
    <3>1. holds'[b] = holds[b] /\ b # a
      BY <1>8, <2>1 DEF CT!Objects
    <3>2. b \in DOMAIN avatars /\ \E s \in DOMAIN sessions : Reaches(b, s)
      BY <2>1, <3>1 DEF IInv, Reaching
    <3>3. PICK s \in DOMAIN sessions : Reaches(b, s)
      BY <3>2
    <3>4. sessions'[s] = sessions[s] /\ avatars'[b] = avatars[b] /\ b \in DOMAIN avatars'
      BY <1>2, <1>3, <3>1, <3>2, <3>3 DEF Reaches
    <3>5. connection_counter \in Nat /\ connection_counter <= connection_counter
      BY DEF IInv, LinesOK
    <3>6. Reaches(b, s)'
      BY <1>1, <1>2, <3>1, <3>2, <3>3, <3>4, <3>5, StillReaches DEF IInv
    <3> QED BY <1>2, <3>4, <3>6
  <2> QED BY <2>1 DEF Reaching
<1>10. AccountsOK'
  <2>1. \A s \in DOMAIN sessions' : sessions'[s].user \in DOMAIN users'
    BY <1>1, <1>2 DEF IInv, AccountsOK, AccountsAgree
  <2> QED BY <1>1, <2>1 DEF IInv, AccountsOK, AccountsAgree, Get
<1> QED BY <1>1, <1>5, <1>6, <1>7, <1>8, <1>9, <1>10 DEF IInv
-----------------------------------------------------------------------------
(* Before anything is tracked, and again after a restart.                  *)

Fresh ==
  /\ interactives = Empty /\ connection_counter = 0
  /\ holds = [ob \in CT!Objects |-> 0] /\ gone = {} /\ line_of = <<>>
  /\ sessions = <<>> /\ session_counter = 0
  /\ users = <<>> /\ usernames = Empty
  /\ players = <<>> /\ playersOf = Empty
  /\ avatars = Empty
  /\ restarts \in Nat

LEMMA FreshIsFine == Fresh => IInv
<1> SUFFICES ASSUME Fresh PROVE IInv
  OBVIOUS
<1>1. /\ DOMAIN sessions = {} /\ DOMAIN users = {} /\ DOMAIN players = {} /\ DOMAIN line_of = {}
      /\ DOMAIN avatars = {} /\ DOMAIN interactives = {} /\ DOMAIN usernames = {}
      /\ DOMAIN playersOf = {}
  BY DEF Fresh, Empty
<1>2. 1..0 = {} /\ 0 \in Nat
  OBVIOUS
<1>3. \A ob \in CT!Objects : holds[ob] = 0
  BY DEF Fresh
<1>4. SessionsOK /\ MastersOK
  BY <1>1, <1>2 DEF Fresh, SessionsOK, MastersOK
<1>5. BodiesOK
  BY <1>1, <1>2 DEF Fresh, BodiesOK
<1>6. LinesOK
  BY <1>1, <1>2, <1>3 DEF Fresh, LinesOK, CT!Objects
<1>7. Reaching
  BY <1>3 DEF Reaching, CT!Objects
<1>8. AccountsOK
  <2>1. users \in Seq(Usernames) /\ players \in Seq(1..Len(users))
    BY DEF Fresh
  <2>2. \A n \in Usernames : Get(usernames, n, {}) = {u \in DOMAIN users : users[u] = n}
    BY <1>1 DEF Get
  <2>3. DOMAIN playersOf = {players[p] : p \in DOMAIN players}
    BY <1>1
  <2> QED BY <1>1, <2>1, <2>2, <2>3 DEF AccountsOK, AccountsAgree
<1> QED BY <1>4, <1>5, <1>6, <1>7, <1>8 DEF Fresh, IInv

LEMMA InitIInv == Init => IInv
<1>1. Init => Fresh
  BY DEF Init, CT!Init, Fresh, Empty
<1> QED BY <1>1, FreshIsFine

LEMMA RestartKeeps == IInv /\ restart => IInv'
<1>1. IInv /\ restart => Fresh'
  BY DEF IInv, restart, Fresh
<1>2. Fresh' => IInv'
  BY FreshIsFine, PTL
<1> QED BY <1>1, <1>2

LEMMA FormsKeep ==
  ASSUME IInv, UNCHANGED <<lineVars, world>>
  PROVE  IInv'
<1>1. /\ holds' = holds /\ gone' = gone /\ moved_on' = moved_on /\ line_of' = line_of
      /\ connection_counter' = connection_counter /\ interactives' = interactives
      /\ UNCHANGED world
  BY DEF lineVars
<1>2. LinesOK'
  BY <1>1 DEF IInv, LinesOK
<1>3. connection_counter \in Nat /\ connection_counter <= connection_counter
  BY DEF IInv, LinesOK
<1>4. Reaching'
  BY <1>1, <1>3, ReachingStays
<1>5. BodiesOK'
  BY <1>1, WorldStays, BodiesStay DEF IInv
<1> QED BY <1>1, <1>2, <1>4, <1>5, WorldStays DEF IInv

LEMMA StepIInv == IInv /\ [Next]_vars => IInv'
<1> SUFFICES ASSUME IInv, [Next]_vars PROVE IInv'
  OBVIOUS
<1>1. CASE \E line \in Lines, login \in Logins : logon(line, login)
  BY <1>1, LogonKeeps
<1>2. CASE \/ \E login \in Logins : open_form(login)
           \/ \E who \in CT!Objects : give_up(who)
           \/ UNCHANGED vars
  BY <1>2, FormsKeep DEF open_form, give_up, vars, world
<1>3. CASE \E who \in CT!Objects, username \in Usernames : register(who, username)
  BY <1>3, RegisterKeeps
<1>4. CASE \E a \in Bodies : negotiate(a)
  BY <1>4, NegotiateKeeps
<1>5. CASE \E ob \in CT!Objects : hang_up(ob)
  BY <1>5, HangUpKeeps
<1>6. CASE \E login \in Logins : abort(login)
  BY <1>6, AbortKeeps
<1>7. CASE \E a \in Bodies : dest(a)
  BY <1>7, DestKeeps
<1>8. CASE restart
  BY <1>8, RestartKeeps
<1> QED BY <1>1, <1>2, <1>3, <1>4, <1>5, <1>6, <1>7, <1>8 DEF Next

LEMMA IInvHolds == Spec => []IInv
  BY InitIInv, StepIInv, PTL DEF Spec
-----------------------------------------------------------------------------
(* Sessions are brought up from the top.  What hangs below a session can   *)
(* be told from the links.  That no more sessions run unserved than forms  *)
(* were completed by avatars that the tracker does not know is counted: to *)
(* each such session belongs a form of its own, a line that was moved on   *)
(* and a number that the forms open on this line have since fallen below.  *)

LinksOK ==
  \A s \in DOMAIN sessions : \A p \in sessions[s].supersessions :
    /\ p \in DOMAIN sessions
    /\ sessions[s].state = RUNNING => sessions[p].connections # <<>>
    /\ sessions[p].user = sessions[s].user
    /\ sessions[s].user \in DOMAIN playersOf

Known(made, line) == line \in Lines /\ \E c \in DOMAIN made : made[c] = line

HoldersOK ==
  /\ \A o \in CT!Objects : holds[o] # 0 => Known(line_of, holds[o])
  /\ \A o, q \in CT!Objects : holds[o] = holds[q] => o = q \/ holds[o] = 0
  /\ \A line \in moved_on : Known(line_of, line)
  /\ \A login \in Logins : holds[login] # 0 => holds[login] \notin moved_on

FormsOK ==
  /\ forms \in [Lines -> 0..MaxForms]
  /\ \A a \in Bodies : holds[a] # 0 => forms[holds[a]] < MaxForms
  /\ \A line \in moved_on : forms[line] < MaxForms

Unserved ==
  {s \in DOMAIN sessions : /\ sessions[s].state = RUNNING
                           /\ sessions[s].connections = <<>>
                           /\ sessions[s].supersessions = {}}

FormsOf(ls) == ls \X (1..(MaxForms - 1))

Charges(g, ss, ls, fs) ==
  /\ g \in [ss -> FormsOf(ls)]
  /\ \A s, t \in ss : g[s] = g[t] => s = t
  /\ \A s \in ss : fs[g[s][1]] < g[s][2]

UnservedOK == IsFiniteSet(moved_on) /\ \E g : Charges(g, Unserved, moved_on, forms)

TopInv == LinksOK /\ HoldersOK /\ FormsOK /\ UnservedOK

\* What an outcome says of the new sessions, from the top.
FromTheTop(who, user) ==
  /\ sessions'[sid].supersessions = {}
  /\ ssid \in DOMAIN sessions' =>
       /\ sessions'[ssid].supersessions = {sid} /\ user \in DOMAIN playersOf'
       /\ sessions'[ssid].state = RUNNING => sessions'[sid].connections # <<>>
  /\ sessions'[sid].state = RUNNING /\ sessions'[sid].connections = <<>> =>
       CT!exec(who, Clone(1)) /\ CT!query_connection(interactives, who) = 0
  /\ DOMAIN playersOf \subseteq DOMAIN playersOf'

LEMMA PlayerIsThere ==
  ASSUME NEW user, get_player(user)
  PROVE  user \in DOMAIN playersOf' /\ DOMAIN playersOf \subseteq DOMAIN playersOf'
  BY DEF get_player, Get, playerVars, CT!With

LEMMA NewIsNotRunning == NEW_ # RUNNING
  BY DEF NEW_, RUNNING, ST!SESSION_STATE_NEW, ST!SESSION_STATE_RUNNING

LEMMA NoAvatarFromTheTop ==
  ASSUME SessionsOK, NEW who, NEW user, no_avatar(user)
  PROVE  FromTheTop(who, user)
<1>1. /\ sessions' = Started(user) /\ playersOf' = playersOf
  BY DEF no_avatar, playerVars
<1>2. DOMAIN sessions' = 1..sid /\ sessions'[sid] = ST!NewInfo(user, 0, 1)
  BY <1>1, StartedIs
<1>3. sessions'[sid].supersessions = {} /\ sessions'[sid].state = NEW_
  BY <1>2 DEF ST!NewInfo, NEW_
<1> QED BY <1>1, <1>2, <1>3, SidsAre, NewIsNotRunning DEF FromTheTop

LEMMA NoPlayerAvatarFromTheTop ==
  ASSUME SessionsOK, NEW who, NEW user, no_player_avatar(user)
  PROVE  FromTheTop(who, user)
<1>1. /\ sessions' = WithBody(user) /\ get_player(user)
  BY DEF no_player_avatar
<1>2. /\ DOMAIN sessions' = 1..sid
      /\ sessions'[sid] = [ST!NewInfo(user, 0, 1) EXCEPT !.avatar = Clone(1)]
  BY <1>1, WithBodyIs
<1>3. sessions'[sid].supersessions = {} /\ sessions'[sid].state = NEW_
  BY <1>2 DEF ST!NewInfo, NEW_
<1> QED BY <1>1, <1>2, <1>3, SidsAre, NewIsNotRunning, PlayerIsThere DEF FromTheTop

LEMMA NotAnAvatarFromTheTop ==
  ASSUME SessionsOK, NEW who, NEW user, not_an_avatar(user)
  PROVE  FromTheTop(who, user)
<1> DEFINE r == [ST!NewInfo(user, 0, 1) EXCEPT !.avatar = Clone(1)]
<1>1. /\ sessions' = WithSubsession(user) /\ get_player(user)
  BY DEF not_an_avatar
<1>2. /\ DOMAIN sessions' = 1..ssid /\ SameBut(sessions'[sid], r)
      /\ sessions'[ssid] = ST!NewInfo(user, sid, 1)
  BY <1>1, WithSubsessionIs
<1>3. r.supersessions = {} /\ r.state = NEW_
  BY DEF ST!NewInfo, NEW_
<1> HIDE DEF r
<1>4. sessions'[sid].supersessions = {} /\ sessions'[sid].state = NEW_
  BY <1>2, <1>3 DEF SameBut
<1>5. sessions'[ssid].supersessions = {sid} \ {0} /\ sessions'[ssid].state = NEW_
  BY <1>2 DEF ST!NewInfo, NEW_
<1>6. sid # 0
  BY DEF SessionsOK, sid
<1> QED BY <1>1, <1>4, <1>5, <1>6, NewIsNotRunning, PlayerIsThere DEF FromTheTop

LEMMA UnknownFromTheTop ==
  ASSUME SessionsOK, NEW who, NEW user, unknown_to_the_tracker(who, user)
  PROVE  FromTheTop(who, user)
<1>1. /\ sessions' = ST!Resumed(Prepared(user), sid) /\ get_player(user)
      /\ CT!exec(who, Clone(1)) /\ CT!query_connection(interactives, who) = 0
  BY DEF unknown_to_the_tracker
<1>2. /\ \A s \in 1..ssid \ {sid} : sessions'[s] = Prepared(user)[s]
      /\ Runs(sessions'[sid], user, 0, Clone(1))
  <2>1. /\ Infos(Prepared(user)) /\ DOMAIN Prepared(user) = 1..ssid /\ sid \in 1..ssid
        /\ IsNew(Prepared(user)[sid], user, 0, Clone(1))
    BY PreparedAreNew, SidsAre
  <2> QED BY <1>1, <2>1, ResumedOf
<1>3. IsNew(sessions'[ssid], user, sid, Clone(2))
  BY <1>2, PreparedAreNew, SidsAre
<1>4. sid # 0
  BY DEF SessionsOK, sid
<1>5. sessions'[sid].supersessions = {}
  BY <1>2 DEF Runs
<1>6. sessions'[ssid].supersessions = {sid} /\ sessions'[ssid].state = NEW_
  BY <1>3, <1>4 DEF IsNew
<1> QED BY <1>1, <1>5, <1>6, NewIsNotRunning, PlayerIsThere DEF FromTheTop

LEMMA PlayerRefusesFromTheTop ==
  ASSUME SessionsOK, NEW who, NEW user, player_refuses(who, user)
  PROVE  FromTheTop(who, user)
<1>1. sessions' = Served(Prepared(user), who) /\ get_player(user)
  BY DEF player_refuses
<1>2. /\ sessions'[sid].supersessions = {} /\ Len(sessions'[sid].connections) = 1
      /\ IsNew(sessions'[ssid], user, sid, Clone(2))
  BY <1>1, ServedIs
<1>3. sid # 0 /\ sessions'[sid].connections # <<>>
  BY <1>2 DEF SessionsOK, sid
<1>4. sessions'[ssid].supersessions = {sid}
  BY <1>2, <1>3 DEF IsNew
<1> QED BY <1>1, <1>2, <1>3, <1>4, PlayerIsThere DEF FromTheTop

LEMMA DescendFromTheTop ==
  ASSUME SessionsOK, NEW who, NEW user, NEW completed \in BOOLEAN,
         descend(who, user, completed)
  PROVE  FromTheTop(who, user)
<1> DEFINE before == Served(Prepared(user), who)
<1>1. sessions' = ST!Resumed(before, ssid) /\ get_player(user)
  BY DEF descend
<1>2. /\ DOMAIN before = 1..ssid /\ Infos(before)
      /\ before[sid].supersessions = {} /\ Len(before[sid].connections) = 1
      /\ IsNew(before[ssid], user, sid, Clone(2))
  BY ServedIs
<1> HIDE DEF before
<1>3. /\ \A s \in 1..ssid \ {ssid} : sessions'[s] = before[s]
      /\ Runs(sessions'[ssid], user, sid, Clone(2))
  <2>1. ssid \in DOMAIN before
    BY <1>2, SidsAre
  <2> QED BY <1>1, <1>2, <2>1, ResumedOf
<1>4. sid # 0 /\ before[sid].connections # <<>>
  BY <1>2 DEF SessionsOK, sid
<1>5. sessions'[sid] = before[sid]
  BY <1>3, SidsAre
<1>6. sessions'[ssid].supersessions = {sid}
  BY <1>3, <1>4 DEF Runs
<1> QED BY <1>1, <1>2, <1>4, <1>5, <1>6, PlayerIsThere DEF FromTheTop

LEMMA EveryOutcomeIsFromTheTop ==
  ASSUME SessionsOK, NEW who, NEW user, attach_session(who, user)
  PROVE  FromTheTop(who, user)
  BY NoAvatarFromTheTop, NoPlayerAvatarFromTheTop, NotAnAvatarFromTheTop,
     UnknownFromTheTop, PlayerRefusesFromTheTop, DescendFromTheTop DEF attach_session

LEMMA OutcomeKeepsLinks ==
  ASSUME SessionsOK, LinksOK, NEW who, NEW user, Outcome(who, user), FromTheTop(who, user)
  PROVE  LinksOK'
<1>1. ASSUME NEW s \in DOMAIN sessions', NEW p \in sessions'[s].supersessions
      PROVE  /\ p \in DOMAIN sessions'
             /\ sessions'[s].state = RUNNING => sessions'[p].connections # <<>>
             /\ sessions'[p].user = sessions'[s].user
             /\ sessions'[s].user \in DOMAIN playersOf'
  <2>1. CASE s \in DOMAIN sessions
    <3>1. sessions'[s] = sessions[s] /\ p \in sessions[s].supersessions
      BY <1>1, <2>1 DEF Outcome
    <3>2. p \in DOMAIN sessions
      BY <2>1, <3>1 DEF LinksOK
    <3>3. sessions'[p] = sessions[p] /\ p \in DOMAIN sessions'
      BY <3>2, OutcomeAdds DEF Outcome
    <3>4. DOMAIN playersOf \subseteq DOMAIN playersOf'
      BY DEF FromTheTop
    <3> QED BY <2>1, <3>1, <3>3, <3>4 DEF LinksOK
  <2>2. CASE s \notin DOMAIN sessions
    <3>1. s = sid \/ s = ssid
      BY <1>1, <2>2, OutcomeSessions DEF sid, ssid
    <3>2. s = ssid
      BY <1>1, <3>1 DEF FromTheTop
    <3>3. /\ p = sid /\ user \in DOMAIN playersOf'
          /\ sessions'[ssid].state = RUNNING => sessions'[sid].connections # <<>>
      BY <1>1, <3>2 DEF FromTheTop
    <3>4. sid \in DOMAIN sessions'
      BY SidsAre DEF Outcome
    <3>5. sessions'[sid].user = user /\ sessions'[ssid].user = user
      BY <1>1, <3>2, <3>4 DEF Outcome, NewOnes, sid, ssid
    <3> QED BY <3>2, <3>3, <3>4, <3>5
  <2> QED BY <2>1, <2>2
<1> QED BY <1>1 DEF LinksOK, RUNNING

\* Where the links stay, all of a destructed avatar's sessions but the avatar.
LEMMA DestLinks ==
  ASSUME SessionsOK, NEW a, dest(a)
  PROVE  /\ DOMAIN sessions' = DOMAIN sessions
         /\ \A s \in DOMAIN sessions :
              /\ sessions'[s].state = sessions[s].state
              /\ sessions'[s].user = sessions[s].user
              /\ sessions'[s].connections = sessions[s].connections
              /\ sessions'[s].supersessions = sessions[s].supersessions
<1>1. sessions' = [s \in DOMAIN sessions |->
                     IF sessions[s].avatar = a
                       THEN [sessions[s] EXCEPT !.avatar = 0] ELSE sessions[s]]
  BY DEF dest
<1>2. ASSUME NEW s \in DOMAIN sessions
      PROVE  /\ sessions'[s].state = sessions[s].state
             /\ sessions'[s].user = sessions[s].user
             /\ sessions'[s].connections = sessions[s].connections
             /\ sessions'[s].supersessions = sessions[s].supersessions
  <2>1. IsInfo(sessions[s])
    BY DEF SessionsOK
  <2>2. sessions'[s] = sessions[s] \/ sessions'[s] = [sessions[s] EXCEPT !.avatar = 0]
    BY <1>1
  <2> QED BY <2>1, <2>2 DEF IsInfo
<1> QED BY <1>1, <1>2
-----------------------------------------------------------------------------
(* Who holds which line, and how many forms are open on it.                *)

LEMMA KnownStays ==
  ASSUME NEW line, NEW made, Known(made, line), NEW more,
         \A c \in DOMAIN made : c \in DOMAIN more /\ more[c] = made[c]
  PROVE  Known(more, line)
  BY DEF Known

\* Lines are at most let go.
LEMMA HoldersStay ==
  ASSUME HoldersOK, moved_on' = moved_on,
         \A o \in CT!Objects : holds'[o] # 0 => holds'[o] = holds[o],
         \A c \in DOMAIN line_of : c \in DOMAIN line_of' /\ line_of'[c] = line_of[c]
  PROVE  HoldersOK'
<1>1. \A line : Known(line_of, line) => Known(line_of', line)
  BY KnownStays
<1>2. \A o \in CT!Objects : holds'[o] # 0 => Known(line_of', holds'[o])
  BY <1>1 DEF HoldersOK
<1>3. ASSUME NEW o \in CT!Objects, NEW q \in CT!Objects, holds'[o] = holds'[q], holds'[o] # 0
      PROVE  o = q
  BY <1>3 DEF HoldersOK
<1>4. \A line \in moved_on' : Known(line_of', line)
  BY <1>1 DEF HoldersOK
<1>5. \A login \in Logins : holds'[login] # 0 => holds'[login] \notin moved_on'
  BY DEF HoldersOK, CT!Objects
<1> QED BY <1>2, <1>3, <1>4, <1>5 DEF HoldersOK, CT!Objects

\* Forms are at most closed.
LEMMA FormsStay ==
  ASSUME HoldersOK, FormsOK, moved_on' = moved_on,
         \A a \in Bodies : holds'[a] # 0 => holds'[a] = holds[a],
         forms' \in [Lines -> Nat], \A line \in Lines : forms'[line] <= forms[line]
  PROVE  FormsOK'
<1>1. MaxForms \in Nat
  BY BoundsAreNumbers
<1>2. /\ \A line \in Lines : forms[line] \in 0..MaxForms
      /\ \A a \in Bodies : holds[a] # 0 => holds[a] \in Lines
      /\ moved_on \subseteq Lines
  BY DEF HoldersOK, FormsOK, Known, CT!Objects
<1>3. ASSUME NEW line \in Lines
      PROVE  /\ forms'[line] \in 0..MaxForms
             /\ forms[line] < MaxForms => forms'[line] < MaxForms
  BY <1>1, <1>2
<1>4. forms' \in [Lines -> 0..MaxForms]
  BY <1>3
<1>5. ASSUME NEW a \in Bodies, holds'[a] # 0 PROVE forms'[holds'[a]] < MaxForms
  BY <1>2, <1>3, <1>5 DEF FormsOK
<1>6. ASSUME NEW line \in moved_on' PROVE forms'[line] < MaxForms
  BY <1>2, <1>3, <1>6 DEF FormsOK
<1> QED BY <1>4, <1>5, <1>6 DEF FormsOK, CT!Objects, Bodies

LEMMA OneFormLess ==
  ASSUME FormsOK, NEW line \in Lines, forms[line] > 0,
         forms' = [forms EXCEPT ![line] = @ - 1]
  PROVE  /\ forms' \in [Lines -> Nat] /\ \A l \in Lines : forms'[l] <= forms[l]
         /\ forms'[line] < forms[line] /\ forms[line] \in Nat
<1>1. MaxForms \in Nat /\ \A l \in Lines : forms[l] \in 0..MaxForms
  BY BoundsAreNumbers DEF FormsOK
<1>2. forms'[line] = forms[line] - 1 /\ \A l \in Lines \ {line} : forms'[l] = forms[l]
  BY DEF FormsOK
<1>3. \A l \in Lines : forms'[l] \in Nat /\ forms'[l] <= forms[l]
  BY <1>1, <1>2
<1>4. forms' \in [Lines -> Nat]
  <2>1. DOMAIN forms' = Lines /\ forms' = [l \in DOMAIN forms' |-> forms'[l]]
    BY DEF FormsOK
  <2> QED BY <1>3, <2>1, Zenon
<1> QED BY <1>1, <1>2, <1>3, <1>4

LEMMA ClosedIsLess ==
  ASSUME FormsOK, NEW ob, forms' = Closed(ob)
  PROVE  forms' \in [Lines -> Nat] /\ \A l \in Lines : forms'[l] <= forms[l]
<1>1. MaxForms \in Nat /\ \A l \in Lines : forms[l] \in 0..MaxForms
  BY BoundsAreNumbers DEF FormsOK
<1>2. \A l \in Lines : forms'[l] = 0 \/ forms'[l] = forms[l]
  BY DEF Closed
<1> QED BY <1>1, <1>2 DEF Closed
-----------------------------------------------------------------------------
(* The count.                                                              *)

\* No more sessions are unserved, and forms are at most closed on the lines
\* that were moved on.
LEMMA UnservedStay ==
  ASSUME UnservedOK, HoldersOK, FormsOK, Unserved' \subseteq Unserved,
         moved_on \subseteq moved_on', IsFiniteSet(moved_on'), forms' \in [Lines -> Int],
         \A line \in moved_on : forms'[line] <= forms[line]
  PROVE  UnservedOK'
<1>1. PICK g : Charges(g, Unserved, moved_on, forms)
  BY DEF UnservedOK
<1> DEFINE h == [s \in Unserved' |-> g[s]]
<1>2. FormsOf(moved_on) \subseteq FormsOf(moved_on')
  BY DEF FormsOf
<1>3. g \in [Unserved -> FormsOf(moved_on)]
  BY <1>1 DEF Charges
<1>4. h \in [Unserved' -> FormsOf(moved_on')]
  BY <1>2, <1>3
<1>5. \A s \in Unserved' : h[s] = g[s] /\ s \in Unserved
  OBVIOUS
<1> HIDE DEF h
<1>6. \A s, t \in Unserved' : h[s] = h[t] => s = t
  BY <1>1, <1>5 DEF Charges
<1>7. ASSUME NEW s \in Unserved' PROVE forms'[h[s][1]] < h[s][2]
  <2>1. forms[g[s][1]] < g[s][2] /\ g[s] \in FormsOf(moved_on)
    BY <1>1, <1>3, <1>5, <1>7 DEF Charges
  <2>2. g[s][1] \in moved_on /\ g[s][2] \in Int
    BY <2>1 DEF FormsOf
  <2>3. g[s][1] \in Lines
    BY <2>2 DEF HoldersOK, Known
  <2>4. forms[g[s][1]] \in Int /\ forms'[g[s][1]] \in Int
    BY <2>3 DEF FormsOK
  <2>5. forms'[g[s][1]] <= forms[g[s][1]]
    BY <2>2
  <2> QED BY <1>5, <1>7, <2>1, <2>2, <2>4, <2>5
<1>8. Charges(h, Unserved', moved_on', forms')
  BY <1>4, <1>6, <1>7 DEF Charges
<1> QED BY <1>8 DEF UnservedOK, Unserved, RUNNING

\* One more is unserved, at the cost of a form on a line that is moved on.
LEMMA UnservedGrow ==
  ASSUME UnservedOK, HoldersOK, FormsOK, NEW s0, Unserved' \subseteq Unserved \cup {s0},
         NEW line \in Lines, moved_on' = moved_on \cup {line},
         forms[line] \in 1..(MaxForms - 1), forms' \in [Lines -> Int],
         \A l \in Lines : forms'[l] <= forms[l], forms'[line] < forms[line]
  PROVE  UnservedOK'
<1>1. PICK g : Charges(g, Unserved, moved_on, forms)
  BY DEF UnservedOK
<1>2. IsFiniteSet(moved_on')
  BY FS_AddElement DEF UnservedOK
<1> DEFINE h == [s \in Unserved' |-> IF s \in Unserved THEN g[s] ELSE <<line, forms[line]>>]
<1>3. /\ g \in [Unserved -> FormsOf(moved_on)] /\ \A s, t \in Unserved : g[s] = g[t] => s = t
      /\ \A s \in Unserved : forms[g[s][1]] < g[s][2]
  BY <1>1 DEF Charges
<1>4. /\ FormsOf(moved_on) \subseteq FormsOf(moved_on')
      /\ <<line, forms[line]>> \in FormsOf(moved_on')
  BY DEF FormsOf
<1>5. h \in [Unserved' -> FormsOf(moved_on')]
  BY <1>3, <1>4
<1>6. /\ \A s \in Unserved' : s \in Unserved => h[s] = g[s]
      /\ \A s \in Unserved' : s \notin Unserved => h[s] = <<line, forms[line]>> /\ s = s0
  OBVIOUS
<1> HIDE DEF h
<1>7. ASSUME NEW s \in Unserved
      PROVE  /\ g[s] # <<line, forms[line]>> /\ g[s][1] \in Lines /\ g[s][2] \in Int
  <2>1. g[s] \in FormsOf(moved_on) /\ forms[g[s][1]] < g[s][2]
    BY <1>3, <1>7
  <2>2. g[s][1] \in moved_on /\ g[s][2] \in Int
    BY <2>1 DEF FormsOf
  <2>3. g[s][1] \in Lines
    BY <2>2 DEF HoldersOK, Known
  <2>4. CASE g[s] = <<line, forms[line]>>
    <3>1. g[s][1] = line /\ g[s][2] = forms[line]
      BY <2>4
    <3> QED BY <2>1, <3>1
  <2> QED BY <2>2, <2>3, <2>4
<1>8. ASSUME NEW s \in Unserved', NEW t \in Unserved', h[s] = h[t] PROVE s = t
  <2>1. CASE s \in Unserved /\ t \in Unserved
    BY <1>3, <1>6, <1>8, <2>1
  <2>2. CASE s \notin Unserved /\ t \notin Unserved
    BY <1>6, <1>8, <2>2
  <2>3. CASE s \in Unserved /\ t \notin Unserved
    BY <1>6, <1>7, <1>8, <2>3
  <2>4. CASE s \notin Unserved /\ t \in Unserved
    BY <1>6, <1>7, <1>8, <2>4
  <2> QED BY <2>1, <2>2, <2>3, <2>4
<1>9. ASSUME NEW s \in Unserved' PROVE forms'[h[s][1]] < h[s][2]
  <2>1. CASE s \in Unserved
    <3>1. /\ h[s] = g[s] /\ g[s][1] \in Lines /\ g[s][2] \in Int /\ forms[g[s][1]] < g[s][2]
      BY <1>3, <1>6, <1>7, <1>9, <2>1
    <3>2. forms'[g[s][1]] <= forms[g[s][1]] /\ forms'[g[s][1]] \in Int /\ forms[g[s][1]] \in Int
      BY <3>1 DEF FormsOK
    <3> QED BY <3>1, <3>2
  <2>2. CASE s \notin Unserved
    <3>1. h[s] = <<line, forms[line]>>
      BY <1>6, <1>9, <2>2
    <3>2. h[s][1] = line /\ h[s][2] = forms[line]
      BY <3>1
    <3> QED BY <3>2
  <2> QED BY <2>1, <2>2
<1>10. Charges(h, Unserved', moved_on', forms')
  BY <1>5, <1>8, <1>9 DEF Charges
<1> QED BY <1>2, <1>10 DEF UnservedOK, Unserved, RUNNING

\* There are no more of them than of such forms.
LEMMA UnservedAreFew ==
  ASSUME UnservedOK, HoldersOK, FormsOK
  PROVE  Cardinality(Unserved) <= (MaxForms - 1) * Cardinality(moved_on)
<1>1. PICK g : Charges(g, Unserved, moved_on, forms)
  BY DEF UnservedOK
<1>2. IsFiniteSet(moved_on) /\ MaxForms \in Nat
  BY BoundsAreNumbers DEF UnservedOK
<1>3. /\ IsFiniteSet(1..(MaxForms - 1))
      /\ Cardinality(1..(MaxForms - 1)) = IF 1 > MaxForms - 1 THEN 0 ELSE MaxForms - 1
  <2>1. 1 \in Int /\ MaxForms - 1 \in Int
    BY <1>2
  <2> QED BY <1>2, <2>1, FS_Interval
<1>4. /\ IsFiniteSet(FormsOf(moved_on))
      /\ Cardinality(FormsOf(moved_on)) = Cardinality(moved_on) * Cardinality(1..(MaxForms - 1))
  BY <1>2, <1>3, FS_Product DEF FormsOf
<1>5. Cardinality(Unserved) <= Cardinality(FormsOf(moved_on))
  <2>1. g \in Injection(Unserved, FormsOf(moved_on))
    <3>1. g \in [Unserved -> FormsOf(moved_on)] /\ \A s, t \in Unserved : g[s] = g[t] => s = t
      BY <1>1 DEF Charges
    <3> HIDE DEF Unserved, FormsOf
    <3> QED BY <3>1, Fun_IsInj
  <2> QED BY <1>4, <2>1, FS_Injection
<1>6. CASE moved_on = {}
  <2>1. Cardinality(moved_on) = 0
    BY <1>6, FS_EmptySet
  <2>2. Cardinality(1..(MaxForms - 1)) \in Nat
    BY <1>2, <1>3
  <2>3. Cardinality(FormsOf(moved_on)) = 0 /\ (MaxForms - 1) * Cardinality(moved_on) = 0
    BY <1>2, <1>4, <2>1, <2>2
  <2> QED BY <1>5, <2>3
<1>7. CASE moved_on # {}
  <2>1. PICK line \in moved_on : forms[line] < MaxForms
    BY <1>7 DEF FormsOK
  <2>2. Cardinality(1..(MaxForms - 1)) = MaxForms - 1
    <3>1. MaxForms >= 1
      <4>1. forms[line] \in 0..MaxForms
        BY <2>1 DEF FormsOK, HoldersOK, Known
      <4> QED BY <1>2, <2>1, <4>1
    <3> QED BY <1>2, <1>3, <3>1
  <2>3. Cardinality(moved_on) \in Nat
    BY <1>2, FS_CardinalityType
  <2>4. Cardinality(FormsOf(moved_on)) = (MaxForms - 1) * Cardinality(moved_on)
    BY <1>2, <1>4, <2>2, <2>3
  <2> QED BY <1>5, <2>4
<1> QED BY <1>6, <1>7
-----------------------------------------------------------------------------
(* Every step keeps it.                                                    *)

LEMMA WorldKeepsTop ==
  ASSUME TopInv, UNCHANGED world
  PROVE  LinksOK' /\ Unserved' = Unserved
<1>1. sessions' = sessions /\ playersOf' = playersOf
  BY DEF world, sessionVars, playerVars
<1> QED BY <1>1 DEF TopInv, LinksOK, Unserved, RUNNING

\* Lines are at most let go, connections added and forms closed.
LEMMA NothingGained ==
  ASSUME TopInv, LinksOK', Unserved' \subseteq Unserved, moved_on' = moved_on,
         \A o \in CT!Objects : holds'[o] # 0 => holds'[o] = holds[o],
         \A c \in DOMAIN line_of : c \in DOMAIN line_of' /\ line_of'[c] = line_of[c],
         forms' \in [Lines -> Nat], \A line \in Lines : forms'[line] <= forms[line]
  PROVE  TopInv'
<1>1. HoldersOK /\ FormsOK /\ UnservedOK
  BY DEF TopInv
<1>2. HoldersOK'
  BY <1>1, HoldersStay
<1>3. \A a \in Bodies : holds'[a] # 0 => holds'[a] = holds[a]
  BY DEF CT!Objects
<1>4. FormsOK'
  BY <1>1, <1>3, FormsStay
<1>5. /\ IsFiniteSet(moved_on') /\ forms' \in [Lines -> Int] /\ moved_on \subseteq moved_on'
      /\ \A line \in moved_on : forms'[line] <= forms[line]
  BY <1>1 DEF UnservedOK, HoldersOK, Known
<1>6. UnservedOK'
  BY <1>1, <1>5, UnservedStay
<1> QED BY <1>2, <1>4, <1>6 DEF TopInv

LEMMA SameForms ==
  ASSUME FormsOK, forms' = forms
  PROVE  forms' \in [Lines -> Nat] /\ \A line \in Lines : forms'[line] <= forms[line]
<1>1. MaxForms \in Nat /\ forms \in [Lines -> 0..MaxForms]
  BY BoundsAreNumbers DEF FormsOK
<1>2. forms \in [Lines -> Nat] /\ \A line \in Lines : forms[line] \in Nat
  BY <1>1
<1> QED BY <1>2

LEMMA LogonKeepsTop ==
  ASSUME IInv, TopInv, NEW line \in Lines, NEW login \in Logins, logon(line, login)
  PROVE  TopInv'
<1>1. /\ holds' = [holds EXCEPT ![login] = line] /\ moved_on' = moved_on /\ forms' = forms
      /\ line_of' = CT!With(line_of, connection_counter + 1, line)
      /\ \A c \in DOMAIN line_of : line_of[c] # line
      /\ UNCHANGED world
  BY DEF logon, CT!logon, CT!new_connection
<1>2. LinksOK' /\ Unserved' = Unserved /\ HoldersOK /\ FormsOK /\ UnservedOK
  BY <1>1, WorldKeepsTop DEF TopInv
<1>3. connection_counter \in Nat /\ DOMAIN line_of = 1..connection_counter
  BY DEF IInv, LinesOK
<1>4. /\ \A c \in DOMAIN line_of : c \in DOMAIN line_of' /\ line_of'[c] = line_of[c]
      /\ connection_counter + 1 \in DOMAIN line_of' /\ line_of'[connection_counter + 1] = line
  BY <1>1, <1>3 DEF CT!With
<1>5. Known(line_of', line) /\ ~Known(line_of, line)
  BY <1>1, <1>4 DEF Known
<1>6. \A l : Known(line_of, l) => Known(line_of', l)
  BY <1>4, KnownStays
<1>7. /\ login \in CT!Objects /\ DOMAIN holds = CT!Objects
      /\ holds'[login] = line /\ \A o \in CT!Objects \ {login} : holds'[o] = holds[o]
  BY <1>1 DEF IInv, LinesOK, CT!Objects
<1>8. HoldersOK'
  <2>1. \A o \in CT!Objects : holds'[o] # 0 => Known(line_of', holds'[o])
    BY <1>2, <1>5, <1>6, <1>7 DEF HoldersOK
  <2>2. \A o, q \in CT!Objects : holds'[o] = holds'[q] => o = q \/ holds'[o] = 0
    BY <1>2, <1>5, <1>7 DEF HoldersOK
  <2>3. \A l \in moved_on' : Known(line_of', l)
    BY <1>1, <1>2, <1>6 DEF HoldersOK
  <2>4. \A l \in Logins : holds'[l] # 0 => holds'[l] \notin moved_on'
    <3>1. line \notin moved_on
      BY <1>2, <1>5 DEF HoldersOK
    <3> QED BY <1>1, <1>2, <1>7, <3>1 DEF HoldersOK, CT!Objects
  <2> QED BY <2>1, <2>2, <2>3, <2>4 DEF HoldersOK, CT!Objects
<1>9. \A a \in Bodies : holds'[a] = holds[a]
  BY <1>7, LoginsAreNoAvatars DEF Bodies, CT!Objects
<1>10. forms' \in [Lines -> Nat] /\ \A l \in Lines : forms'[l] <= forms[l]
  BY <1>1, <1>2, SameForms
<1>11. FormsOK'
  BY <1>1, <1>2, <1>9, <1>10, FormsStay
<1>12. /\ IsFiniteSet(moved_on') /\ forms' \in [Lines -> Int]
       /\ \A l \in moved_on : forms'[l] <= forms[l]
  BY <1>1, <1>2, <1>10 DEF UnservedOK, HoldersOK, Known
<1>13. UnservedOK'
  BY <1>1, <1>2, <1>12, UnservedStay
<1> QED BY <1>2, <1>8, <1>11, <1>13 DEF TopInv

\* A form is only opened by a login object, whose line was never moved on.
LEMMA OpenFormKeepsTop ==
  ASSUME IInv, TopInv, NEW login \in Logins, open_form(login)
  PROVE  TopInv'
<1> DEFINE line == holds[login]
<1>1. /\ line # 0 /\ forms[line] < MaxForms /\ forms' = [forms EXCEPT ![line] = @ + 1]
      /\ holds' = holds /\ moved_on' = moved_on /\ line_of' = line_of /\ UNCHANGED world
  BY DEF open_form, CT!interactive, lineVars
<1>2. LinksOK' /\ Unserved' = Unserved /\ HoldersOK /\ FormsOK /\ UnservedOK
  BY <1>1, WorldKeepsTop DEF TopInv
<1>3. login \in CT!Objects /\ line \in Lines /\ line \notin moved_on
  BY <1>1, <1>2 DEF HoldersOK, Known, CT!Objects
<1>4. \A a \in Bodies : holds[a] # line
  <2> SUFFICES ASSUME NEW a \in Bodies, holds[a] = line PROVE FALSE
    OBVIOUS
  <2>1. a \in CT!Objects /\ a # login
    BY LoginsAreNoAvatars DEF Bodies, CT!Objects
  <2> QED BY <1>1, <1>2, <1>3, <2>1 DEF HoldersOK
<1>5. MaxForms \in Nat /\ forms \in [Lines -> 0..MaxForms]
  BY <1>2, BoundsAreNumbers DEF FormsOK
<1> HIDE DEF line
<1>6. forms'[line] = forms[line] + 1 /\ \A l \in Lines \ {line} : forms'[l] = forms[l]
  BY <1>1, <1>3, <1>5
<1>7. HoldersOK'
  BY <1>1, <1>2, HoldersStay
<1>8. \A l \in Lines : forms'[l] \in 0..MaxForms
  BY <1>1, <1>3, <1>5, <1>6
<1>9. forms' \in [Lines -> 0..MaxForms]
  <2>1. DOMAIN forms' = Lines /\ forms' = [l \in DOMAIN forms' |-> forms'[l]]
    BY <1>1, <1>5
  <2> QED BY <1>8, <2>1, Zenon
<1>10. FormsOK'
  <2>1. ASSUME NEW a \in Bodies, holds'[a] # 0 PROVE forms'[holds'[a]] < MaxForms
    <3>1. holds[a] \in Lines \ {line} /\ holds'[a] = holds[a]
      BY <1>1, <1>2, <1>4, <2>1 DEF HoldersOK, Known, CT!Objects
    <3> QED BY <1>2, <1>6, <2>1, <3>1 DEF FormsOK
  <2>2. ASSUME NEW l \in moved_on' PROVE forms'[l] < MaxForms
    <3>1. l \in moved_on /\ l \in Lines \ {line}
      BY <1>1, <1>2, <1>3, <2>2 DEF HoldersOK, Known
    <3> QED BY <1>2, <1>6, <3>1 DEF FormsOK
  <2> QED BY <1>9, <2>1, <2>2 DEF FormsOK, Bodies
<1>11. UnservedOK'
  <2>1. ASSUME NEW l \in moved_on PROVE forms'[l] <= forms[l]
    <3>1. l \in Lines \ {line}
      BY <1>2, <1>3 DEF HoldersOK, Known
    <3>2. forms'[l] = forms[l] /\ forms[l] \in Int
      BY <1>5, <1>6, <3>1
    <3> QED BY <3>2
  <2>2. forms' \in [Lines -> Int]
    <3>1. 0..MaxForms \subseteq Int
      OBVIOUS
    <3> QED BY <1>9, <3>1
  <2>3. IsFiniteSet(moved_on')
    BY <1>1, <1>2 DEF UnservedOK
  <2> QED BY <1>1, <1>2, <2>1, <2>2, <2>3, UnservedStay
<1> QED BY <1>2, <1>7, <1>10, <1>11 DEF TopInv

LEMMA GiveUpKeepsTop ==
  ASSUME TopInv, NEW who \in CT!Objects, give_up(who)
  PROVE  TopInv'
<1>1. /\ holds[who] # 0 /\ forms[holds[who]] > 0
      /\ forms' = [forms EXCEPT ![holds[who]] = @ - 1]
      /\ holds' = holds /\ moved_on' = moved_on /\ line_of' = line_of /\ UNCHANGED world
  BY DEF give_up, CT!interactive, lineVars
<1>2. holds[who] \in Lines /\ FormsOK
  BY <1>1 DEF TopInv, HoldersOK, Known
<1>3. forms' \in [Lines -> Nat] /\ \A l \in Lines : forms'[l] <= forms[l]
  BY <1>1, <1>2, OneFormLess
<1>4. LinksOK' /\ Unserved' = Unserved
  BY <1>1, WorldKeepsTop
<1> QED BY <1>1, <1>3, <1>4, NothingGained

LEMMA NegotiateKeepsTop ==
  ASSUME IInv, TopInv, NEW a \in Bodies, negotiate(a)
  PROVE  TopInv'
<1>1. /\ holds' = holds /\ moved_on' = moved_on /\ forms' = forms
      /\ line_of' = CT!With(line_of, connection_counter + 1, holds[a])
      /\ UNCHANGED world
  BY DEF negotiate, CT!negotiation_of_untracked
<1>2. connection_counter \in Nat /\ DOMAIN line_of = 1..connection_counter
  BY DEF IInv, LinesOK
<1>3. \A c \in DOMAIN line_of : c \in DOMAIN line_of' /\ line_of'[c] = line_of[c]
  BY <1>1, <1>2 DEF CT!With
<1>4. forms' \in [Lines -> Nat] /\ \A l \in Lines : forms'[l] <= forms[l]
  BY <1>1, SameForms DEF TopInv
<1>5. LinksOK' /\ Unserved' = Unserved
  BY <1>1, WorldKeepsTop
<1> QED BY <1>1, <1>3, <1>4, <1>5, NothingGained

LEMMA HangUpKeepsTop ==
  ASSUME IInv, TopInv, NEW ob \in CT!Objects, hang_up(ob)
  PROVE  TopInv'
<1>1. /\ holds' = [holds EXCEPT ![ob] = 0] /\ moved_on' = moved_on /\ forms' = Closed(ob)
      /\ line_of' = line_of /\ UNCHANGED world
  BY DEF hang_up, CT!hang_up, CT!tracked
<1>2. \A o \in CT!Objects : holds'[o] # 0 => holds'[o] = holds[o]
  BY <1>1 DEF IInv, LinesOK
<1>3. forms' \in [Lines -> Nat] /\ \A l \in Lines : forms'[l] <= forms[l]
  BY <1>1, ClosedIsLess DEF TopInv
<1>4. LinksOK' /\ Unserved' = Unserved
  BY <1>1, WorldKeepsTop
<1> QED BY <1>1, <1>2, <1>3, <1>4, NothingGained

LEMMA AbortKeepsTop ==
  ASSUME IInv, TopInv, NEW login \in Logins, abort(login)
  PROVE  TopInv'
<1>1. /\ moved_on' = moved_on /\ line_of' = line_of /\ forms' = Closed(login)
      /\ CT!destruct(login) /\ UNCHANGED world
  BY DEF abort, CT!destruct
<1>2. login \in CT!Objects
  BY DEF CT!Objects
<1>3. \A o \in CT!Objects : holds'[o] # 0 => holds'[o] = holds[o]
  BY <1>1, <1>2, DestructKeepsLines DEF IInv
<1>4. forms' \in [Lines -> Nat] /\ \A l \in Lines : forms'[l] <= forms[l]
  BY <1>1, ClosedIsLess DEF TopInv
<1>5. LinksOK' /\ Unserved' = Unserved
  BY <1>1, WorldKeepsTop
<1> QED BY <1>1, <1>3, <1>4, <1>5, NothingGained

LEMMA DestKeepsTop ==
  ASSUME IInv, TopInv, NEW a \in Bodies, dest(a)
  PROVE  TopInv'
<1>1. /\ moved_on' = moved_on /\ line_of' = line_of /\ forms' = Closed(a)
      /\ CT!destruct(a) /\ playersOf' = playersOf
  BY DEF dest, CT!destruct, playerVars
<1>2. a \in CT!Objects
  BY DEF CT!Objects, Bodies
<1>3. \A o \in CT!Objects : holds'[o] # 0 => holds'[o] = holds[o]
  BY <1>1, <1>2, DestructKeepsLines DEF IInv
<1>4. forms' \in [Lines -> Nat] /\ \A l \in Lines : forms'[l] <= forms[l]
  BY <1>1, ClosedIsLess DEF TopInv
<1>5. /\ DOMAIN sessions' = DOMAIN sessions
      /\ \A s \in DOMAIN sessions :
           /\ sessions'[s].state = sessions[s].state
           /\ sessions'[s].user = sessions[s].user
           /\ sessions'[s].connections = sessions[s].connections
           /\ sessions'[s].supersessions = sessions[s].supersessions
  BY DestLinks DEF IInv
<1>6. LinksOK'
  BY <1>1, <1>5 DEF TopInv, LinksOK, RUNNING
<1>7. Unserved' \subseteq Unserved
  BY <1>5 DEF Unserved, RUNNING
<1> QED BY <1>1, <1>3, <1>4, <1>6, <1>7, NothingGained

\* The line goes from its holder to an avatar that held none.
LEMMA MovedLineIsHeld ==
  ASSUME IInv, TopInv, NEW who \in CT!Objects, CT!interactive(who), CT!exec(who, Clone(1)),
         Clone(1) \in Bodies, forms[holds[who]] > 0,
         forms' = [forms EXCEPT ![holds[who]] = @ - 1]
  PROVE  HoldersOK' /\ FormsOK'
<1> DEFINE line == holds[who]
           body == Clone(1)
<1>1. /\ line # 0 /\ holds[body] = 0 /\ line_of' = line_of
      /\ holds' = [holds EXCEPT ![body] = line, ![who] = 0]
      /\ moved_on' = IF who \in Bodies THEN moved_on \cup {line} ELSE moved_on
  BY DEF CT!exec, CT!interactive
<1>2. HoldersOK /\ FormsOK
  BY DEF TopInv
<1>3. line \in Lines /\ Known(line_of, line)
  BY <1>1, <1>2 DEF HoldersOK, Known
<1>4. /\ forms' \in [Lines -> Nat] /\ \A l \in Lines : forms'[l] <= forms[l]
      /\ forms'[line] < forms[line] /\ forms[line] \in Nat
  BY <1>2, <1>3, OneFormLess
<1>5. body \in CT!Objects /\ body # who /\ body \notin Logins
  BY <1>1, LoginsAreNoAvatars DEF CT!Objects, Bodies
<1> HIDE DEF line, body
<1>6. /\ holds'[body] = line /\ holds'[who] = 0
      /\ \A o \in CT!Objects \ {who, body} : holds'[o] = holds[o]
  BY <1>1, <1>5 DEF IInv, LinesOK
<1>7. holds[who] = line
  BY DEF line
<1>8. HoldersOK'
  <2>1. \A o \in CT!Objects : holds'[o] # 0 => Known(line_of', holds'[o])
    BY <1>1, <1>2, <1>3, <1>6 DEF HoldersOK
  <2>2. \A o, q \in CT!Objects : holds'[o] = holds'[q] => o = q \/ holds'[o] = 0
    BY <1>2, <1>6, <1>7 DEF HoldersOK
  <2>3. \A l \in moved_on' : Known(line_of', l)
    BY <1>1, <1>2, <1>3 DEF HoldersOK
  <2>4. ASSUME NEW l \in Logins, holds'[l] # 0 PROVE holds'[l] \notin moved_on'
    <3>1. l \in CT!Objects /\ l # who /\ l # body
      BY <1>5, <1>6, <2>4 DEF CT!Objects
    <3>2. holds'[l] = holds[l] /\ holds[l] # line /\ holds[l] \notin moved_on
      BY <1>1, <1>2, <1>6, <1>7, <2>4, <3>1 DEF HoldersOK
    <3> QED BY <1>1, <3>2
  <2> QED BY <2>1, <2>2, <2>3, <2>4 DEF HoldersOK, CT!Objects
<1>9. FormsOK'
  <2>1. MaxForms \in Nat /\ \A l \in Lines : forms[l] \in 0..MaxForms /\ forms'[l] \in Nat
    BY <1>2, <1>4, BoundsAreNumbers DEF FormsOK
  <2>2. \A l \in Lines : /\ forms'[l] \in 0..MaxForms
                         /\ forms[l] < MaxForms => forms'[l] < MaxForms
    BY <1>4, <2>1
  <2>3. forms'[line] < MaxForms
    BY <1>3, <1>4, <2>1
  <2>4. forms' \in [Lines -> 0..MaxForms]
    BY <1>4, <2>2
  <2>5. ASSUME NEW a \in Bodies, holds'[a] # 0 PROVE forms'[holds'[a]] < MaxForms
    <3>1. CASE a = body
      BY <1>6, <2>3, <3>1
    <3>2. CASE a # body
      <4>1. a \in CT!Objects /\ holds'[a] = holds[a]
        BY <1>6, <2>5, <3>2 DEF CT!Objects
      <4>2. holds[a] \in Lines /\ forms[holds[a]] < MaxForms
        BY <1>2, <2>5, <4>1 DEF HoldersOK, FormsOK, Known
      <4> QED BY <2>2, <4>1, <4>2
    <3> QED BY <3>1, <3>2
  <2>6. ASSUME NEW l \in moved_on' PROVE forms'[l] < MaxForms
    <3>1. CASE l = line
      BY <2>3, <3>1
    <3>2. CASE l # line
      <4>1. l \in moved_on /\ l \in Lines /\ forms[l] < MaxForms
        BY <1>1, <1>2, <2>6, <3>2 DEF HoldersOK, FormsOK, Known
      <4> QED BY <2>2, <4>1
    <3> QED BY <3>1, <3>2
  <2> QED BY <2>4, <2>5, <2>6 DEF FormsOK, Bodies
<1> QED BY <1>8, <1>9

\* Which sessions are unserved after the command.
LEMMA NewUnserved ==
  ASSUME SessionsOK, NEW who, NEW user, Outcome(who, user), FromTheTop(who, user)
  PROVE  /\ Unserved' \subseteq Unserved \cup {sid}
         /\ ~(CT!exec(who, Clone(1)) /\ CT!query_connection(interactives, who) = 0) =>
              Unserved' \subseteq Unserved
<1>1. ASSUME NEW s \in Unserved', s \notin Unserved
      PROVE  /\ s = sid
             /\ CT!exec(who, Clone(1)) /\ CT!query_connection(interactives, who) = 0
  <2>1. /\ s \in DOMAIN sessions' /\ sessions'[s].state = RUNNING
        /\ sessions'[s].connections = <<>> /\ sessions'[s].supersessions = {}
    BY <1>1 DEF Unserved, RUNNING
  <2>2. s \notin DOMAIN sessions
    <3> SUFFICES ASSUME s \in DOMAIN sessions PROVE FALSE
      OBVIOUS
    <3>1. sessions'[s] = sessions[s]
      BY DEF Outcome
    <3> QED BY <1>1, <2>1, <3>1 DEF Unserved
  <2>3. s = sid \/ s = ssid
    BY <2>1, <2>2, OutcomeSessions DEF sid, ssid
  <2>4. s = sid
    BY <2>1, <2>3 DEF FromTheTop
  <2> QED BY <2>1, <2>4 DEF FromTheTop
<1> QED BY <1>1

LEMMA RegisterKeepsTop ==
  ASSUME IInv, TopInv, NEW who \in CT!Objects, NEW username \in Usernames,
         register(who, username)
  PROVE  TopInv'
<1> DEFINE user == user_counter + 1
           line == holds[who]
<1>1. /\ CT!interactive(who) /\ line # 0 /\ forms[line] > 0 /\ attach_session(who, user)
      /\ forms' = [forms EXCEPT ![line] = @ - 1]
  BY DEF register, CT!interactive
<1> HIDE DEF user
<1>2. /\ Outcome(who, user) /\ FromTheTop(who, user) /\ SessionsOK /\ LinesOK
      /\ LinksOK /\ HoldersOK /\ FormsOK /\ UnservedOK
  BY <1>1, EveryOutcome, EveryOutcomeIsFromTheTop DEF IInv, TopInv
<1>3. LinksOK'
  BY <1>2, OutcomeKeepsLinks
<1>4. line \in Lines
  BY <1>1, <1>2 DEF HoldersOK, Known
<1>5. /\ forms' \in [Lines -> Nat] /\ \A l \in Lines : forms'[l] <= forms[l]
      /\ forms'[line] < forms[line] /\ forms[line] \in Nat
  BY <1>1, <1>2, <1>4, OneFormLess
<1>6. /\ Unserved' \subseteq Unserved \cup {sid}
      /\ ~(CT!exec(who, Clone(1)) /\ CT!query_connection(interactives, who) = 0) =>
           Unserved' \subseteq Unserved
  BY <1>2, NewUnserved
<1>7. forms' \in [Lines -> Int] /\ \A l \in moved_on : forms'[l] <= forms[l]
  BY <1>2, <1>5 DEF HoldersOK, Known
<1>8. CASE ~CT!exec(who, Clone(1))
  <2>1. holds' = holds /\ moved_on' = moved_on /\ line_of' = line_of
    BY <1>2, <1>8 DEF Outcome, LineGoes, lineVars
  <2> QED BY <1>3, <1>5, <1>6, <1>8, <2>1, NothingGained
<1>9. CASE CT!exec(who, Clone(1))
  <2>1. Clone(1) \in Bodies
    <3>1. holds'[who] = 0 /\ holds[who] # 0
      BY <1>1, <1>2, <1>9 DEF CT!exec, CT!interactive, LinesOK
    <3>2. Clone(1) \in DOMAIN avatars'
      BY <1>2, <3>1 DEF Outcome, LineGoes, lineVars
    <3> QED BY <1>2, <3>2 DEF Outcome, NewOnes
  <2>2. HoldersOK' /\ FormsOK'
    BY <1>1, <1>9, <2>1, MovedLineIsHeld
  <2>3. moved_on' = IF who \in Bodies THEN moved_on \cup {line} ELSE moved_on
    BY <1>9 DEF CT!exec
  <2>4. CASE CT!query_connection(interactives, who) # 0
    <3>1. IsFiniteSet(moved_on') /\ moved_on \subseteq moved_on'
      BY <1>2, <2>3, FS_AddElement DEF UnservedOK
    <3>2. UnservedOK'
      BY <1>2, <1>6, <1>7, <2>4, <3>1, UnservedStay
    <3> QED BY <1>3, <2>2, <3>2 DEF TopInv
  <2>5. CASE CT!query_connection(interactives, who) = 0
    <3>1. who \notin DOMAIN interactives
      BY <1>2, <2>5 DEF CT!query_connection, LinesOK
    <3>2. who \in Bodies
      BY <1>1, <1>2, <3>1 DEF LinesOK, CT!Objects
    <3>3. moved_on' = moved_on \cup {line}
      BY <2>3, <3>2
    <3>4. forms[line] \in 1..(MaxForms - 1)
      BY <1>1, <1>2, <1>5, <3>2, BoundsAreNumbers DEF FormsOK
    <3> HIDE DEF line
    <3>5. UnservedOK'
      BY <1>2, <1>4, <1>5, <1>6, <1>7, <3>3, <3>4, UnservedGrow
    <3> QED BY <1>3, <2>2, <3>5 DEF TopInv
  <2> QED BY <2>4, <2>5
<1> QED BY <1>8, <1>9

LEMMA FreshIsTop ==
  ASSUME sessions = <<>>, holds = [ob \in CT!Objects |-> 0], moved_on = {},
         forms = [line \in Lines |-> 0]
  PROVE  TopInv
<1>1. DOMAIN sessions = {} /\ MaxForms \in Nat /\ \A ob \in CT!Objects : holds[ob] = 0
  BY BoundsAreNumbers
<1>2. LinksOK
  BY <1>1 DEF LinksOK
<1>3. HoldersOK
  BY <1>1 DEF HoldersOK, CT!Objects
<1>4. FormsOK
  BY <1>1 DEF FormsOK, CT!Objects, Bodies
<1>5. UnservedOK
  <2>1. Unserved = {}
    BY <1>1 DEF Unserved
  <2> DEFINE g == [s \in {} |-> <<0, 0>>]
  <2>2. Charges(g, Unserved, moved_on, forms)
    BY <2>1 DEF Charges
  <2> QED BY <2>2, FS_EmptySet DEF UnservedOK
<1> QED BY <1>2, <1>3, <1>4, <1>5 DEF TopInv

LEMMA InitTopInv == Init => TopInv
  BY FreshIsTop DEF Init, CT!Init

LEMMA RestartKeepsTop == restart => TopInv'
<1> DEFINE Anew == /\ sessions = <<>> /\ holds = [ob \in CT!Objects |-> 0] /\ moved_on = {}
                   /\ forms = [line \in Lines |-> 0]
<1>1. restart => Anew'
  BY DEF restart, CT!Objects
<1>2. Anew => TopInv
  BY FreshIsTop
<1> HIDE DEF Anew
<1>3. Anew' => TopInv'
  BY <1>2, PTL
<1> QED BY <1>1, <1>3

LEMMA StutterKeepsTop ==
  ASSUME TopInv, UNCHANGED vars
  PROVE  TopInv'
<1>1. /\ UNCHANGED world /\ holds' = holds /\ moved_on' = moved_on /\ line_of' = line_of
      /\ forms' = forms
  BY DEF vars, lineVars, world
<1>2. forms' \in [Lines -> Nat] /\ \A l \in Lines : forms'[l] <= forms[l]
  BY <1>1, SameForms DEF TopInv
<1>3. LinksOK' /\ Unserved' = Unserved
  BY <1>1, WorldKeepsTop
<1> QED BY <1>1, <1>2, <1>3, NothingGained

LEMMA StepTopInv == IInv /\ TopInv /\ [Next]_vars => TopInv'
<1> SUFFICES ASSUME IInv, TopInv, [Next]_vars PROVE TopInv'
  OBVIOUS
<1>1. CASE \E line \in Lines, login \in Logins : logon(line, login)
  BY <1>1, LogonKeepsTop
<1>2. CASE \E login \in Logins : open_form(login)
  BY <1>2, OpenFormKeepsTop
<1>3. CASE \E who \in CT!Objects : give_up(who)
  BY <1>3, GiveUpKeepsTop
<1>4. CASE \E who \in CT!Objects, username \in Usernames : register(who, username)
  BY <1>4, RegisterKeepsTop
<1>5. CASE \E a \in Bodies : negotiate(a)
  BY <1>5, NegotiateKeepsTop
<1>6. CASE \E ob \in CT!Objects : hang_up(ob)
  BY <1>6, HangUpKeepsTop
<1>7. CASE \E login \in Logins : abort(login)
  BY <1>7, AbortKeepsTop
<1>8. CASE \E a \in Bodies : dest(a)
  BY <1>8, DestKeepsTop
<1>9. CASE restart
  BY <1>9, RestartKeepsTop
<1>10. CASE UNCHANGED vars
  BY <1>10, StutterKeepsTop
<1> QED BY <1>1, <1>2, <1>3, <1>4, <1>5, <1>6, <1>7, <1>8, <1>9, <1>10 DEF Next
-----------------------------------------------------------------------------
(* The theorems.                                                           *)

\* A client that has left its login object is at the end of a complete chain:
\* its avatar is the avatar of exactly one session, which runs, is a top-level
\* session and is served by one connection, made for the client's own line.
THEOREM LinesReachTheirSessions == Spec => []LinesReachSessions
<1>1. IInv => LinesReachSessions
  <2> SUFFICES ASSUME IInv, NEW a \in Bodies, CT!interactive(a)
               PROVE  \E s \in DOMAIN sessions :
                        /\ \A t \in DOMAIN sessions : sessions[t].avatar = a <=> t = s
                        /\ running(s) /\ sessions[s].supersessions = {}
                        /\ \/ /\ Len(sessions[s].connections) = 1
                              /\ line_of[sessions[s].connections[1].connection] = holds[a]
                              /\ avatars[a].master = s
                           \/ /\ holds[a] \in moved_on
                              /\ ~served(s)
                              /\ avatars[a].master = 0
    BY DEF LinesReachSessions
  <2>1. PICK s \in DOMAIN sessions : Reaches(a, s)
    BY DEF IInv, Reaching, CT!interactive
  <2>2. a # 0
    BY DEF Bodies
  <2>3. \A t \in DOMAIN sessions : sessions[t].avatar = a <=> t = s
    BY <2>1, <2>2 DEF Reaches, IInv, SessionsOK
  <2> QED BY <2>1, <2>3 DEF Reaches, running, served, RUNNING
<1> QED BY <1>1, IInvHolds, PTL

\* An avatar's master session runs and has that avatar.
THEOREM MastersAlwaysMatch == Spec => []MastersMatch
<1>1. IInv => MastersMatch
  BY DEF IInv, MastersOK, MastersMatch, running, RUNNING
<1> QED BY <1>1, IInvHolds, PTL

\* The indexes of users, usernames and players tell one story, and no session
\* belongs to a user that was never created.
THEOREM AccountsAlwaysAgree == Spec => []AccountsAgree
<1>1. IInv => AccountsAgree
  BY DEF IInv, AccountsOK
<1> QED BY <1>1, IInvHolds, PTL

\* A session that a registration left new is never resumed, connected or given
\* an avatar by any later step, until a restart forgets it.
THEOREM OrphansAlwaysStay == Spec => OrphansStayOrphans
<1> DEFINE Kept == restarts' = restarts =>
                     \A s \in DOMAIN sessions : ~running(s) =>
                       /\ sessions'[s].state = sessions[s].state
                       /\ sessions'[s].connections = <<>>
                       /\ sessions'[s].avatar \in {0, sessions[s].avatar}
<1>1. IInv /\ [Next]_vars => [Kept]_vars
  <2> SUFFICES ASSUME IInv, Next, restarts' = restarts,
                      NEW s \in DOMAIN sessions, ~running(s)
               PROVE  /\ sessions'[s].state = sessions[s].state
                      /\ sessions'[s].connections = <<>>
                      /\ sessions'[s].avatar \in {0, sessions[s].avatar}
    OBVIOUS
  <2>1. SessionsOK /\ sessions[s].connections = <<>>
    BY DEF IInv, SessionsOK, running, RUNNING
  <2>2. CASE sessions' = sessions
    BY <2>1, <2>2
  <2>3. CASE \E who \in CT!Objects, username \in Usernames : register(who, username)
    <3>1. PICK who \in CT!Objects, username \in Usernames : register(who, username)
      BY <2>3
    <3>2. sessions'[s] = sessions[s]
      BY <3>1, EveryOutcome DEF register, IInv, Outcome
    <3> QED BY <2>1, <3>2
  <2>4. CASE \E a \in Bodies : dest(a)
    BY <2>1, <2>4, DestSessions
  <2>5. CASE restart
    <3>1. restarts' = restarts + 1 /\ restarts \in Nat
      BY <2>5 DEF restart, IInv
    <3> QED BY <3>1
  <2> QED BY <2>2, <2>3, <2>4, <2>5
          DEF Next, logon, open_form, give_up, negotiate, hang_up, abort, world, sessionVars
<1> QED BY <1>1, IInvHolds, PTL DEF Spec, OrphansStayOrphans

\* Sessions are brought up from the top: one that is served runs, what hangs
\* below another runs only if that is served, for the same user, who has a
\* player; and no more top-level sessions run unserved than forms can have been
\* completed on lines that were moved on.
THEOREM SessionsRunFromTheTop == Spec => []RunningFromTheTop
<1>1. IInv /\ TopInv => RunningFromTheTop
  <2> SUFFICES ASSUME IInv, TopInv PROVE RunningFromTheTop
    OBVIOUS
  <2>1. \A s \in DOMAIN sessions : served(s) => running(s)
    BY DEF IInv, SessionsOK, served, running, RUNNING
  <2>2. \A s \in DOMAIN sessions : \A p \in sessions[s].supersessions :
          /\ running(s) => served(p)
          /\ sessions[p].user = sessions[s].user
          /\ sessions[s].user \in DOMAIN playersOf
    BY DEF TopInv, LinksOK, served, running, RUNNING
  <2>3. {s \in DOMAIN sessions : /\ running(s) /\ ~served(s)
                                 /\ sessions[s].supersessions = {}} = Unserved
    BY DEF Unserved, running, served, RUNNING
  <2>4. Cardinality(Unserved) <= (MaxForms - 1) * Cardinality(moved_on)
    BY UnservedAreFew DEF TopInv
  <2> QED BY <2>1, <2>2, <2>3, <2>4 DEF RunningFromTheTop
<1> QED BY <1>1, InitTopInv, StepTopInv, InitIInv, StepIInv, PTL DEF Spec
=============================================================================
