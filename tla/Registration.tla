---------------------------- MODULE Registration ----------------------------
(***************************************************************************)
(* How a client becomes a player.  The register command (.bin/register.c)  *)
(* of a login object creates a user (UserLib, UserTracker) and attaches    *)
(* the client to a session of that user (attach_session): a PlatformAvatar *)
(* is cloned, which prepares a subsession with the avatar of a flavor      *)
(* (try_descend), the session is resumed, the line is moved into its       *)
(* avatar (ConnectionLib), and the subsession is resumed in turn           *)
(* (on_descend).  The module composes SessionTracker and ConnectionTracker *)
(* with the user, player and avatar state between them.                    *)
(*                                                                         *)
(* The command first has its form filled in, over many inputs.  A client   *)
(* that types "!register" at one of the prompts opens a second form over   *)
(* the first, and what is pending goes with the line when the second moves *)
(* it: the first form is then completed by an avatar.                      *)
(*                                                                         *)
(* The completed command runs as one step, but what it calls can fail      *)
(* half-way, and each way it fails leaves something behind: an action for  *)
(* each.  Between commands clients log on, negotiate, hang up and are      *)
(* timed out, a wizard destructs an avatar (.bin/shell/dest.c), and the    *)
(* driver is restarted, when all is lost but the user directories.         *)
(*                                                                         *)
(* attach_session() looks for the user's last session first.  No code sets *)
(* it (UserTracker.set_last_session() has no caller), and a user is only   *)
(* ever attached by the command that creates it, so the session, the       *)
(* avatar, the player and the subsession are always new.                   *)
(***************************************************************************)
EXTENDS Integers, Sequences, FiniteSets

CONSTANTS Lines, Logins, Options, TTYPE, MaxConnections,  \* ConnectionTracker
          Usernames,    \* the names clients register under
          MaxUsers,     \* bound on user_counter
          MaxBodies,    \* bound on the avatars cloned
          MaxForms,     \* bound on the forms open on a line
          MaxRestarts   \* bound on the restarts of the driver

ASSUME BoundsAreNumbers ==
  /\ MaxUsers \in Nat /\ MaxBodies \in Nat
  /\ MaxForms \in Nat /\ MaxRestarts \in Nat

ASSUME LoginsAreNoAvatars == Logins \cap (1..MaxBodies) = {}

VARIABLES connections, interactives, connection_counter, holds, gone, line_of,
          moved_on, sessions, session_counter,
          users,      \* UserTracker: user id -> username
          usernames,  \* UserTracker: username -> its user ids
          players,    \* PlayerTracker: player id -> user id
          playersOf,  \* PlayerTracker: user id -> its player ids
          avatars,    \* avatar -> [master, slaves], of AvatarMixin
          forms,      \* line -> how many register forms are open on it
          passwords,  \* disk: username -> user id -> registration
          restarts    \* how often the driver was restarted

lineVars == <<connections, interactives, connection_counter, holds, gone, line_of,
              moved_on>>

sessionVars == <<sessions, session_counter>>

userVars == <<users, usernames, passwords>>

playerVars == <<players, playersOf>>

vars == <<lineVars, sessionVars, userVars, playerVars, avatars, forms, restarts>>

Bodies == 1..MaxBodies

CT == INSTANCE ConnectionTracker

\* The times of the sessions are SessionTracker's own affair.
ST == INSTANCE SessionTracker
        WITH Users <- 1..MaxUsers, Connections <- 1..MaxConnections,
             Avatars <- Bodies, MaxSessions <- 2 * MaxUsers, MaxConnects <- 1,
             MaxTime <- 1, now <- 1

Empty == [x \in {} |-> 0]

Get(f, x, default) == IF x \in DOMAIN f THEN f[x] ELSE default

\* clone_object(): the objects are numbered as they are cloned.
Clone(n) == Cardinality(DOMAIN avatars \cup (gone \cap Bodies)) + n

NewAvatar == [master |-> 0, slaves |-> {}]

Init ==
  /\ CT!Init
  /\ sessions = <<>> /\ session_counter = 0
  /\ users = <<>> /\ usernames = Empty
  /\ players = <<>> /\ playersOf = Empty
  /\ avatars = Empty
  /\ forms = [line \in Lines |-> 0]
  /\ passwords = Empty
  /\ restarts = 0
-----------------------------------------------------------------------------
(* Users, players and avatars.                                             *)

user_counter == Len(users)

player_counter == Len(players)

\* Fault: the name is indexed for its latest user only.
new_user_latest(username) ==
  /\ users' = Append(users, username)
  /\ usernames' = CT!With(usernames, username, {user_counter + 1})

\* UserTracker.new_user(): the id is the counter, the name may be taken.
new_user(username) ==
  /\ users' = Append(users, username)
  /\ usernames' = CT!With(usernames, username,
                          Get(usernames, username, {}) \cup {user_counter + 1})

\* save_password(): the file of the username keeps a hash for each user id;
\* which password that is, is told by when it was saved.
save_password(username, user) ==
  passwords' = CT!With(passwords, username,
                       CT!With(Get(passwords, username, Empty), user,
                               <<restarts, user>>))

\* create_user(); what install_skeleton() makes of the directory of a name
\* that is taken, and a password that cannot be written, are only logged.
create_user(username) ==
  /\ user_counter < MaxUsers
  /\ new_user(username)
  /\ \/ save_password(username, user_counter + 1)
     \/ UNCHANGED passwords

\* get_player() of PlatformAvatar, with PlayerTracker.new_player().
get_player(user) ==
  IF Get(playersOf, user, {}) # {}
    THEN UNCHANGED playerVars
    ELSE /\ players' = Append(players, user)
         /\ playersOf' = CT!With(playersOf, user, {player_counter + 1})

\* on_descend() of AvatarMixin: a session of the same user becomes master and
\* the old master a slave, another user's becomes a slave.
OnDescend(avs, ss, a, s) ==
  LET master == avs[a].master
      same == \E u, v \in DOMAIN users' :
                /\ u = ST!UserOf(ss, master) /\ v = ST!UserOf(ss, s)
                /\ users'[u] = users'[v]
  IN  [avs EXCEPT ![a] =
         CASE master = 0 -> [master |-> s, slaves |-> @.slaves \ {s}]
           [] master # 0 /\ same ->
                [master |-> s, slaves |-> (@.slaves \cup {master}) \ {s}]
           [] OTHER -> [@ EXCEPT !.slaves = @ \cup {s}]]
-----------------------------------------------------------------------------
(* attach_session() of the user that create_user() has just made.  `sid` is *)
(* its session, `ssid` the subsession below, a and b are their avatars.     *)

sid == session_counter + 1
ssid == session_counter + 2

Started(user) == ST!WithSession(sessions, sid, user, 0, 1)

\* The session with its avatar, the subsession below it, and that with its own.
WithBody(user) == ST!WithAvatar(Started(user), sid, Clone(1))

WithSubsession(user) == ST!WithSession(WithBody(user), ssid, user, sid, 1)

Prepared(user) == ST!WithAvatar(WithSubsession(user), ssid, Clone(2))

BothCloned ==
  CT!With(CT!With(avatars, Clone(1), NewAvatar), Clone(2), NewAvatar)

\* The PlatformAvatar cannot be cloned: a new session without an avatar.
no_avatar(user) ==
  /\ sessions' = Started(user)
  /\ session_counter' = sid
  /\ UNCHANGED <<lineVars, playerVars, avatars>>

\* try_descend() throws before it starts the subsession: the start room does
\* not load, the flavor has no avatar for it, or that cannot be cloned.
no_player_avatar(user) ==
  /\ Clone(1) \in Bodies
  /\ get_player(user)
  /\ sessions' = WithBody(user)
  /\ session_counter' = sid
  /\ avatars' = CT!With(avatars, Clone(1), NewAvatar)
  /\ UNCHANGED lineVars

\* try_descend() throws after that: what the flavor gave is no avatar.
not_an_avatar(user) ==
  /\ Clone(1) \in Bodies
  /\ get_player(user)
  /\ sessions' = WithSubsession(user)
  /\ session_counter' = ssid
  /\ avatars' = CT!With(avatars, Clone(1), NewAvatar)
  /\ UNCHANGED lineVars

\* Fault: the session is connected but not resumed.
ServedUnresumed(ss, who) ==
  ST!Connected(ss, sid, CT!query_connection(interactives, who), 1)

\* Fault: the connection is entered for the session made before.
ServedBefore(ss, who) ==
  ST!Connected(ST!Resumed(ss, sid), IF sid > 1 THEN sid - 1 ELSE sid,
               CT!query_connection(interactives, who), 1)

\* resume_session() and the end of connect_session(), for the session.
Served(ss, who) ==
  ST!Connected(ST!Resumed(ss, sid), sid,
               CT!query_connection(interactives, who), 1)

\* connect_session() of ConnectionLib for an avatar the tracker does not know:
\* the line is moved, then set_interactive() fails, so the session runs but
\* is not connected, and nobody hears of a descent.
unknown_to_the_tracker(who, user) ==
  /\ CT!query_connection(interactives, who) = 0
  /\ Clone(2) \in Bodies
  /\ get_player(user)
  /\ CT!exec(who, Clone(1))
  /\ sessions' = ST!Resumed(Prepared(user), sid)
  /\ session_counter' = ssid
  /\ avatars' = BothCloned

\* Fault: the refusal is not noticed, the avatar hears of a descent.
player_overruled(who, user) ==
  /\ Clone(2) \in Bodies
  /\ get_player(user)
  /\ CT!exec(who, Clone(1))
  /\ sessions' = Served(Prepared(user), who)
  /\ session_counter' = ssid
  /\ avatars' = OnDescend(OnDescend(BothCloned, sessions', Clone(1), sid),
                          sessions', Clone(2), ssid)

\* The player's avatar objects to the descent: the session is served, but
\* its subsession stays new, and on_descend() goes no further.
player_refuses(who, user) ==
  /\ Clone(2) \in Bodies
  /\ get_player(user)
  /\ CT!exec(who, Clone(1))
  /\ sessions' = Served(Prepared(user), who)
  /\ session_counter' = ssid
  /\ avatars' = OnDescend(BothCloned, sessions', Clone(1), sid)

\* Fault: the subsession is resumed before the line has been moved, which
\* then fails.
descend_early(who, user, completed) ==
  /\ Clone(2) \in Bodies
  /\ get_player(user)
  /\ sessions' = ST!Resumed(Prepared(user), ssid)
  /\ session_counter' = ssid
  /\ avatars' = BothCloned
  /\ UNCHANGED lineVars

\* The descent succeeds: both sessions run.  The on_descend() of the player's
\* avatar is the flavor's, and may raise an error before it is done.
descend(who, user, completed) ==
  LET mastered == OnDescend(BothCloned, sessions', Clone(1), sid)
  IN  /\ Clone(2) \in Bodies
      /\ get_player(user)
      /\ CT!exec(who, Clone(1))
      /\ sessions' = ST!Resumed(Served(Prepared(user), who), ssid)
      /\ session_counter' = ssid
      /\ avatars' = IF completed THEN OnDescend(mastered, sessions', Clone(2), ssid)
                    ELSE mastered

attach_session(who, user) ==
  \/ no_avatar(user)
  \/ no_player_avatar(user)
  \/ not_an_avatar(user)
  \/ unknown_to_the_tracker(who, user)
  \/ /\ CT!query_connection(interactives, who) # 0
     /\ \/ player_refuses(who, user)
        \/ \E completed \in BOOLEAN : descend(who, user, completed)

\* execute() of the register command, once its form is complete: `who` is the
\* login object, or the avatar the line has been moved to since.
register(who, username) ==
  /\ CT!interactive(who)
  /\ forms[holds[who]] > 0
  /\ forms' = [forms EXCEPT ![holds[who]] = @ - 1]
  /\ create_user(username)
  /\ attach_session(who, user_counter + 1)
  /\ UNCHANGED restarts
-----------------------------------------------------------------------------
(* What happens around it.                                                 *)

world == <<sessionVars, userVars, playerVars, avatars, restarts>>

\* The register command is given at the prompt of the login object, or with a
\* "!" at one of the prompts of its form.
open_form(login) ==
  /\ CT!interactive(login)
  /\ forms[holds[login]] < MaxForms
  /\ forms' = [forms EXCEPT ![holds[login]] = @ + 1]
  /\ UNCHANGED <<lineVars, world>>

\* A form is given up, after too many wrong answers.
give_up(who) ==
  /\ CT!interactive(who)
  /\ forms[holds[who]] > 0
  /\ forms' = [forms EXCEPT ![holds[who]] = @ - 1]
  /\ UNCHANGED <<lineVars, world>>

\* A client connects, or is lost, and what is pending on its line with it; a
\* login object aborts (LoginObject).
logon(line, login) == CT!logon(line, login) /\ UNCHANGED <<world, forms>>

Closed(ob) == [line \in Lines |-> IF line = holds[ob] THEN 0 ELSE forms[line]]

hang_up(ob) == CT!hang_up(ob) /\ forms' = Closed(ob) /\ UNCHANGED world

\* A client that negotiates from its avatar is given a connection id again.
negotiate(a) ==
  /\ CT!negotiation_of_untracked(a, "SB", TTYPE, holds[a])
  /\ UNCHANGED <<world, forms>>

abort(login) ==
  /\ login \in DOMAIN interactives
  /\ CT!destruct(login)
  /\ forms' = Closed(login)
  /\ UNCHANGED world

\* An avatar is destructed: its sessions lose it and hear nothing else.
dest(a) ==
  /\ a \in DOMAIN avatars
  /\ CT!destruct(a)
  /\ forms' = Closed(a)
  /\ avatars' = [b \in DOMAIN avatars \ {a} |-> avatars[b]]
  /\ sessions' = [s \in DOMAIN sessions |->
                    IF sessions[s].avatar = a
                      THEN [sessions[s] EXCEPT !.avatar = 0] ELSE sessions[s]]
  /\ UNCHANGED <<session_counter, userVars, playerVars, restarts>>

\* The driver is restarted: the trackers start from nothing, the password
\* files are still there.
restart ==
  /\ restarts < MaxRestarts
  /\ restarts' = restarts + 1
  /\ connections' = <<>> /\ interactives' = Empty /\ connection_counter' = 0
  /\ holds' = [ob \in CT!Objects |-> 0] /\ gone' = {} /\ line_of' = <<>>
  /\ moved_on' = {} /\ forms' = [line \in Lines |-> 0]
  /\ sessions' = <<>> /\ session_counter' = 0
  /\ users' = <<>> /\ usernames' = Empty
  /\ players' = <<>> /\ playersOf' = Empty
  /\ avatars' = Empty
  /\ UNCHANGED passwords

Next ==
  \/ \E line \in Lines, login \in Logins : logon(line, login)
  \/ \E login \in Logins : open_form(login)
  \/ \E who \in CT!Objects : give_up(who)
  \/ \E who \in CT!Objects, username \in Usernames : register(who, username)
  \/ \E a \in Bodies : negotiate(a)
  \/ \E ob \in CT!Objects : hang_up(ob)
  \/ \E login \in Logins : abort(login)
  \/ \E a \in Bodies : dest(a)
  \/ restart

Spec == Init /\ [][Next]_vars
-----------------------------------------------------------------------------
(* Properties.                                                             *)

running(s) == sessions[s].state = ST!SESSION_STATE_RUNNING

served(s) == sessions[s].connections # <<>>

\* Type invariant: the trackers' own types, and the mappings beside them.
TypeOK ==
  /\ CT!TypeOK
  /\ ST!TypeOK
  /\ users \in Seq(Usernames) /\ Len(users) <= MaxUsers
  /\ players \in Seq(1..MaxUsers)
  /\ DOMAIN avatars \subseteq Bodies \ gone
  /\ \A a \in DOMAIN avatars : /\ avatars[a].master \in 0..session_counter
                               /\ avatars[a].slaves \subseteq 1..session_counter
  /\ forms \in [Lines -> 0..MaxForms]
  /\ restarts \in 0..MaxRestarts

\* A client that has left its login object is at the end of a complete chain
\* (user.c:191-242): the avatar that holds its line is the avatar of exactly
\* one session, which runs, is a top-level session and is served by one
\* connection, made for that line.  Only a line that an avatar lost to another
\* may end in a session that nobody connected.
LinesReachSessions ==
  \A a \in Bodies : CT!interactive(a) =>
    \E s \in DOMAIN sessions :
      /\ \A t \in DOMAIN sessions : sessions[t].avatar = a <=> t = s
      /\ running(s) /\ sessions[s].supersessions = {}
      /\ \/ /\ Len(sessions[s].connections) = 1
            /\ line_of[sessions[s].connections[1].connection] = holds[a]
            /\ avatars[a].master = s
         \/ /\ holds[a] \in moved_on
            /\ ~served(s)
            /\ avatars[a].master = 0

\* Sessions are brought up from the top (avatar.c:145-166): a session that a
\* connection was switched to runs, what hangs below a session runs only with
\* it, for the same user, who has a player, and a session that runs on top of
\* others is served, but for those that a line was moved on to.
RunningFromTheTop ==
  /\ \A s \in DOMAIN sessions :
       /\ served(s) => running(s)
       /\ \A p \in sessions[s].supersessions :
            /\ running(s) => served(p)
            /\ sessions[p].user = sessions[s].user
            /\ sessions[s].user \in DOMAIN playersOf
  /\ Cardinality({s \in DOMAIN sessions : /\ running(s) /\ ~served(s)
                                          /\ sessions[s].supersessions = {}})
       <= (MaxForms - 1) * Cardinality(moved_on)

\* AvatarMixin and SessionTracker agree on who is whose (avatar.c:171-187):
\* an avatar's master session runs and has that avatar, so no two avatars
\* answer for one session and no session is left to an avatar of another.
MastersMatch ==
  \A a \in DOMAIN avatars :
    LET s == avatars[a].master
    IN  s # 0 => running(s) /\ sessions[s].avatar = a

\* The indexes of the accounts tell one story: a username is indexed for
\* exactly the users that have it, a user has one player at most, which is
\* his, and no session belongs to a user that was never created.
AccountsAgree ==
  /\ \A n \in Usernames : Get(usernames, n, {}) = {u \in DOMAIN users : users[u] = n}
  /\ \A p \in DOMAIN players : playersOf[players[p]] = {p}
  /\ DOMAIN playersOf = {players[p] : p \in DOMAIN players}
  /\ \A s \in DOMAIN sessions : sessions[s].user \in DOMAIN users

\* A registration that failed stays failed: a session that is new when the
\* command is over is never resumed, connected or given an avatar later.
OrphansStayOrphans ==
  [][restarts' = restarts =>
       \A s \in DOMAIN sessions : ~running(s) =>
         /\ sessions'[s].state = sessions[s].state
         /\ sessions'[s].connections = <<>>
         /\ sessions'[s].avatar \in {0, sessions[s].avatar}]_vars

\* The documentation of generate_id() (tracker/user.c:107-111): a user id is
\* unique, so a password filed under one is never replaced by that of
\* another registration.
PasswordsKept ==
  [][\A n \in DOMAIN passwords : \A u \in DOMAIN passwords[n] :
       passwords'[n][u] = passwords[n][u]]_vars
=============================================================================
