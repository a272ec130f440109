-------------------------- MODULE TelnetNegotiation --------------------------
(***************************************************************************)
(* The telnet negotiation between the ConnectionTracker and one client:    *)
(* the tracker's half is telnet_negotiation() and telnet_get_*() of        *)
(* ConnectionTracker, the client and the two directions of the line are    *)
(* the environment.  Messages arrive in order, but the two ends speak      *)
(* whenever they like, so requests and offers cross.                       *)
(*                                                                         *)
(* Either may offer an option by itself (WILL), also one it refused        *)
(* before, and ask the server for one (DO).  Two kinds of client are       *)
(* modelled.  A mindful one keeps to the rule of the protocol (RFC 854)    *)
(* and does not answer a request for a mode it is already in, nor an       *)
(* answer.  A forgetful one answers every DO with WILL and every WILL with *)
(* DO.                                                                     *)
(***************************************************************************)
EXTENDS Integers, Sequences, FiniteSets

CONSTANTS Options,   \* options whose value the tracker stores
          TTYPE,     \* the terminal type, sent on request; others at once
          Login,     \* the login object that holds the line
          Client,    \* the value this client sends of itself
          MaxInitiatives  \* bound on what a client does unasked

ASSUME TerminalIsAnOption == TTYPE \in Options

ASSUME ClientIsNotNull == Client # 0

VARIABLES state,     \* the tracker's record of the connection
          toClient,  \* what the server has sent and the client not yet read
          toServer,  \* and the other way round
          mode,      \* client: option -> "off", "offered" or "on"
          forgetful, \* client: which kind it is
          supports,  \* client: the options it has a value for
          refused,   \* client: the options it has answered with WONT
          wants,     \* client: the options it asked the server for
          requests,  \* how often the tracker was made to ask for an option
          offers,    \* how often the client offered one by itself
          dos        \* how often the server has sent DO for an option: 3 is
                     \* more than it may, and stands for any larger number

client == <<mode, forgetful, supports, refused, wants>>

telnetVars == <<state, toClient, toServer, client, requests, offers, dos>>

\* The tracker with this one connection in it.
CT == INSTANCE ConnectionTracker
        WITH Lines <- {Client}, Logins <- {Login}, Bodies <- {},
             MaxConnections <- 1, connections <- <<state>>,
             interactives <- [ob \in {Login} |-> 1], connection_counter <- 1,
             holds <- [ob \in {Login} |-> Client], gone <- {},
             line_of <- <<Client>>, moved_on <- {}

Say(cmd, opt, value) == CT!Say(cmd, opt, value)

Count(messages, opt) ==
  Cardinality({i \in DOMAIN messages : messages[i].cmd = "DO" /\ messages[i].opt = opt})

MaxDos == 3

Counted(n) == IF n > MaxDos THEN MaxDos ELSE n

\* After logon(): the terminal type has been asked for.
TelnetInit ==
  /\ state = CT!Asked(<<CT!NewState(Login)>>, 1, TTYPE)[1]
  /\ toClient = <<Say("DO", TTYPE, 0)>>
  /\ toServer = <<>>
  /\ mode = [opt \in Options |-> "off"]
  /\ forgetful \in BOOLEAN
  /\ supports \in SUBSET Options
  /\ refused = {}
  /\ wants = {}
  /\ requests = [opt \in Options |-> IF opt = TTYPE THEN 1 ELSE 0]
  /\ offers = [opt \in Options |-> 0]
  /\ dos = [opt \in Options |-> IF opt = TTYPE THEN 1 ELSE 0]
-----------------------------------------------------------------------------
(* The server.                                                             *)

\* telnet_get_NAWS() and the like, at any time, once per option.
Ask(opt) ==
  /\ requests[opt] = 0
  /\ state' = CT!Asked(<<state>>, 1, opt)[1]
  /\ toClient' = Append(toClient, Say("DO", opt, 0))
  /\ requests' = [requests EXCEPT ![opt] = @ + 1]
  /\ dos' = [dos EXCEPT ![opt] = @ + 1]
  /\ UNCHANGED <<toServer, client, offers>>

\* telnet_negotiation() of the next message from the client.
ServerReads ==
  LET m == Head(toServer)
      replies == CT!Replies(state, m.cmd, m.opt)
  IN  /\ toServer # <<>>
      /\ toServer' = Tail(toServer)
      /\ state' = CT!Negotiated(state, m.cmd, m.opt, m.value)
      /\ toClient' = toClient \o replies
      /\ dos' = [opt \in Options |-> Counted(dos[opt] + Count(replies, opt))]
      /\ UNCHANGED <<client, requests, offers>>
-----------------------------------------------------------------------------
(* The client.                                                             *)

\* What the client says once an option is agreed on.
Value(opt) == IF opt = TTYPE THEN <<>> ELSE <<Say("SB", opt, Client)>>

\* The options the client spoke of first.
Initiatives == wants \cup {opt \in Options : offers[opt] > 0}

\* Bounds: each option is offered once and asked for once; a mindful client
\* takes MaxInitiatives, a forgetful one, whom one can keep busy, a single one.
MayStart ==
  Cardinality(wants) + Cardinality({opt \in Options : offers[opt] > 0})
    < IF forgetful THEN 1 ELSE MaxInitiatives

\* The client offers an option, which it may have come to support just now.
Offer(opt) ==
  /\ MayStart
  /\ mode[opt] = "off"
  /\ offers[opt] = 0
  /\ mode' = [mode EXCEPT ![opt] = "offered"]
  /\ supports' = supports \cup {opt}
  /\ offers' = [offers EXCEPT ![opt] = @ + 1]
  /\ toServer' = Append(toServer, Say("WILL", opt, 0))
  /\ UNCHANGED <<state, toClient, forgetful, refused, wants, requests, dos>>

\* The client asks for an option of the server's.
Want(opt) ==
  /\ MayStart
  /\ opt \notin wants
  /\ wants' = wants \cup {opt}
  /\ toServer' = Append(toServer, Say("DO", opt, 0))
  /\ UNCHANGED <<state, toClient, mode, forgetful, supports, refused, requests,
                 offers, dos>>

\* What the client makes of a message: its new mode and its reply.
Agrees(m) == m.cmd = "DO" /\ m.opt \in supports

Refuses(m) == m.cmd = "DO" /\ m.opt \notin supports

ReplyOfClient(m) ==
  CASE Agrees(m) /\ (mode[m.opt] = "off" \/ forgetful)
                             -> <<Say("WILL", m.opt, 0)>> \o Value(m.opt)
    [] Agrees(m) /\ mode[m.opt] = "offered" /\ ~forgetful -> Value(m.opt)
    [] Refuses(m)            -> <<Say("WONT", m.opt, 0)>>
    [] m.cmd = "WILL" /\ forgetful -> <<Say("DO", m.opt, 0)>>
    [] m.cmd = "SEND" /\ m.opt = TTYPE /\ mode[TTYPE] # "off"
                             -> <<Say("SB", TTYPE, Client)>>
    [] OTHER -> <<>>

ClientReads ==
  LET m == Head(toClient)
  IN  /\ toClient # <<>>
      /\ toClient' = Tail(toClient)
      /\ mode' = IF Agrees(m) THEN [mode EXCEPT ![m.opt] = "on"] ELSE mode
      /\ refused' = IF Refuses(m) THEN refused \cup {m.opt} ELSE refused
      /\ toServer' = toServer \o ReplyOfClient(m)
      /\ UNCHANGED <<state, forgetful, supports, wants, requests, offers, dos>>

Negotiate ==
  \/ \E opt \in Options : Ask(opt)
  \/ ServerReads
  \/ \E opt \in Options : Offer(opt)
  \/ \E opt \in Options : Want(opt)
  \/ ClientReads
-----------------------------------------------------------------------------
(* Properties of the negotiation, for the module that gives the line its   *)
(* lifetime (LoginObject).                                                 *)

\* The types of the negotiation's part of the state.
TelnetTypes ==
  /\ state \in CT!ConnectionState
  /\ \A i \in DOMAIN toServer : toServer[i].cmd \in CT!Commands
  /\ \A i \in DOMAIN toClient : toClient[i].cmd \in {"DO", "WILL", "SEND"}
  /\ mode \in [Options -> {"off", "offered", "on"}]
  /\ refused \subseteq Options /\ wants \subseteq Options

\* negotiation_pending does its work: a WILL that answers the server's own DO
\* is not answered by another DO, however requests and offers of a mindful
\* client cross (the test of connection.c:211).
AnswersAreNotAnswered ==
  ~forgetful => \A opt \in Options : dos[opt] <= requests[opt] + offers[opt]

\* The negotiation comes to rest: neither end keeps the other busy for ever,
\* not even if the client answers every DO and every WILL, as long as it does
\* not speak first.  The tracker notes as pending neither the DO with which it
\* accepts an offer nor that it has said WILL (connection.c:211-217), so it
\* answers again whatever such a client answers to these.
Settles ==
  \/ <>(forgetful /\ Initiatives # {})
  \/ <>[](toClient = <<>> /\ toServer = <<>>)
=============================================================================
