-------------------------- MODULE LoginObjectProofs --------------------------
(***************************************************************************)
(* Theorems about LoginObject and the negotiation it waits for, for any    *)
(* options, any timeout and any period of the heart beat.                  *)
(*                                                                         *)
(* A mindful client says WILL once per option: when it offers the option,  *)
(* or in answer to a DO while its mode is still "off".  What it answers    *)
(* then is a request of the tracker's own, which is pending as long as no  *)
(* WILL was read.                                                          *)
(***************************************************************************)
EXTENDS LoginObject, FiniteSetTheorems, TLAPS

FromClient ==
  {m \in [cmd : {"WILL", "WONT", "DO", "SB"}, opt : Options, value : {0, Client}] :
     m.cmd = "SB" => m.value = Client}

FromServer == [cmd : {"DO", "WILL", "SEND"}, opt : Options, value : {0}]

Types ==
  /\ state \in CT!ConnectionState
  /\ toClient \in Seq(FromServer) /\ toServer \in Seq(FromClient)
  /\ mode \in [Options -> {"off", "offered", "on"}]
  /\ forgetful \in BOOLEAN /\ supports \subseteq Options
  /\ refused \subseteq Options /\ wants \subseteq Options
  /\ requests \in [Options -> 0..1] /\ offers \in [Options -> 0..1]
  /\ dos \in [Options -> Nat]

\* The WILLs for an option that are under way to the tracker.
Wills(messages, opt) ==
  {i \in DOMAIN messages : messages[i].cmd = "WILL" /\ messages[i].opt = opt}

\* What a mindful client and the tracker know of an option: until the client
\* has said WILL nobody but the tracker has, and while the WILL is under way
\* it is an offer, or the answer to a request that is pending.
Agreed(opt) ==
  /\ dos[opt] <= requests[opt] + offers[opt]
  /\ mode[opt] = "off" =>
       /\ Wills(toServer, opt) = {}
       /\ offers[opt] = 0
       /\ requests[opt] = 1 => opt \in state.negotiation_pending
  /\ Wills(toServer, opt) # {} =>
       /\ dos[opt] <= requests[opt]
       /\ offers[opt] = 1 \/ opt \in state.negotiation_pending
       /\ \E i \in DOMAIN toServer : Wills(toServer, opt) = {i}

NegotiationInv ==
  /\ Types
  /\ \A i \in DOMAIN toClient : toClient[i].cmd = "DO" => dos[toClient[i].opt] > 0
  /\ ~forgetful => \A opt \in Options : Agreed(opt)

\* Each heart beat finds the login object idle for less than it may be, or is
\* its last.
LoginInv ==
  /\ alive \in BOOLEAN /\ line \in {"login", "avatar", "nobody"}
  /\ welcomed \in {"no", "terminal", "default"}
  /\ retry \in 0..MaxRetries /\ wait \in {0, 1}
  /\ beat \in 0..BeatPeriod /\ idle \in Nat
  /\ alive => idle + beat <= IF interactive THEN TimeoutSecs + BeatPeriod ELSE BeatPeriod

Inv == NegotiationInv /\ LoginInv
-----------------------------------------------------------------------------
(* Messages.                                                               *)

\* A request leaves the record as it is, but for what is pending.
LEMMA AskedType ==
  ASSUME NEW s \in CT!ConnectionState, NEW opt \in Options
  PROVE  LET a == CT!Asked(<<s>>, 1, opt)[1]
         IN  /\ a \in CT!ConnectionState
             /\ a.negotiation_pending = s.negotiation_pending \cup {opt}
<1> DEFINE a == CT!Asked(<<s>>, 1, opt)[1]
<1>1. a = [s EXCEPT !.negotiation_pending = @ \cup {opt}]
  BY DEF CT!Asked
<1> QED BY <1>1 DEF CT!ConnectionState

\* A message is about an option.
LEMMA MessageOption ==
  ASSUME NEW s \in Seq(FromServer), NEW i \in DOMAIN s
  PROVE  s[i].opt \in Options
<1>1. s[i] \in FromServer
  OBVIOUS
<1> QED BY <1>1 DEF FromServer

\* What the tracker makes of a message: only a WILL is no longer pending.
LEMMA NegotiatedType ==
  ASSUME NEW s \in CT!ConnectionState, NEW m \in FromClient
  PROVE  LET n == CT!Negotiated(s, m.cmd, m.opt, m.value)
         IN  /\ n \in CT!ConnectionState
             /\ n.negotiation_pending = IF m.cmd = "WILL" THEN s.negotiation_pending \ {m.opt}
                                        ELSE s.negotiation_pending
<1> DEFINE n == CT!Negotiated(s, m.cmd, m.opt, m.value)
<1>0. /\ m.cmd \in {"WILL", "WONT", "DO", "SB"} /\ m.opt \in Options /\ m.value \in {0, Client}
      /\ m.cmd = "SB" => m.value = Client
  BY DEF FromClient
<1>1. CASE m.cmd = "SB"
  <2>1. n = [s EXCEPT !.info[m.opt] = Client]
    BY <1>0, <1>1, ClientIsNotNull DEF CT!Negotiated
  <2> QED BY <1>0, <1>1, <2>1 DEF CT!ConnectionState
<1>2. CASE m.cmd = "WILL"
  <2>1. n = [s EXCEPT !.negotiation_pending = @ \ {m.opt}]
    BY <1>2 DEF CT!Negotiated
  <2> QED BY <1>0, <1>2, <2>1 DEF CT!ConnectionState
<1>3. CASE m.cmd \in {"WONT", "DO"}
  BY <1>3 DEF CT!Negotiated
<1> QED BY <1>0, <1>1, <1>2, <1>3

\* What it says to that: DO only to a WILL for an option that is not pending.
LEMMA RepliesToAMessage ==
  ASSUME NEW s \in CT!ConnectionState, NEW m \in FromClient
  PROVE  LET r == CT!Replies(s, m.cmd, m.opt)
         IN  /\ r \in Seq(FromServer)
             /\ \A opt \in Options :
                  Count(r, opt) = IF /\ m.cmd = "WILL" /\ m.opt = opt
                                     /\ opt \notin s.negotiation_pending
                                    THEN 1 ELSE 0
             /\ \A i \in DOMAIN r : r[i].cmd = "DO" => Count(r, r[i].opt) = 1
<1> DEFINE r == CT!Replies(s, m.cmd, m.opt)
           do == Say("DO", m.opt, 0)
           send == Say("SEND", m.opt, 0)
           will == Say("WILL", m.opt, 0)
<1>0. m.cmd \in {"WILL", "WONT", "DO", "SB"} /\ m.opt \in Options
  BY DEF FromClient
<1>1. /\ do \in FromServer /\ do.cmd = "DO" /\ do.opt = m.opt
      /\ send \in FromServer /\ send.cmd = "SEND"
      /\ will \in FromServer /\ will.cmd = "WILL"
  BY <1>0 DEF FromServer, Say, CT!Say
<1>2. CASE m.cmd = "WILL" /\ m.opt \notin s.negotiation_pending
  <2>1. r = <<do>> \o <<send>>
    BY <1>2 DEF CT!Replies, Say
  <2> HIDE DEF r, do, send
  <2>2. r \in Seq(FromServer) /\ DOMAIN r = {1, 2} /\ r[1] = do /\ r[2] = send
    BY <1>1, <2>1
  <2>3. ASSUME NEW opt \in Options PROVE Count(r, opt) = IF m.opt = opt THEN 1 ELSE 0
    <3> DEFINE S == {i \in DOMAIN r : r[i].cmd = "DO" /\ r[i].opt = opt}
    <3>1. S = IF m.opt = opt THEN {1} ELSE {}
      BY <1>1, <2>2
    <3> HIDE DEF S
    <3>2. Cardinality(S) = IF m.opt = opt THEN 1 ELSE 0
      BY <3>1, FS_EmptySet, FS_Singleton
    <3> QED BY <3>2 DEF Count, S
  <2>4. \A i \in DOMAIN r : r[i].cmd = "DO" => r[i].opt = m.opt
    BY <1>1, <2>2
  <2> QED BY <1>0, <1>2, <2>2, <2>3, <2>4 DEF r
<1>3. CASE ~(m.cmd = "WILL" /\ m.opt \notin s.negotiation_pending)
  <2>1. r = <<>> \/ r = <<>> \o <<send>> \/ r = <<will>>
    <3>1. CASE m.cmd = "WILL"
      BY <1>3, <3>1 DEF CT!Replies, Say
    <3>2. CASE m.cmd = "DO"
      BY <3>2 DEF CT!Replies, Say
    <3>3. CASE m.cmd \notin {"WILL", "DO"}
      BY <1>0, <3>3 DEF CT!Replies, Say
    <3> QED BY <3>1, <3>2, <3>3
  <2> HIDE DEF r, send, will
  <2>2. r \in Seq(FromServer) /\ \A i \in DOMAIN r : r[i].cmd # "DO"
    <3>1. CASE r = <<>>
      BY <3>1
    <3>2. CASE r = <<>> \o <<send>>
      <4>1. r \in Seq(FromServer) /\ DOMAIN r = {1} /\ r[1] = send
        BY <1>1, <3>2
      <4> QED BY <1>1, <4>1
    <3>3. CASE r = <<will>>
      <4>1. r \in Seq(FromServer) /\ DOMAIN r = {1} /\ r[1] = will
        BY <1>1, <3>3
      <4> QED BY <1>1, <4>1
    <3> QED BY <2>1, <3>1, <3>2, <3>3
  <2>3. ASSUME NEW opt \in Options PROVE Count(r, opt) = 0
    <3> DEFINE S == {i \in DOMAIN r : r[i].cmd = "DO" /\ r[i].opt = opt}
    <3>1. S = {}
      BY <2>2
    <3> HIDE DEF S
    <3>2. Cardinality(S) = 0
      BY <3>1, FS_EmptySet
    <3> QED BY <3>2 DEF Count, S
  <2> QED BY <1>3, <2>2, <2>3 DEF r
<1> QED BY <1>2, <1>3

\* What the client says to a message of the tracker's: a mindful one says WILL
\* only to a DO for an option that is off.
LEMMA ReplyToAMessage ==
  ASSUME Types, NEW m \in FromServer
  PROVE  LET r == ReplyOfClient(m)
         IN  /\ r \in Seq(FromClient)
             /\ ~forgetful =>
                  \A opt \in Options :
                    \/ Wills(r, opt) = {}
                    \/ /\ m.cmd = "DO" /\ m.opt = opt /\ opt \in supports
                       /\ mode[opt] = "off" /\ Wills(r, opt) = {1}
<1> DEFINE r == ReplyOfClient(m)
           will == Say("WILL", m.opt, 0)
           wont == Say("WONT", m.opt, 0)
           sb == Say("SB", m.opt, Client)
           do == Say("DO", m.opt, 0)
<1>0. m.cmd \in {"DO", "WILL", "SEND"} /\ m.opt \in Options
  BY DEF FromServer
<1>1. /\ will \in FromClient /\ will.cmd = "WILL" /\ will.opt = m.opt
      /\ wont \in FromClient /\ wont.cmd = "WONT"
      /\ sb \in FromClient /\ sb.cmd = "SB"
      /\ do \in FromClient /\ do.cmd = "DO"
  BY <1>0 DEF FromClient, Say, CT!Say
<1>2. Value(m.opt) = <<>> \/ Value(m.opt) = <<sb>>
  BY DEF Value
<1>3. CASE Agrees(m) /\ (mode[m.opt] = "off" \/ forgetful)
  <2>1. r = <<will>> \o Value(m.opt)
    BY <1>3 DEF ReplyOfClient, Agrees, Refuses
  <2> HIDE DEF r, will, sb
  <2>2. /\ r \in Seq(FromClient) /\ 1 \in DOMAIN r /\ r[1] = will
        /\ \A i \in DOMAIN r : i # 1 => r[i] = sb
    <3>1. CASE Value(m.opt) = <<>>
      <4>1. r \in Seq(FromClient) /\ DOMAIN r = {1} /\ r[1] = will
        BY <1>1, <2>1, <3>1
      <4> QED BY <4>1
    <3>2. CASE Value(m.opt) = <<sb>>
      <4>1. r \in Seq(FromClient) /\ DOMAIN r = {1, 2} /\ r[1] = will /\ r[2] = sb
        BY <1>1, <2>1, <3>2
      <4> QED BY <4>1
    <3> QED BY <1>2, <3>1, <3>2
  <2>3. \A opt \in Options : Wills(r, opt) = IF opt = m.opt THEN {1} ELSE {}
    BY <1>1, <2>2 DEF Wills
  <2> QED BY <1>3, <2>2, <2>3 DEF r, Agrees
<1>4. CASE ~(Agrees(m) /\ (mode[m.opt] = "off" \/ forgetful))
  <2>1. r = <<>> \/ r = <<sb>> \/ r = <<wont>> \/ r = <<do>>
    <3>1. CASE Agrees(m)
      <4>1. m.cmd = "DO" /\ m.opt \in supports /\ ~forgetful
        BY <1>4, <3>1 DEF Agrees, Types
      <4>2. r = IF mode[m.opt] = "offered" THEN Value(m.opt) ELSE <<>>
        BY <1>4, <3>1, <4>1 DEF ReplyOfClient, Agrees, Refuses
      <4> QED BY <1>2, <4>2
    <3>2. CASE ~Agrees(m) /\ m.cmd = "DO"
      BY <3>2 DEF Agrees, Refuses, ReplyOfClient
    <3>3. CASE m.cmd = "WILL"
      <4>1. r = IF forgetful THEN <<do>> ELSE <<>>
        BY <1>2, <3>3 DEF Agrees, Refuses, ReplyOfClient, Types
      <4> QED BY <4>1
    <3>4. CASE m.cmd = "SEND"
      <4>1. r = IF m.cmd = "SEND" /\ m.opt = TTYPE /\ mode[TTYPE] # "off"
                  THEN <<Say("SB", TTYPE, Client)>> ELSE <<>>
        BY <3>4 DEF ReplyOfClient, Agrees, Refuses
      <4> QED BY <4>1
    <3> QED BY <1>0, <3>1, <3>2, <3>3, <3>4
  <2> HIDE DEF r, sb, wont, do
  <2>2. r \in Seq(FromClient) /\ \A i \in DOMAIN r : r[i].cmd # "WILL"
    <3>1. CASE r = <<>>
      BY <3>1
    <3>2. CASE r = <<sb>>
      <4>1. r \in Seq(FromClient) /\ DOMAIN r = {1} /\ r[1] = sb
        BY <1>1, <3>2
      <4> QED BY <1>1, <4>1
    <3>3. CASE r = <<wont>>
      <4>1. r \in Seq(FromClient) /\ DOMAIN r = {1} /\ r[1] = wont
        BY <1>1, <3>3
      <4> QED BY <1>1, <4>1
    <3>4. CASE r = <<do>>
      <4>1. r \in Seq(FromClient) /\ DOMAIN r = {1} /\ r[1] = do
        BY <1>1, <3>4
      <4> QED BY <1>1, <4>1
    <3> QED BY <2>1, <3>1, <3>2, <3>3, <3>4
  <2>3. \A opt \in Options : Wills(r, opt) = {}
    BY <2>2 DEF Wills
  <2> QED BY <2>2, <2>3 DEF r
<1> QED BY <1>3, <1>4

\* WILLs that come after others.
LEMMA WillsOfBoth ==
  ASSUME NEW s \in Seq(FromClient), NEW t \in Seq(FromClient), NEW opt
  PROVE  /\ s \o t \in Seq(FromClient)
         /\ Wills(t, opt) = {} => Wills(s \o t, opt) = Wills(s, opt)
         /\ Wills(s, opt) = {} /\ Wills(t, opt) = {1} =>
              /\ Wills(s \o t, opt) = {Len(s) + 1}
              /\ Len(s) + 1 \in DOMAIN (s \o t)
<1> DEFINE u == s \o t
<1>1. /\ u \in Seq(FromClient) /\ Len(s) \in Nat /\ Len(t) \in Nat
      /\ DOMAIN s = 1..Len(s) /\ DOMAIN t = 1..Len(t) /\ DOMAIN u = 1..(Len(s) + Len(t))
      /\ \A i \in 1..Len(s) : u[i] = s[i]
      /\ \A i \in 1..(Len(s) + Len(t)) : i > Len(s) => u[i] = t[i - Len(s)]
  OBVIOUS
<1> HIDE DEF u
<1>2. \A i \in DOMAIN u : i \in DOMAIN s \/ (i > Len(s) /\ i - Len(s) \in DOMAIN t)
  BY <1>1
<1>3. ASSUME Wills(t, opt) = {} PROVE Wills(u, opt) = Wills(s, opt)
  <2>1. \A i \in DOMAIN t : ~(t[i].cmd = "WILL" /\ t[i].opt = opt)
    BY <1>3 DEF Wills
  <2>2. \A i \in DOMAIN s : i \in DOMAIN u
    BY <1>1
  <2> QED BY <1>1, <1>2, <2>1, <2>2 DEF Wills
<1>4. ASSUME Wills(s, opt) = {}, Wills(t, opt) = {1}
      PROVE  Wills(u, opt) = {Len(s) + 1} /\ Len(s) + 1 \in DOMAIN u
  <2>1. \A i \in DOMAIN s : ~(s[i].cmd = "WILL" /\ s[i].opt = opt)
    BY <1>4 DEF Wills
  <2>2. /\ 1 \in DOMAIN t /\ t[1].cmd = "WILL" /\ t[1].opt = opt
        /\ \A i \in DOMAIN t : t[i].cmd = "WILL" /\ t[i].opt = opt => i = 1
    BY <1>4 DEF Wills
  <2>3. Len(s) + 1 \in DOMAIN u /\ u[Len(s) + 1] = t[1]
    BY <1>1, <2>2
  <2>4. ASSUME NEW i \in DOMAIN u, u[i].cmd = "WILL", u[i].opt = opt PROVE i = Len(s) + 1
    <3>1. i \notin DOMAIN s
      BY <1>1, <2>1, <2>4
    <3>2. i > Len(s) /\ i - Len(s) \in DOMAIN t /\ u[i] = t[i - Len(s)]
      BY <1>1, <1>2, <3>1
    <3>3. i - Len(s) = 1
      BY <2>2, <2>4, <3>2
    <3> QED BY <1>1, <3>2, <3>3
  <2> QED BY <2>2, <2>3, <2>4 DEF Wills
<1> QED BY <1>1, <1>3, <1>4 DEF u

\* WILLs that are left when a message was read.
LEMMA WillsOfTail ==
  ASSUME NEW s \in Seq(FromClient), s # <<>>, NEW opt
  PROVE  /\ Tail(s) \in Seq(FromClient)
         /\ Wills(s, opt) = {} => Wills(Tail(s), opt) = {}
         /\ \A i \in DOMAIN s : Wills(s, opt) = {i} =>
              Wills(Tail(s), opt) = {} \/ (/\ i - 1 \in DOMAIN Tail(s)
                                           /\ Wills(Tail(s), opt) = {i - 1})
         /\ Wills(s, opt) # {} /\ Wills(Tail(s), opt) = {} =>
              Head(s).cmd = "WILL" /\ Head(s).opt = opt
         /\ \A i \in DOMAIN s :
              Wills(s, opt) = {i} /\ Head(s).cmd = "WILL" /\ Head(s).opt = opt
                => Wills(Tail(s), opt) = {}
<1> DEFINE t == Tail(s)
<1>1. /\ t \in Seq(FromClient) /\ Len(s) \in Nat /\ Len(s) > 0
      /\ DOMAIN s = 1..Len(s) /\ DOMAIN t = 1..Len(s) - 1 /\ Head(s) = s[1]
      /\ \A i \in 1..Len(s) - 1 : t[i] = s[i + 1]
  OBVIOUS
<1> HIDE DEF t
<1>2. \A i : i \in Wills(t, opt) <=> i \in DOMAIN t /\ i + 1 \in Wills(s, opt)
  BY <1>1 DEF Wills
<1>3. 1 \in Wills(s, opt) <=> Head(s).cmd = "WILL" /\ Head(s).opt = opt
  BY <1>1 DEF Wills
<1>4. \A i : i \in Wills(s, opt) => i \in 1..Len(s)
  BY <1>1 DEF Wills
<1>5. Wills(s, opt) = {} => Wills(t, opt) = {}
  BY <1>2
<1>6. ASSUME NEW i \in DOMAIN s, Wills(s, opt) = {i}
      PROVE  Wills(t, opt) = {} \/ (i - 1 \in DOMAIN t /\ Wills(t, opt) = {i - 1})
  BY <1>1, <1>2, <1>6
<1>7. ASSUME Wills(s, opt) # {}, Wills(t, opt) = {} PROVE 1 \in Wills(s, opt)
  <2>1. PICK i : i \in Wills(s, opt)
    BY <1>7
  <2>2. i - 1 \notin Wills(t, opt)
    BY <1>7
  <2> QED BY <1>1, <1>2, <1>4, <2>1, <2>2
<1>8. ASSUME NEW i \in DOMAIN s, Wills(s, opt) = {i}, 1 \in Wills(s, opt)
      PROVE  Wills(t, opt) = {}
  BY <1>1, <1>2, <1>8
<1> QED BY <1>1, <1>3, <1>5, <1>6, <1>7, <1>8 DEF t
-----------------------------------------------------------------------------
(* The negotiation keeps its invariant.                                    *)

LEMMA InitNegotiation == TelnetInit => NegotiationInv
<1> SUFFICES ASSUME TelnetInit PROVE NegotiationInv
  OBVIOUS
<1>1. CT!NewState(Login) \in CT!ConnectionState
  BY DEF CT!NewState, CT!ConnectionState, CT!Objects
<1>2. /\ state \in CT!ConnectionState
      /\ state.negotiation_pending = CT!NewState(Login).negotiation_pending \cup {TTYPE}
  BY <1>1, AskedType, TerminalIsAnOption DEF TelnetInit
<1>3. Say("DO", TTYPE, 0) \in FromServer /\ Say("DO", TTYPE, 0).opt = TTYPE
  BY TerminalIsAnOption DEF FromServer, Say, CT!Say
<1>4. /\ toServer = <<>> /\ \A opt \in Options : mode[opt] = "off" /\ offers[opt] = 0
      /\ requests = [opt \in Options |-> IF opt = TTYPE THEN 1 ELSE 0] /\ dos = requests
  BY DEF TelnetInit
<1>5. Types
  <2>1. toClient \in Seq(FromServer)
    <3>1. toClient = <<Say("DO", TTYPE, 0)>>
      BY DEF TelnetInit
    <3> QED BY <1>3, <3>1
  <2>2. /\ requests \in [Options -> 0..1] /\ offers \in [Options -> 0..1]
        /\ dos \in [Options -> Nat]
    BY <1>4 DEF TelnetInit
  <2> QED BY <1>2, <1>4, <2>1, <2>2 DEF Types, TelnetInit
<1>6. \A i \in DOMAIN toClient : toClient[i].cmd = "DO" => dos[toClient[i].opt] > 0
  <2>1. toClient = <<Say("DO", TTYPE, 0)>>
    BY DEF TelnetInit
  <2>2. \A i \in DOMAIN toClient : toClient[i] = Say("DO", TTYPE, 0)
    BY <2>1
  <2> QED BY <1>3, <1>4, <2>2, TerminalIsAnOption
<1>7. ASSUME NEW opt \in Options PROVE Agreed(opt)
  <2>1. Wills(toServer, opt) = {}
    BY <1>4 DEF Wills
  <2> QED BY <1>2, <1>4, <2>1 DEF Agreed
<1> QED BY <1>5, <1>6, <1>7 DEF NegotiationInv

LEMMA AskKeepsInv ==
  ASSUME NegotiationInv, NEW opt \in Options, Ask(opt)
  PROVE  NegotiationInv'
<1> DEFINE do == Say("DO", opt, 0)
<1>1. /\ requests[opt] = 0
      /\ requests' = [requests EXCEPT ![opt] = @ + 1]
      /\ dos' = [dos EXCEPT ![opt] = @ + 1]
      /\ toClient' = Append(toClient, do)
      /\ toServer' = toServer /\ mode' = mode /\ offers' = offers
      /\ forgetful' = forgetful /\ supports' = supports
      /\ refused' = refused /\ wants' = wants
  BY DEF Ask, client
<1>2. Types
  BY DEF NegotiationInv
<1>3. /\ state' \in CT!ConnectionState
      /\ state'.negotiation_pending = state.negotiation_pending \cup {opt}
  BY <1>2, AskedType DEF Ask, Types
<1>4. do \in FromServer /\ do.opt = opt
  BY DEF FromServer, Say, CT!Say
<1> HIDE DEF do
<1>5. /\ requests' \in [Options -> 0..1] /\ dos' \in [Options -> Nat]
      /\ requests'[opt] = 1 /\ dos'[opt] = dos[opt] + 1
      /\ \A o \in Options : o # opt => requests'[o] = requests[o] /\ dos'[o] = dos[o]
  BY <1>1, <1>2 DEF Types
<1>6. /\ toClient' \in Seq(FromServer)
      /\ \A i \in DOMAIN toClient' :
           toClient'[i] = do \/ (i \in DOMAIN toClient /\ toClient'[i] = toClient[i])
  BY <1>1, <1>2, <1>4 DEF Types
<1>7. Types'
  BY <1>1, <1>2, <1>3, <1>5, <1>6 DEF Types
<1>8. \A i \in DOMAIN toClient' : toClient'[i].cmd = "DO" => dos'[toClient'[i].opt] > 0
  <2> SUFFICES ASSUME NEW i \in DOMAIN toClient', toClient'[i].cmd = "DO"
               PROVE  dos'[toClient'[i].opt] > 0
    OBVIOUS
  <2>1. CASE toClient'[i] = do
    BY <1>2, <1>4, <1>5, <2>1 DEF Types
  <2>2. CASE i \in DOMAIN toClient /\ toClient'[i] = toClient[i]
    <3>1. toClient[i].opt \in Options
      BY <1>2, <2>2, MessageOption DEF Types
    <3>2. dos[toClient[i].opt] > 0
      BY <2>2 DEF NegotiationInv
    <3>3. \A o \in Options : dos[o] > 0 => dos'[o] > 0
      <4>1. dos[opt] \in Nat
        BY <1>2 DEF Types
      <4>2. dos[opt] + 1 > 0
        BY <4>1
      <4> QED BY <1>5, <4>2
    <3> QED BY <2>2, <3>1, <3>2, <3>3
  <2> QED BY <1>6, <2>1, <2>2
<1>9. ASSUME ~forgetful', NEW o \in Options PROVE Agreed(o)'
  <2>1. Agreed(o)
    BY <1>1, <1>9 DEF NegotiationInv
  <2>2. CASE o = opt
    <3>1. dos[o] \in Nat /\ requests[o] = 0 /\ requests'[o] = 1 /\ offers[o] \in 0..1
      BY <1>1, <1>2, <1>5, <2>2 DEF Types
    <3>2. o \in state'.negotiation_pending /\ dos'[o] = dos[o] + 1
      BY <1>3, <1>5, <2>2
    <3>3. dos'[o] <= requests'[o] + offers'[o]
      BY <1>1, <2>1, <3>1, <3>2 DEF Agreed
    <3>4. Wills(toServer', o) # {} => dos'[o] <= requests'[o]
      BY <1>1, <2>1, <3>1, <3>2 DEF Agreed
    <3> QED BY <1>1, <2>1, <3>2, <3>3, <3>4 DEF Agreed
  <2>3. CASE o # opt
    BY <1>1, <1>3, <1>5, <2>1, <2>3 DEF Agreed
  <2> QED BY <2>2, <2>3
<1> QED BY <1>7, <1>8, <1>9 DEF NegotiationInv

LEMMA ServerReadsKeepsInv ==
  ASSUME NegotiationInv, ServerReads
  PROVE  NegotiationInv'
<1> DEFINE m == Head(toServer)
           r == CT!Replies(state, m.cmd, m.opt)
<1>1. /\ toServer # <<>> /\ toServer' = Tail(toServer)
      /\ state' = CT!Negotiated(state, m.cmd, m.opt, m.value)
      /\ toClient' = toClient \o r
      /\ dos' = [opt \in Options |-> Counted(dos[opt] + Count(r, opt))]
      /\ mode' = mode /\ offers' = offers /\ requests' = requests
      /\ forgetful' = forgetful /\ supports' = supports
      /\ refused' = refused /\ wants' = wants
  BY DEF ServerReads, client
<1>2. Types
  BY DEF NegotiationInv
<1>3. m \in FromClient
  BY <1>1, <1>2 DEF Types
<1>4. m.cmd \in {"WILL", "WONT", "DO", "SB"} /\ m.opt \in Options
  BY <1>3 DEF FromClient
<1>5. /\ state' \in CT!ConnectionState
      /\ state'.negotiation_pending =
           IF m.cmd = "WILL" THEN state.negotiation_pending \ {m.opt}
           ELSE state.negotiation_pending
  BY <1>1, <1>2, <1>3, NegotiatedType DEF Types
<1>6. /\ r \in Seq(FromServer)
      /\ \A opt \in Options :
           Count(r, opt) = IF /\ m.cmd = "WILL" /\ m.opt = opt
                              /\ opt \notin state.negotiation_pending
                             THEN 1 ELSE 0
      /\ \A i \in DOMAIN r : r[i].cmd = "DO" => Count(r, r[i].opt) = 1
  BY <1>2, <1>3, RepliesToAMessage DEF Types
<1>7. /\ Tail(toServer) \in Seq(FromClient)
      /\ \A opt \in Options :
           /\ Wills(toServer, opt) = {} => Wills(Tail(toServer), opt) = {}
           /\ \A i \in DOMAIN toServer : Wills(toServer, opt) = {i} =>
                \/ Wills(Tail(toServer), opt) = {}
                \/ /\ i - 1 \in DOMAIN Tail(toServer)
                   /\ Wills(Tail(toServer), opt) = {i - 1}
           /\ Wills(toServer, opt) # {} /\ Wills(Tail(toServer), opt) = {} =>
                m.cmd = "WILL" /\ m.opt = opt
           /\ \A i \in DOMAIN toServer :
                Wills(toServer, opt) = {i} /\ m.cmd = "WILL" /\ m.opt = opt
                  => Wills(Tail(toServer), opt) = {}
  BY <1>1, <1>2, WillsOfTail DEF Types
<1>8. m.cmd = "WILL" => Wills(toServer, m.opt) # {}
  <2>1. 1 \in DOMAIN toServer /\ m = toServer[1]
    BY <1>1, <1>2 DEF Types
  <2> HIDE DEF m
  <2> QED BY <2>1 DEF Wills
<1> HIDE DEF m, r
<1>9. \A opt \in Options : /\ dos'[opt] \in Nat /\ dos'[opt] <= dos[opt] + Count(r, opt)
                           /\ dos[opt] + Count(r, opt) > 0 => dos'[opt] > 0
                           /\ Count(r, opt) \in {0, 1} /\ dos[opt] \in Nat
  BY <1>1, <1>2, <1>6 DEF Types, Counted, MaxDos
<1>10. Types'
  <2>1. toClient' \in Seq(FromServer)
    BY <1>1, <1>2, <1>6 DEF Types
  <2>2. dos' \in [Options -> Nat]
    BY <1>1, <1>9
  <2> QED BY <1>1, <1>2, <1>5, <1>7, <2>1, <2>2 DEF Types
<1>11. \A i \in DOMAIN toClient' : toClient'[i].cmd = "DO" => dos'[toClient'[i].opt] > 0
  <2> SUFFICES ASSUME NEW i \in DOMAIN toClient', toClient'[i].cmd = "DO"
               PROVE  dos'[toClient'[i].opt] > 0
    OBVIOUS
  <2>1. \/ i \in DOMAIN toClient /\ toClient'[i] = toClient[i]
        \/ \E j \in DOMAIN r : toClient'[i] = r[j]
    <3>1. /\ Len(toClient) \in Nat /\ Len(r) \in Nat
          /\ DOMAIN toClient = 1..Len(toClient) /\ DOMAIN r = 1..Len(r)
          /\ DOMAIN toClient' = 1..(Len(toClient) + Len(r))
          /\ \A j \in 1..(Len(toClient) + Len(r)) :
               toClient'[j] = IF j <= Len(toClient) THEN toClient[j] ELSE r[j - Len(toClient)]
      BY <1>1, <1>2, <1>6 DEF Types
    <3>2. CASE i <= Len(toClient)
      BY <3>1, <3>2
    <3>3. CASE ~(i <= Len(toClient))
      <4>1. i - Len(toClient) \in DOMAIN r
        BY <3>1, <3>3
      <4> QED BY <3>1, <3>3, <4>1
    <3> QED BY <3>2, <3>3
  <2>2. CASE i \in DOMAIN toClient /\ toClient'[i] = toClient[i]
    <3>1. toClient[i].opt \in Options
      BY <1>2, <2>2, MessageOption DEF Types
    <3>2. dos[toClient[i].opt] > 0
      BY <2>2 DEF NegotiationInv
    <3> QED BY <1>9, <2>2, <3>1, <3>2
  <2>3. CASE \E j \in DOMAIN r : toClient'[i] = r[j]
    <3>1. PICK j \in DOMAIN r : toClient'[i] = r[j]
      BY <2>3
    <3>2. r[j].opt \in Options
      BY <1>6, MessageOption
    <3>3. Count(r, r[j].opt) = 1
      BY <1>6, <3>1
    <3> QED BY <1>9, <3>1, <3>2, <3>3
  <2> QED BY <2>1, <2>2, <2>3
<1>12. ASSUME ~forgetful', NEW o \in Options PROVE Agreed(o)'
  <2>1. Agreed(o)
    BY <1>1, <1>12 DEF NegotiationInv
  <2>2. requests[o] \in 0..1 /\ offers[o] \in 0..1
    BY <1>2 DEF Types
  <2>3. CASE m.cmd = "WILL" /\ m.opt = o
    <3>1. Wills(toServer, o) # {}
      BY <1>8, <2>3
    <3>2. PICK i \in DOMAIN toServer : Wills(toServer, o) = {i}
      BY <2>1, <3>1 DEF Agreed
    <3>3. Wills(toServer', o) = {}
      BY <1>1, <1>7, <2>3, <3>2
    <3>4. mode[o] # "off" /\ dos[o] <= requests[o]
          /\ (offers[o] = 1 \/ o \in state.negotiation_pending)
      BY <2>1, <3>1 DEF Agreed
    <3>5. Count(r, o) <= offers[o]
      BY <1>6, <2>2, <2>3, <3>4
    <3>6. dos'[o] <= requests'[o] + offers'[o]
      <4>1. dos'[o] <= dos[o] + Count(r, o) /\ dos'[o] \in Nat /\ dos[o] \in Nat
        BY <1>9
      <4>2. Count(r, o) \in {0, 1}
        BY <1>9
      <4> QED BY <1>1, <2>2, <3>4, <3>5, <4>1, <4>2
    <3> QED BY <1>1, <3>3, <3>4, <3>6 DEF Agreed
  <2>4. CASE ~(m.cmd = "WILL" /\ m.opt = o)
    <3>1. Count(r, o) = 0 /\ dos'[o] <= dos[o] /\ dos'[o] \in Nat /\ dos[o] \in Nat
      BY <1>6, <1>9, <2>4
    <3>2. o \in state.negotiation_pending => o \in state'.negotiation_pending
      BY <1>5, <2>4
    <3>3. Wills(toServer, o) = {} => Wills(toServer', o) = {}
      BY <1>1, <1>7
    <3>4. Wills(toServer', o) # {} => \E i \in DOMAIN toServer' : Wills(toServer', o) = {i}
      BY <1>1, <1>7, <2>1, <3>3 DEF Agreed
    <3>5. dos'[o] <= requests'[o] + offers'[o]
      BY <1>1, <2>1, <2>2, <3>1 DEF Agreed
    <3>6. mode'[o] = "off" =>
            /\ Wills(toServer', o) = {}
            /\ offers'[o] = 0
            /\ requests'[o] = 1 => o \in state'.negotiation_pending
      BY <1>1, <2>1, <3>2, <3>3 DEF Agreed
    <3>7. Wills(toServer', o) # {} =>
            /\ dos'[o] <= requests'[o]
            /\ offers'[o] = 1 \/ o \in state'.negotiation_pending
      BY <1>1, <2>1, <2>2, <3>1, <3>2, <3>3 DEF Agreed
    <3> QED BY <3>4, <3>5, <3>6, <3>7 DEF Agreed
  <2> QED BY <2>3, <2>4
<1> QED BY <1>10, <1>11, <1>12 DEF NegotiationInv

LEMMA OfferKeepsInv ==
  ASSUME NegotiationInv, NEW opt \in Options, Offer(opt)
  PROVE  NegotiationInv'
<1> DEFINE will == Say("WILL", opt, 0)
<1>1. /\ mode[opt] = "off" /\ offers[opt] = 0
      /\ mode' = [mode EXCEPT ![opt] = "offered"]
      /\ offers' = [offers EXCEPT ![opt] = @ + 1]
      /\ toServer' = Append(toServer, will)
      /\ state' = state /\ toClient' = toClient /\ dos' = dos /\ requests' = requests
      /\ forgetful' = forgetful /\ supports' = supports \cup {opt}
      /\ refused' = refused /\ wants' = wants
  BY DEF Offer
<1>2. Types
  BY DEF NegotiationInv
<1>3. will \in FromClient /\ will.opt = opt /\ will.cmd = "WILL"
  BY DEF FromClient, Say, CT!Say
<1> HIDE DEF will
<1>4. /\ mode' \in [Options -> {"off", "offered", "on"}] /\ offers' \in [Options -> 0..1]
      /\ mode'[opt] = "offered" /\ offers'[opt] = 1
      /\ \A o \in Options : o # opt => mode'[o] = mode[o] /\ offers'[o] = offers[o]
  BY <1>1, <1>2 DEF Types
<1>5. /\ toServer' \in Seq(FromClient) /\ toServer' = toServer \o <<will>>
      /\ toServer \in Seq(FromClient) /\ <<will>> \in Seq(FromClient)
  BY <1>1, <1>2, <1>3 DEF Types
<1>6. \A o : Wills(<<will>>, o) = IF o = opt THEN {1} ELSE {}
  BY <1>3 DEF Wills
<1>7. Types'
  BY <1>1, <1>2, <1>4, <1>5 DEF Types
<1>8. \A i \in DOMAIN toClient' : toClient'[i].cmd = "DO" => dos'[toClient'[i].opt] > 0
  BY <1>1 DEF NegotiationInv
<1>9. ASSUME ~forgetful', NEW o \in Options PROVE Agreed(o)'
  <2>1. Agreed(o)
    BY <1>1, <1>9 DEF NegotiationInv
  <2>2. CASE o = opt
    <3>1. Wills(toServer, o) = {} /\ dos[o] <= requests[o] + 0
      BY <1>1, <2>1, <2>2 DEF Agreed
    <3>2. /\ Wills(toServer', o) = {Len(toServer) + 1}
          /\ Len(toServer) + 1 \in DOMAIN toServer'
      <4>1. Wills(<<will>>, o) = {1}
        BY <1>6, <2>2
      <4>2. /\ Wills(toServer \o <<will>>, o) = {Len(toServer) + 1}
            /\ Len(toServer) + 1 \in DOMAIN (toServer \o <<will>>)
        BY <1>5, <3>1, <4>1, WillsOfBoth
      <4> QED BY <1>5, <4>2
    <3>3. dos[o] \in Nat /\ requests[o] \in 0..1
      BY <1>2 DEF Types
    <3>4. dos'[o] <= requests'[o] /\ dos'[o] <= requests'[o] + offers'[o]
      BY <1>1, <1>4, <2>2, <3>1, <3>3
    <3> QED BY <1>4, <2>2, <3>2, <3>4 DEF Agreed
  <2>3. CASE o # opt
    <3>1. Wills(toServer', o) = Wills(toServer, o)
      <4>1. Wills(<<will>>, o) = {}
        BY <1>6, <2>3
      <4> DEFINE last == <<will>>
      <4>2. last \in Seq(FromClient) /\ Wills(last, o) = {} /\ toServer \in Seq(FromClient)
        BY <1>5, <4>1
      <4> HIDE DEF last
      <4>3. Wills(toServer \o last, o) = Wills(toServer, o)
        BY <4>2, WillsOfBoth
      <4> QED BY <1>5, <4>3 DEF last
    <3>2. \A i \in DOMAIN toServer : i \in DOMAIN toServer'
      BY <1>1, <1>5
    <3> QED BY <1>1, <1>4, <2>1, <2>3, <3>1, <3>2 DEF Agreed
  <2> QED BY <2>2, <2>3
<1> QED BY <1>7, <1>8, <1>9 DEF NegotiationInv

LEMMA WantKeepsInv ==
  ASSUME NegotiationInv, NEW opt \in Options, Want(opt)
  PROVE  NegotiationInv'
<1> DEFINE do == Say("DO", opt, 0)
<1>1. /\ toServer' = Append(toServer, do) /\ wants' = wants \cup {opt}
      /\ UNCHANGED <<state, toClient, mode, forgetful, supports, refused, requests,
                     offers, dos>>
  BY DEF Want
<1>2. Types
  BY DEF NegotiationInv
<1>3. do \in FromClient /\ do.cmd = "DO"
  BY DEF FromClient, Say, CT!Say
<1> HIDE DEF do
<1> DEFINE last == <<do>>
<1>4. /\ toServer \in Seq(FromClient) /\ last \in Seq(FromClient)
      /\ toServer' = toServer \o last
  BY <1>1, <1>2, <1>3 DEF Types
<1>5. \A o : Wills(last, o) = {}
  BY <1>3 DEF Wills
<1> HIDE DEF last
<1>6. \A o : Wills(toServer', o) = Wills(toServer, o)
  BY <1>4, <1>5, WillsOfBoth
<1>7. \A i \in DOMAIN toServer : i \in DOMAIN toServer'
  BY <1>4
<1>8. Types'
  <2>1. toServer' \in Seq(FromClient)
    BY <1>4
  <2> QED BY <1>1, <1>2, <2>1 DEF Types
<1>9. \A i \in DOMAIN toClient' : toClient'[i].cmd = "DO" => dos'[toClient'[i].opt] > 0
  BY <1>1 DEF NegotiationInv
<1>10. ASSUME ~forgetful', NEW o \in Options PROVE Agreed(o)'
  <2>1. Agreed(o)
    BY <1>1, <1>10 DEF NegotiationInv
  <2> QED BY <1>1, <1>6, <1>7, <2>1 DEF Agreed
<1> QED BY <1>8, <1>9, <1>10 DEF NegotiationInv

LEMMA ClientReadsKeepsInv ==
  ASSUME NegotiationInv, ClientReads
  PROVE  NegotiationInv'
<1> DEFINE m == Head(toClient)
           r == ReplyOfClient(m)
<1>1. /\ toClient # <<>> /\ toClient' = Tail(toClient)
      /\ mode' = IF Agrees(m) THEN [mode EXCEPT ![m.opt] = "on"] ELSE mode
      /\ toServer' = toServer \o r
      /\ state' = state /\ offers' = offers /\ dos' = dos /\ requests' = requests
      /\ forgetful' = forgetful /\ supports' = supports /\ wants' = wants
      /\ refused' = refused \/ (Refuses(m) /\ refused' = refused \cup {m.opt})
  BY DEF ClientReads
<1>2. Types
  BY DEF NegotiationInv
<1>3. /\ Tail(toClient) \in Seq(FromServer)
      /\ \A i \in DOMAIN Tail(toClient) :
           i + 1 \in DOMAIN toClient /\ Tail(toClient)[i] = toClient[i + 1]
      /\ 1 \in DOMAIN toClient /\ m = toClient[1] /\ m \in FromServer
  BY <1>1, <1>2 DEF Types
<1>4. m.cmd = "DO" => dos[m.opt] > 0
  BY <1>3 DEF NegotiationInv
<1>5. /\ r \in Seq(FromClient)
      /\ ~forgetful => \A opt \in Options :
           \/ Wills(r, opt) = {}
           \/ /\ m.cmd = "DO" /\ m.opt = opt /\ opt \in supports
              /\ mode[opt] = "off" /\ Wills(r, opt) = {1}
  BY <1>2, <1>3, ReplyToAMessage
<1>6. m.opt \in Options
  BY <1>3 DEF FromServer
<1> HIDE DEF r, m
<1>7. /\ mode' \in [Options -> {"off", "offered", "on"}]
      /\ \A o \in Options : mode'[o] = IF Agrees(m) /\ m.opt = o THEN "on" ELSE mode[o]
  BY <1>1, <1>2, <1>6 DEF Types
<1>8. Types'
  <2>1. toServer' \in Seq(FromClient)
    BY <1>1, <1>2, <1>5 DEF Types
  <2>2. refused' \subseteq Options
    BY <1>1, <1>2, <1>6 DEF Types
  <2> QED BY <1>1, <1>2, <1>3, <1>7, <2>1, <2>2 DEF Types
<1>9. \A i \in DOMAIN toClient' : toClient'[i].cmd = "DO" => dos'[toClient'[i].opt] > 0
  BY <1>1, <1>3 DEF NegotiationInv
<1>10. ASSUME ~forgetful', NEW o \in Options PROVE Agreed(o)'
  <2>1. Agreed(o)
    BY <1>1, <1>10 DEF NegotiationInv
  <2>2. /\ toServer \in Seq(FromClient) /\ dos[o] \in Nat
        /\ requests[o] \in 0..1 /\ offers[o] \in 0..1
    BY <1>2 DEF Types
  <2>3. CASE Wills(r, o) = {}
    <3>1. Wills(toServer', o) = Wills(toServer, o)
      BY <1>1, <1>5, <2>2, <2>3, WillsOfBoth
    <3>2. \A i \in DOMAIN toServer : i \in DOMAIN toServer'
      BY <1>1, <1>5, <2>2
    <3>3. mode'[o] = "off" => mode[o] = "off"
      BY <1>7
    <3> QED BY <1>1, <2>1, <3>1, <3>2, <3>3 DEF Agreed
  <2>4. CASE Wills(r, o) # {}
    <3>1. /\ m.cmd = "DO" /\ m.opt = o /\ o \in supports /\ mode[o] = "off"
          /\ Wills(r, o) = {1}
      BY <1>1, <1>5, <1>10, <2>4
    <3>2. /\ Wills(toServer, o) = {} /\ offers[o] = 0
          /\ dos[o] <= requests[o] + 0 /\ dos[o] > 0
          /\ requests[o] = 1 => o \in state.negotiation_pending
      BY <1>4, <2>1, <3>1 DEF Agreed
    <3>3. requests[o] = 1 /\ dos[o] <= requests[o]
      BY <2>2, <3>2
    <3>4. /\ Wills(toServer', o) = {Len(toServer) + 1}
          /\ Len(toServer) + 1 \in DOMAIN toServer'
      <4>1. /\ Wills(toServer \o r, o) = {Len(toServer) + 1}
            /\ Len(toServer) + 1 \in DOMAIN (toServer \o r)
        BY <1>5, <2>2, <3>1, <3>2, WillsOfBoth
      <4> QED BY <1>1, <4>1
    <3>5. mode'[o] = "on"
      BY <1>7, <3>1 DEF Agrees
    <3> QED BY <1>1, <2>1, <3>2, <3>3, <3>4, <3>5 DEF Agreed
  <2> QED BY <2>3, <2>4
<1> QED BY <1>8, <1>9, <1>10 DEF NegotiationInv

\* The line is lost, and what was under way on it.
LEMMA LosingTheLineKeepsInv ==
  ASSUME NegotiationInv, toClient' = <<>>, toServer' = <<>>,
         UNCHANGED <<state, client, requests, offers, dos>>
  PROVE  NegotiationInv'
<1>1. Types'
  BY DEF NegotiationInv, Types, client
<1>2. \A opt : Wills(toServer', opt) = {}
  BY DEF Wills
<1>3. ASSUME ~forgetful', NEW opt \in Options PROVE Agreed(opt)'
  BY <1>2, <1>3 DEF NegotiationInv, Agreed, client
<1> QED BY <1>1, <1>3 DEF NegotiationInv

-----------------------------------------------------------------------------
(* The login object.                                                       *)

LEMMA InitInv == Init => Inv
<1> SUFFICES ASSUME Init PROVE Inv
  OBVIOUS
<1>1. NegotiationInv
  BY InitNegotiation DEF Init
<1>2. LoginInv
  BY TimeoutComesFirst DEF Init, LoginInv, interactive
<1> QED BY <1>1, <1>2 DEF Inv

LEMMA StepInv == Inv /\ [Next]_vars => Inv'
<1> SUFFICES ASSUME Inv, [Next]_vars PROVE Inv'
  OBVIOUS
<1> USE TimeoutComesFirst
<1>0. NegotiationInv /\ LoginInv
  BY DEF Inv
<1>1. ASSUME UNCHANGED telnetVars PROVE NegotiationInv'
  BY <1>0, <1>1 DEF telnetVars, client, NegotiationInv, Types, Agreed
<1>2. CASE get_terminal_type
  <2>1. LoginInv'
    BY <1>0, <1>2 DEF get_terminal_type, welcome, LoginInv, interactive
  <2> QED BY <1>1, <1>2, <2>1 DEF get_terminal_type, Inv
<1>3. CASE heart_beat
  <2>1. CASE ~interactive \/ idle > TimeoutSecs
    <3>1. abort /\ beat' = BeatPeriod /\ idle' = idle
      BY <1>3, <2>1 DEF heart_beat
    <3>2. LoginInv'
      <4>1. /\ alive' = FALSE /\ retry' = 0 /\ wait' = 0 /\ welcomed' = welcomed
            /\ line' \in {line, "nobody"} /\ beat' = BeatPeriod /\ idle' = idle
        BY <3>1 DEF abort
      <4>2. ~alive' /\ alive' \in BOOLEAN
        BY <4>1, Zenon
      <4> QED BY <1>0, <4>1, <4>2 DEF LoginInv
    <3>3. NegotiationInv'
      BY <1>0, <3>1, LosingTheLineKeepsInv DEF abort
    <3> QED BY <3>2, <3>3 DEF Inv
  <2>2. CASE ~(~interactive \/ idle > TimeoutSecs)
    <3>1. /\ UNCHANGED telnetVars
          /\ alive' = alive /\ line' = line /\ welcomed' = welcomed
          /\ retry' = retry /\ wait' = wait /\ idle' = idle
          /\ beat' = BeatPeriod /\ line = "login" /\ ~(idle > TimeoutSecs)
      BY <1>3, <2>2 DEF heart_beat, interactive
    <3>2. idle + BeatPeriod <= TimeoutSecs + BeatPeriod
      BY <1>0, <3>1 DEF LoginInv
    <3>3. LoginInv'
      BY <1>0, <3>1, <3>2 DEF LoginInv, interactive
    <3> QED BY <1>1, <3>1, <3>3 DEF Inv
  <2> QED BY <2>1, <2>2
<1>4. CASE Tick
  <2>1. LoginInv'
    BY <1>0, <1>4 DEF Tick, LoginInv, interactive
  <2> QED BY <1>1, <1>4, <2>1 DEF Tick, Inv
<1>5. CASE enter
  <2>1. LoginInv'
    BY <1>0, <1>5 DEF enter, LoginInv, interactive
  <2> QED BY <1>1, <1>5, <2>1 DEF enter, Inv
<1>6. ASSUME NEW to \in {"avatar", "nobody"}, leave(to) PROVE Inv'
  <2>1. LoginInv'
    BY <1>0, <1>6 DEF leave, LoginInv, interactive
  <2>2. NegotiationInv'
    BY <1>0, <1>6, LosingTheLineKeepsInv DEF leave
  <2> QED BY <2>1, <2>2 DEF Inv
<1>7. CASE negotiate
  <2>1. LoginInv'
    BY <1>0, <1>7 DEF negotiate, LoginInv, interactive, loginVars
  <2>2. NegotiationInv'
    BY <1>0, <1>7, AskKeepsInv, ServerReadsKeepsInv, OfferKeepsInv, WantKeepsInv,
       ClientReadsKeepsInv DEF negotiate, Negotiate
  <2> QED BY <2>1, <2>2 DEF Inv
<1>8. CASE UNCHANGED vars
  <2>1. LoginInv'
    BY <1>0, <1>8 DEF vars, loginVars, LoginInv, interactive
  <2> QED BY <1>1, <1>8, <2>1 DEF vars, Inv
<1> QED BY <1>2, <1>3, <1>4, <1>5, <1>6, <1>7, <1>8 DEF Next, Driver

LEMMA InvHolds == Spec => []Inv
<1> QED BY InitInv, StepInv, PTL DEF Spec
-----------------------------------------------------------------------------
(* What follows.                                                           *)

\* The type invariant, of the login object and the negotiation.
THEOREM TypeCorrect == Spec => []TypeOK
<1>1. Inv => TypeOK
  <2> SUFFICES ASSUME Inv PROVE TypeOK
    OBVIOUS
  <2>1. Types
    BY DEF Inv, NegotiationInv
  <2>2. \A i \in DOMAIN toServer : toServer[i].cmd \in CT!Commands
    <3>1. \A i \in DOMAIN toServer : toServer[i] \in FromClient
      BY <2>1 DEF Types
    <3> QED BY <3>1 DEF FromClient, CT!Commands
  <2>3. \A i \in DOMAIN toClient : toClient[i].cmd \in {"DO", "WILL", "SEND"}
    <3>1. \A i \in DOMAIN toClient : toClient[i] \in FromServer
      BY <2>1 DEF Types
    <3> QED BY <3>1 DEF FromServer
  <2>4. TelnetTypes
    BY <2>1, <2>2, <2>3 DEF TelnetTypes, Types
  <2> QED BY <2>4 DEF Inv, LoginInv, TypeOK
<1> QED BY <1>1, InvHolds, PTL

\* A WILL that answers the tracker's own DO is not answered by another DO,
\* however requests and offers cross (the test of connection.c:211).
THEOREM AnswersGetNoAnswer == Spec => []AnswersAreNotAnswered
<1>1. Inv => AnswersAreNotAnswered
  BY DEF Inv, NegotiationInv, Agreed, AnswersAreNotAnswered
<1> QED BY <1>1, InvHolds, PTL

\* No login object outstays its client by more than the heart beats allow
\* (login.c:134-139, 173-178).
THEOREM LoginsDoNotOutstay == Spec => []NoneOutstays
<1>1. Inv => NoneOutstays
  BY TimeoutComesFirst DEF Inv, LoginInv, NoneOutstays, interactive
<1> QED BY <1>1, InvHolds, PTL
=============================================================================
