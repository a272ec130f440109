----------------------------- MODULE LoginObject -----------------------------
(***************************************************************************)
(* LoginObject (.obj/login.c): what a client talks to between the logon of *)
(* its line and the exec() into its avatar.  Input is swallowed until the  *)
(* terminal type is known; a call_out every second looks whether the       *)
(* negotiation with the client has told it (TelnetNegotiation), and a      *)
(* heart beat destructs a login that sits idle or has lost its line.       *)
(*                                                                         *)
(* The driver runs one of these at a time; a second passes (Tick) only     *)
(* when no call_out and no heart beat is due.  Messages of the client may  *)
(* be under way for any number of seconds.                                 *)
(***************************************************************************)
EXTENDS TelnetNegotiation

CONSTANTS TimeoutSecs,   \* TIMEOUT_SECS, 600 in login.h
          MaxRetries,    \* 2345235 in get_terminal_type()
          BeatPeriod     \* seconds between heart beats, 2 in the driver

\* In the code a silent client is timed out long before the retries run out.
ASSUME TimeoutComesFirst ==
  /\ TimeoutSecs \in Nat /\ MaxRetries \in Nat /\ BeatPeriod \in Nat \ {0}
  /\ TimeoutSecs + BeatPeriod < MaxRetries

VARIABLES alive,     \* the login object is not destructed
          line,      \* who has the client: "login", "avatar" or "nobody"
          welcomed,  \* "no" while input is suppressed; else for which terminal
          retry,     \* argument of the pending get_terminal_type(), or 0
          wait,      \* seconds until it is called
          beat,      \* seconds until the heart beat
          idle       \* query_idle(); without a line, since that was lost

loginVars == <<alive, line, welcomed, retry, wait, beat, idle>>

vars == <<telnetVars, loginVars>>

interactive == line = "login"

\* connect(), called by logon(): the connection is tracked and the terminal
\* asked for (TelnetInit), and the first look for it finds nothing.
Init ==
  /\ TelnetInit
  /\ alive = TRUE
  /\ line = "login"
  /\ welcomed = "no"
  /\ retry = 1
  /\ wait = 1
  /\ beat = BeatPeriod
  /\ idle = 0
-----------------------------------------------------------------------------
(* The login object.                                                       *)

\* welcome() shows the screen and gives the prompt back.
welcome(terminal) ==
  /\ welcomed' = terminal
  /\ retry' = 0
  /\ wait' = 0

\* Fault: the last retry is counted but no further one scheduled.
get_terminal_type_once ==
  /\ alive /\ retry # 0 /\ wait = 0
  /\ IF state.info[TTYPE] # 0
       THEN welcome("terminal")
       ELSE /\ retry' = 0
            /\ UNCHANGED <<welcomed, wait>>
  /\ UNCHANGED <<telnetVars, alive, line, beat, idle>>

\* get_terminal_type(), as its own call_out: the terminal is known, or the
\* default is taken after MaxRetries, or it is called again in a second.
get_terminal_type ==
  /\ alive /\ retry # 0 /\ wait = 0
  /\ IF state.info[TTYPE] # 0
       THEN welcome("terminal")
       ELSE IF retry >= MaxRetries
              THEN welcome("default")
              ELSE /\ retry' = retry + 1
                   /\ wait' = 1
                   /\ UNCHANGED welcomed
  /\ UNCHANGED <<telnetVars, alive, line, beat, idle>>

\* abort(): the object is destructed, its call_outs and its line with it.
abort ==
  /\ alive' = FALSE
  /\ line' = IF interactive THEN "nobody" ELSE line
  /\ retry' = 0
  /\ wait' = 0
  /\ toClient' = <<>>
  /\ toServer' = <<>>
  /\ UNCHANGED <<state, client, requests, offers, dos, welcomed>>

\* Fault: only the idle time is looked at, which a lost line has none of.
heart_beat_of_idle ==
  /\ alive /\ beat = 0
  /\ beat' = BeatPeriod
  /\ IF interactive /\ idle > TimeoutSecs
       THEN abort
       ELSE UNCHANGED <<telnetVars, alive, line, welcomed, retry, wait>>
  /\ UNCHANGED idle

\* heart_beat() with attempt_timeout().
heart_beat ==
  /\ alive /\ beat = 0
  /\ beat' = BeatPeriod
  /\ IF ~interactive \/ idle > TimeoutSecs
       THEN abort
       ELSE UNCHANGED <<telnetVars, alive, line, welcomed, retry, wait>>
  /\ UNCHANGED idle
-----------------------------------------------------------------------------
(* The client and the driver.                                              *)

\* Input of any kind: while suppressed, suppress_prompt() swallows it.
enter ==
  /\ interactive
  /\ idle' = 0
  /\ UNCHANGED <<telnetVars, alive, line, welcomed, retry, wait, beat>>

\* The line leaves the login object: the client hangs up, or a command given
\* at the prompt moved it to an avatar (ConnectionLib's exec).
leave(to) ==
  /\ interactive
  /\ to = "avatar" => welcomed # "no"
  /\ line' = to
  /\ idle' = 0
  /\ toClient' = <<>>
  /\ toServer' = <<>>
  /\ UNCHANGED <<state, client, requests, offers, dos,
                 alive, welcomed, retry, wait, beat>>

\* The negotiation goes on as long as the login object has the line.
negotiate ==
  /\ interactive
  /\ Negotiate
  /\ UNCHANGED loginVars

Tick ==
  /\ alive
  /\ beat > 0
  /\ retry # 0 => wait > 0
  /\ beat' = beat - 1
  /\ wait' = IF retry # 0 THEN wait - 1 ELSE 0
  /\ idle' = idle + 1
  /\ UNCHANGED <<telnetVars, alive, line, welcomed, retry>>

Driver == get_terminal_type \/ heart_beat \/ Tick

Next ==
  \/ Driver
  \/ enter
  \/ \E to \in {"avatar", "nobody"} : leave(to)
  \/ negotiate

\* The driver's clock, call_outs and heart beats never stop, and both ends of
\* the line read what they are sent.  Nobody has to type, ask, offer or leave.
Fairness ==
  /\ WF_vars(Driver)
  /\ WF_vars(interactive /\ ServerReads /\ UNCHANGED loginVars)
  /\ WF_vars(interactive /\ ClientReads /\ UNCHANGED loginVars)

Spec == Init /\ [][Next]_vars /\ Fairness
-----------------------------------------------------------------------------
(* Properties.                                                             *)

\* Type invariant.
TypeOK ==
  /\ TelnetTypes
  /\ alive \in BOOLEAN
  /\ line \in {"login", "avatar", "nobody"}
  /\ welcomed \in {"no", "terminal", "default"}
  /\ retry \in 0..MaxRetries
  /\ wait \in {0, 1}
  /\ beat \in 0..BeatPeriod
  /\ idle \in Nat

\* What was asked for or offered is learned, unless the client leaves first:
\* the terminal type in any case, because connect() asks for it.  Excepted is
\* an option other than the terminal type that the client refused and offers
\* now: WONT leaves the request pending, so that the offer gets no DO, and
\* only the value of the terminal type is sent on SEND alone.
Learns ==
  \A opt \in Options :
    [](opt \in supports /\ requests[opt] + offers[opt] > 0
         /\ (opt = TTYPE \/ opt \notin refused)
           => <>(state.info[opt] = Client \/ ~interactive))

\* No login object outstays its client (login.c:134-139, 173-178): one that
\* is idle for TIMEOUT_SECS is gone by the second heart beat after that, one
\* that lost its line by the next, whatever the client types before.
NoneOutstays ==
  alive => idle <= IF interactive THEN TimeoutSecs + BeatPeriod ELSE BeatPeriod

\* The suppression of input ends: every client gets a prompt or is gone in
\* the end, also one that never tells its terminal but keeps typing, and
\* whether or not a retry and a heart beat fall into the same second.
SuppressionEnds == <>(welcomed # "no" \/ ~alive)
=============================================================================
