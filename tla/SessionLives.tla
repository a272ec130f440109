---------------------------- MODULE SessionLives ----------------------------
(***************************************************************************)
(* What the session registry promises its callers, with nothing said of    *)
(* how it keeps its books.  A session is begun for a user, on its own or   *)
(* below a session that already exists; once it has been resumed it has    *)
(* started for good; and each connection that serves it is written at the  *)
(* end of a history that nothing rewrites.                                 *)
(*                                                                         *)
(* life[s] is the life of session number s; the numbers are given out in   *)
(* order, and 0 stands for "no session above this one".                    *)
(***************************************************************************)
EXTENDS Integers, Sequences

CONSTANTS Users,         \* user ids that may own a session
          Connections    \* connection ids that may serve a session

VARIABLE life

SessionsSoFar == DOMAIN life

Init == life = <<>>

\* A user gets a session, below an older one when above # 0.
Begin(user, above) ==
  /\ above \in SessionsSoFar \cup {0}
  /\ life' = Append(life, [user |-> user, above |-> above,
                           started |-> FALSE, served |-> <<>>])

Start(s) ==
  /\ s \in SessionsSoFar
  /\ life' = [life EXCEPT ![s].started = TRUE]

Serve(s, connection) ==
  /\ s \in SessionsSoFar
  /\ life' = [life EXCEPT ![s].served = Append(@, connection)]

Next ==
  \/ \E user \in Users, above \in SessionsSoFar \cup {0} : Begin(user, above)
  \/ \E s \in SessionsSoFar : Start(s)
  \/ \E s \in SessionsSoFar, connection \in Connections : Serve(s, connection)

Spec == Init /\ [][Next]_life
=============================================================================
