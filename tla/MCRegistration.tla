--------------------------- MODULE MCRegistration ---------------------------
(***************************************************************************)
(* Registration for TLC.  Clients, login objects and usernames are         *)
(* interchangeable: no definition tells one of a kind from another, and    *)
(* nothing but safety is checked.                                          *)
(***************************************************************************)
EXTENDS Registration, TLC

Symmetry ==
  {f @@ g @@ h : f \in Permutations(Lines), g \in Permutations(Logins),
                 h \in Permutations(Usernames)}
=============================================================================
