------------------------ MODULE MCConnectionTracker ------------------------
(***************************************************************************)
(* ConnectionTracker for TLC.  Nothing in it tells one line, one login     *)
(* object or one avatar from another, so they are symmetric.               *)
(***************************************************************************)
EXTENDS ConnectionTracker, TLC

Symmetry == Permutations(Lines) \cup Permutations(Logins) \cup Permutations(Bodies)
=============================================================================
