----------------------------- MODULE LibraryInput -----------------------------
(***************************************************************************)
(* Which service or library is looked at, and what a library is given.     *)
(* Neither ever changes.                                                   *)
(***************************************************************************)

VARIABLES focus,
          given  \* of the library in focus
=============================================================================
