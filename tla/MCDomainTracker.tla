--------------------------- MODULE MCDomainTracker ---------------------------
(***************************************************************************)
(* DomainTracker for TLC: directories below one another and beside one     *)
(* another, and the root of the mudlib.                                    *)
(***************************************************************************)
EXTENDS DomainTracker, TLC

CONSTANTS root, usr, usr_ann, usr_ann_lib, usr_bob

Tree ==
  [d \in {root, usr, usr_ann, usr_ann_lib, usr_bob} |->
     CASE d = root -> <<>>
       [] d = usr -> <<root>>
       [] d = usr_ann -> <<usr, root>>
       [] d = usr_bob -> <<usr, root>>
       [] d = usr_ann_lib -> <<usr_ann, usr, root>>]

MCAbove == [d \in Dirs |-> SelectSeq(Tree[d], LAMBDA a : a \in Dirs)]

\* The ids are only compared with one another.
Symmetry == Permutations(Ids)
=============================================================================
