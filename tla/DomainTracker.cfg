\* Files of four directories and the root are written, broken and removed.
SPECIFICATION Spec
CONSTANTS
  root = root
  usr = usr
  usr_ann = usr_ann
  usr_ann_lib = usr_ann_lib
  usr_bob = usr_bob
  Dirs = {root, usr, usr_ann, usr_ann_lib, usr_bob}
  Top = root
  Above <- MCAbove
  Ids = {x, y}
  Broken = broken
  NoFile = none
  MaxChanges = 3
SYMMETRY Symmetry
INVARIANTS TablesAgree ListedWithParent FollowsFiles
PROPERTIES OthersStayTracked OrphansHadAParent
