\* Two directories are enough to list a child that is none.
SPECIFICATION Spec
CONSTANTS
  root = root
  usr = usr
  usr_ann = usr_ann
  usr_ann_lib = usr_ann_lib
  usr_bob = usr_bob
  Dirs = {usr, usr_ann, usr_ann_lib}
  Top = root
  Above <- MCAbove
  Ids = {x, y}
  Broken = broken
  NoFile = none
  MaxChanges = 3
INVARIANTS ChildrenAreDomains
