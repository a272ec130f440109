------------------------------- MODULE FileLib -------------------------------
(***************************************************************************)
(* FileLib (.lib/file.c): paths, patterns and walks over a directory tree. *)
(*                                                                         *)
(* A string is the sequence of its parts between slashes: "/a" is          *)
(* <<"", "a">>, "a/" is <<"a", "">>.  A tree says of each path in it that  *)
(* it is a "dir" or a "file"; its root is <<"">>.  get_dir() matches one   *)
(* part of a path, of which only the wildcard for any name is modelled,    *)
(* and lists "." and ".." too.  Left out: homes ("~"), and the cache of    *)
(* patterns, which keeps an answer for the rest of the second.             *)
(***************************************************************************)
EXTENDS Integers, Sequences, SequencesExt, TLC

Special == {".", ".."}

Absolute(path) == Len(path) > 1 /\ Head(path) = ""

basename(path) == Last(path)

dirname(path) == Front(path)

\* Fault: what leads up is skipped.
walk_level(path, part) == IF part \in Special \cup {""} THEN path ELSE Append(path, part)

\* One step along a path: up, nowhere or down.
walk(path, part) ==
  CASE part = ".." -> IF path = <<>> THEN path ELSE Front(path)
    [] part \in {".", ""} -> path
    [] OTHER -> Append(path, part)

\* Part by part, from the root.
resolved(parts) ==
  LET path[k \in 0..Len(parts)] == IF k = 0 THEN <<>> ELSE walk(path[k - 1], parts[k])
  IN  path[Len(parts)]

\* The absolute path of a pattern seen from the file rel.
expand_path(pattern, rel) ==
  LET path == resolved(IF Absolute(pattern) THEN pattern ELSE dirname(rel) \o pattern)
  IN  IF path = <<>> THEN <<"", "">> ELSE <<"">> \o path

\* What get_dir() finds in dir for one part of a pattern.
get_dir(tree, dir, part) ==
  {p \in DOMAIN tree : p # <<"">> /\ Front(p) = dir /\ part \in {"*", Last(p)}} \cup
  {Append(dir, s) : s \in {n \in Special : dir \in DOMAIN tree /\ part \in {"*", n}}}

is_special_dir(path) == Last(path) \in Special

IsDir(tree, path) == is_special_dir(path) \/ tree[path] = "dir"

collate_files(tree, dir, part) == {p \in get_dir(tree, dir, part) : ~is_special_dir(p)}

\* What matches the first k parts below the root, for each k.  All parts but
\* the last lead through directories.
expand_files(tree, path) ==
  LET found[k \in 0..Len(path)] ==
        LET dirs == {p \in found[k - 1] : k = 1 \/ IsDir(tree, p)}
        IN  IF k = 0 THEN {<<"">>} ELSE UNION {collate_files(tree, dir, path[k]) : dir \in dirs}
  IN  found[Len(path)]

\* The root itself is expanded to what is in it.
expand_pattern(tree, pattern, rel) ==
  LET path == expand_path(pattern, rel)
  IN  expand_files(tree, IF path = <<"", "">> THEN <<"*">> ELSE Tail(path))
-----------------------------------------------------------------------------
(* Trees, and patterns to expand in them.                                  *)

Nodes == {<<"", "a">>, <<"", "b">>, <<"", "a", "a">>, <<"", "a", "b">>, <<"", "a", "a", "a">>}

Trees ==
  LET kept(t) == {p \in Nodes : t[p] # "none"}
      whole(t) == \A p \in kept(t) : Front(p) = <<"">> \/ t[Front(p)] = "dir"
  IN  {(<<"">> :> "dir") @@ [p \in kept(t) |-> t[p]] :
         t \in {f \in [Nodes -> {"none", "file", "dir"}] : whole(f)}}

\* No part of an empty string stays itself when one is added.
Patterns == UNION {[1..n -> {"", ".", "..", "a", "*"}] : n \in 1..3} \ {<<"">>}

FileInputs == [tree : Trees, pattern : Patterns]

Here == <<"", "a", "file">>

\* Paths are resolved part by part: at once or one after the other, from
\* wherever once they are absolute, and a step down and up again leads
\* nowhere.  A pattern finds the files of the tree that match it in each part.
PathsAreResolved(input) ==
  LET path == expand_path(input.pattern, Here)
      matches(p) == /\ Len(p) = Len(path)
                    /\ \A i \in DOMAIN path : path[i] \in {p[i], "*"}
  IN  /\ expand_path(path, <<"", "else">>) = path
      /\ expand_path(input.pattern \o <<"b", "..">>, Here) = path
      /\ \A part \in {".", "..", "b"} :
           expand_path(input.pattern \o <<part>>, Here) = expand_path(<<part>>, path \o <<"file">>)
      /\ path # <<"", "">> =>
           expand_pattern(input.tree, input.pattern, Here) = {p \in DOMAIN input.tree : matches(p)}
=============================================================================
