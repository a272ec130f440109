------------------------------ MODULE FileTreeLib ------------------------------
(***************************************************************************)
(* FileLib (.lib/file.c), the walk over a tree of files: traverse_tree(),  *)
(* and copy_tree(), which is a walk that makes each directory and file     *)
(* anew.                                                                   *)
(***************************************************************************)
EXTENDS FileLib, FiniteSets, LibraryInput

HasDir(tree, path) == path \in DOMAIN tree /\ tree[path] = "dir"

\* What is below the file from, below the file to.
moved(file, from, to) == to \o SubSeq(file, Len(from) + 1, Len(file))

\* What the callback of copy_tree() does with one file; if mkdir() or
\* copy_file() fails, it goes on all the same.
copy_one(tree, file, to) ==
  IF ~is_special_dir(file) /\ HasDir(tree, Front(to)) /\ to \notin DOMAIN tree
    THEN [p \in (DOMAIN tree) \cup {to} |-> tree[IF p = to THEN file ELSE p]] ELSE tree

\* One call of _traverse() with the callback of copy_tree().  The callback is
\* run before the walk goes on into the directory; todo are the files that it
\* and the calls that wait for it have listed and not come to.
traverse(walk_state, root, dest) ==
  LET file == Head(walk_state.todo)
      made == copy_one(walk_state.tree, file, moved(file, root, dest))
      inside == IF IsDir(made, file) /\ ~is_special_dir(file)
                  THEN SetToSeq(get_dir(made, file, "*")) ELSE <<>>
  IN  IF walk_state.todo = <<>> THEN walk_state
        ELSE [tree |-> made, todo |-> inside \o Tail(walk_state.todo)]

\* All that get_dir() can list of a tree.
Entries(tree) == DOMAIN tree \cup {Append(d[1], d[2]) : d \in (DOMAIN tree) \X Special}

\* Each entry is come to once, unless the walk meets what it makes.
traverse_tree(tree, root, dest) ==
  LET calls == Cardinality(Entries(tree))
      after[k \in 0..calls] ==
        IF k = 0 THEN [tree |-> tree, todo |-> <<root>>] ELSE traverse(after[k - 1], root, dest)
  IN  after[calls].tree

copy_tree(tree, src, dest) ==
  IF src \in DOMAIN tree THEN traverse_tree(tree, src, dest) ELSE tree
-----------------------------------------------------------------------------
\* The files of a tree that are below dir, itself included.
Below(tree, dir) == {p \in DOMAIN tree : IsPrefix(dir, p)}

\* Each file below src has its copy below dest, there is nothing else, and
\* the rest is as it was.
IsCopied(tree, src, dest) ==
  LET made == copy_tree(tree, src, dest) IN
    /\ Below(made, dest) = {moved(p, src, dest) : p \in Below(tree, src)}
    /\ \A p \in Below(tree, src) : made[moved(p, src, dest)] = tree[p]
    /\ DOMAIN made = DOMAIN tree \cup Below(made, dest)
    /\ \A p \in DOMAIN tree : made[p] = tree[p]

Destinations == {<<"", "c">>, <<"", "b", "c">>}

\* A directory is copied to any place where nothing is, but within itself.
TreeIsCopied(tree) ==
  \A src \in DOMAIN tree, dest \in Destinations :
    HasDir(tree, src) /\ HasDir(tree, Front(dest)) /\ Below(tree, dest) = {} /\ ~IsPrefix(src, dest) =>
      IsCopied(tree, src, dest)

\* Files: a pattern finds the files that match it, and no others; and what is
\* copied is as it was (.lib/file.c: expand_path, expand_pattern, copy_tree).
FilesAreFound == focus = "files" => PathsAreResolved(given) /\ TreeIsCopied(given.tree)
=============================================================================
