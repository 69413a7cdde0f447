------------------------------- MODULE FSTree -------------------------------
(***************************************************************************)
(* The file tree the engine's interface promises its callers (spec         *)
(* sections 4.5 and 6), with no disk under it: a finite map from paths to  *)
(* nodes, the root a directory.  createFile and mkdir add one node under a *)
(* directory where the name is free, unlink removes a file, rmdir an empty *)
(* directory, and write and truncate change one file's size.  A call that *)
(* fails changes nothing a path can reach, so it is a stuttering step.     *)
(***************************************************************************)
EXTENDS Sequences, Naturals

CONSTANTS
  Names,   \* the names a caller may give a node
  Sizes    \* the sizes a file can have

VARIABLE tree   \* [paths -> node]: the nodes a path reaches

DirNode      == [type |-> "dir", size |-> 0]
FileNode(s)  == [type |-> "file", size |-> s]

\* q names a node directly inside directory p.
IsChild(q, p) == Len(q) = Len(p) + 1 /\ SubSeq(q, 1, Len(p)) = p

Init == tree = [q \in {<<>>} |-> DirNode]

\* A new node named n inside directory p, where n is not taken.
AddNode(p, n, node) ==
  LET q == Append(p, n) IN
  /\ tree[p].type = "dir"
  /\ q \notin DOMAIN tree
  /\ tree' = [x \in DOMAIN tree \cup {q} |-> IF x = q THEN node ELSE tree[x]]

RemoveNode(q) == tree' = [x \in DOMAIN tree \ {q} |-> tree[x]]

CreateFile == \E p \in DOMAIN tree, n \in Names : AddNode(p, n, FileNode(0))

MakeDir == \E p \in DOMAIN tree, n \in Names : AddNode(p, n, DirNode)

UnlinkFile == \E q \in DOMAIN tree : tree[q].type = "file" /\ RemoveNode(q)

RemoveDir ==
  \E q \in DOMAIN tree \ {<<>>} :
    /\ tree[q].type = "dir"
    /\ ~\E x \in DOMAIN tree : IsChild(x, q)
    /\ RemoveNode(q)

\* write extends a file to the end of the data, truncate sets its size.
Resize ==
  \E q \in DOMAIN tree, s \in Sizes :
    tree[q].type = "file" /\ tree' = [tree EXCEPT ![q] = FileNode(s)]

Next == CreateFile \/ MakeDir \/ UnlinkFile \/ RemoveDir \/ Resize

Spec == Init /\ [][Next]_tree
=============================================================================
