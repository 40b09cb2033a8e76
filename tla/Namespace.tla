----------------------------- MODULE Namespace -----------------------------
(***************************************************************************)
(* Namespace: what the file system promises to those who name files.  The  *)
(* names form a tree; a call adds a file or an empty directory to a        *)
(* directory that exists, or removes a file or an empty directory, and     *)
(* nothing else changes.  A boot formats the disk and writes one file.     *)
(***************************************************************************)
EXTENDS Sequences, SequencesExt

CONSTANTS Paths,  \* the paths there may be, without the root
          Boot    \* the path of the file that main writes

VARIABLE tree     \* what is there: [path, kind]

Node(path, kind) == [path |-> path, kind |-> kind]

Fresh == {Node(Boot, "regular")}

Grow(path, kind) ==
  /\ \A node \in tree : node.path # path
  /\ Front(path) = <<>> \/ Node(Front(path), "directory") \in tree
  /\ tree' = tree \cup {Node(path, kind)}

Prune(node) ==
  /\ \A n \in tree : ~IsStrictPrefix(node.path, n.path)
  /\ tree' = tree \ {node}

Format == tree' = Fresh

Init == tree = Fresh

Next == \/ Format
        \/ \E path \in Paths, kind \in {"regular", "directory"} : Grow(path, kind)
        \/ \E node \in tree : Prune(node)

Spec == Init /\ [][Next]_tree
=============================================================================
