------------------------------ MODULE NameTree ------------------------------
(***************************************************************************)
(* What the file system's commands promise their user, who knows names and *)
(* contents and nothing of blocks: a tree of names, and a place in it.     *)
(***************************************************************************)
EXTENDS Naturals, Sequences

CONSTANTS
    Names,
    Contents,       \* what files may hold
    Directory,      \* what the tree holds for a directory, and
    NoFile          \* no content: neither is among Contents

VARIABLES
    tree,           \* pairs of a path, a sequence of names, and a content or Directory
    mounted, here,  \* is there an image, and the path of the working directory
    output          \* the file a command copied out, else NoFile

vars == <<tree, mounted, here, output>>

Root == << >>

Init ==
    /\ tree = {<<Root, Directory>>}
    /\ mounted = FALSE /\ here = Root
    /\ output = NoFile

Path(name) == Append(here, name)
Exists(name) == LET path == Path(name) IN \E e \in tree : e[1] = path

\* What leaves the tree alone.

Go(to) ==
    /\ here' = to
    /\ output' = NoFile

Mount == mounted' = TRUE /\ Go(Root)
Unmount == mounted' = FALSE /\ Go(Root)

GoRoot == UNCHANGED mounted /\ Go(Root)

Enter(name) ==
    /\ UNCHANGED mounted
    /\ Go(Path(name))
    /\ <<here', Directory>> \in tree

\* The root is its own parent.
Leave ==
    /\ UNCHANGED mounted
    /\ Go(IF here = Root THEN Root ELSE SubSeq(here, 1, Len(here) - 1))

CopyOut(name) ==
    /\ output' # NoFile
    /\ <<Path(name), output'>> \in tree /\ output' # Directory
    /\ UNCHANGED <<mounted, here>>

\* A message instead, for whatever reason.
Refuse == UNCHANGED <<mounted, here>> /\ output' = NoFile

\* What changes the tree.

Create(name) ==
    /\ ~Exists(name)
    /\ LET path == Path(name)
       IN  \E e \in tree' :
              /\ e[1] = path /\ e[2] \in Contents \cup {Directory}
              /\ tree' = tree \cup {e}

\* The path p is top or below it.
Within(p, top) == Len(top) <= Len(p) /\ SubSeq(p, 1, Len(top)) = top

\* A file, or a directory with nothing in it.
Delete(name) ==
    LET path == Path(name)
    IN  \E e \in tree :
           /\ e[1] = path
           /\ \A f \in tree : Within(f[1], path) => f = e
           /\ tree' = tree \ {e}

\* The path p after from has become to.
Moved(p, from, to) ==
    IF Within(p, from) THEN to \o SubSeq(p, Len(from) + 1, Len(p)) ELSE p

\* With all that is below it.
Rename(src, dst) ==
    /\ Exists(src) /\ ~Exists(dst)
    /\ LET from == Path(src)
           to == Path(dst)
       IN  tree' = {<<Moved(e[1], from, to), e[2]>> : e \in tree}

Next ==
    \/ /\ UNCHANGED tree
       /\ \/ Refuse
          \/ Mount
          \/ Unmount
          \/ /\ mounted
             /\ \/ GoRoot
                \/ Leave
                \/ \E name \in Names : CopyOut(name) \/ Enter(name)
    \/ /\ mounted
       /\ UNCHANGED <<mounted, here>> /\ output' = NoFile
       /\ \/ \E name \in Names : Create(name) \/ Delete(name)
          \/ \E src, dst \in Names : Rename(src, dst)

Spec == Init /\ [][Next]_vars

===========================================================================
