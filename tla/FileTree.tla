------------------------------- MODULE FileTree -------------------------------
(***************************************************************************)
(* What a file system promises that only adds: a tree of names under a     *)
(* root, each name for one file or directory, each file with a text.       *)
(***************************************************************************)
EXTENDS Naturals, Sequences, FiniteSets

CONSTANTS
  Files,    \* what a name can stand for; 0 is the root
  Texts     \* texts written at once

VARIABLE tree   \* entries [Dir, Name, File]; directories and files; text of each

Init == tree = [entries |-> {}, directories |-> {0}, files |-> {},
                text |-> [f \in Files |-> <<>>]]

\* N are new names, each in a directory that is there or is added with them,
\* each for a file that had no name.
Fresh(N, old, new) ==
  /\ new.entries = old.entries \cup N
  /\ \A e \in N :
       /\ e.File # 0 /\ \A o \in new.entries : o.File = e.File => o = e
       /\ \A o \in new.entries : o.Dir = e.Dir /\ o.Name = e.Name => o = e
       /\ e.Dir \in new.directories
       /\ e.Dir \in old.directories \/ \E o \in N : o.File = e.Dir

\* A chain of directories or one file is added.
Add(old, new) ==
  LET N == new.entries \ old.entries
      made == {e.File : e \in N}
  IN  /\ N # {} /\ Fresh(N, old, new)
      /\ \/ /\ new.directories = old.directories \cup made
            /\ new.files = old.files
         \/ /\ Cardinality(N) = 1
            /\ new.directories = old.directories
            /\ new.files = old.files \cup made
      /\ new.text = old.text

\* A text takes the place of that of a file or is added to it.
Write(old, new) ==
  /\ \E f \in old.files, t \in Texts :
       \/ new.text = [old.text EXCEPT ![f] = t]
       \/ new.text = [old.text EXCEPT ![f] = @ \o t]
  /\ \A part \in {"entries", "directories", "files"} : new[part] = old[part]

Next == \E old \in {tree}, new \in {tree'} : Add(old, new) \/ Write(old, new)

Spec == Init /\ [][Next]_tree
=============================================================================
