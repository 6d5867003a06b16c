-------------------------- MODULE WorkingDirectory --------------------------
(***************************************************************************)
(* The current directory of fs/fs.c, which is kept twice, as the number of *)
(* an inode and as a path, and the ways in which cd, ls, mkdir, rm and the *)
(* calls that take a file (pathToInodeID) find what a path means.          *)
(*                                                                         *)
(* The disk is left out, module GFS has it: here there is a tree of names, *)
(* and an inode that is removed is not used again.                         *)
(***************************************************************************)
EXTENDS PathNames

CONSTANTS
  Inodes,       \* 0 .. how many there are
  Names,        \* names that are created; the empty one, which mkdir makes of two
                \* slashes in a row, is left out
  Inputs,       \* paths that are typed
  HeapBytes,    \* what may follow, up to a 0, a block of the heap
  StackBytes,   \* what an uninitialized buffer on the stack may hold
  MaxLength     \* bound of currentPath; what does not fit its 256 bytes is
                \* written behind them, which is left out

ASSUME PathsAssumption ==
  /\ Inodes \subseteq Nat /\ IsFiniteSet(Inodes) /\ 0 \in Inodes
  /\ Inputs \cup HeapBytes \cup StackBytes \subseteq Seq(STRING)
  /\ Names \subseteq Inputs \ {<<>>} /\ \A name \in Names : CharCount(name, "/") = 0
  /\ <<>> \in HeapBytes /\ MaxLength \in Nat \ {0}

VARIABLES
  entries,      \* the names, [Dir, Name, File]
  directories,  \* inodes that were made as directories
  files,        \* inodes that were made as files
  currentDirectoryInodeID,
  currentPath,
  sound         \* history: see PathLeadsThere

tree == <<entries, directories, files>>
vars == <<entries, directories, files, currentDirectoryInodeID, currentPath, sound>>

Init ==
  /\ entries = {} /\ directories = {0} /\ files = {}
  /\ currentDirectoryInodeID = 0
  /\ currentPath = <<"/">>
  /\ sound = TRUE

-----------------------------------------------------------------------------
\* findInodeIDByNameFromDirectory
Find(E, i, name) ==
  IF \E e \in E : e.Dir = i /\ e.Name = name
  THEN (CHOOSE e \in E : e.Dir = i /\ e.Name = name).File ELSE 0

\* What the names lead to from inode i, -1 if nothing.
Walk(E, i, names) ==
  LET reached[n \in 0 .. Len(names)] ==
        IF n = 0 THEN i
        ELSE LET here == reached[n - 1]
                 next == IF here = -1 THEN 0 ELSE Find(E, here, names[n])
             IN  IF next = 0 THEN -1 ELSE next
  IN  reached[Len(names)]

WalkPath(path) == Walk(entries, 0, NamesOf(Tail(path)))

Rooted == StringStartWith(currentPath, <<"/">>)

WithSlash(path) == IF EndsInSlash(path) THEN path ELSE Append(path, "/")

\* Mutant: only the dot is dropped.
WithoutDotOnly(path) == IF StringStartWith(path, <<".", "/">>) THEN Suffix(path, 2) ELSE path

WithoutDot(path) == IF StringStartWith(path, <<".", "/">>) THEN Suffix(path, 3) ELSE path

-----------------------------------------------------------------------------
(***************************************************************************)
(* cd.  s is where it starts: the inode, the path, and whether the two are *)
(* sound; the result is the set of where it may end.                       *)
(***************************************************************************)
At(inode, path, isSound) == [inode |-> inode, path |-> path, sound |-> isSound]

\* backPath has no 0 at its end: what follows it is copied too.
RollBack(s) ==
  {[s EXCEPT !.path = @ \o bytes, !.sound = @ /\ bytes = <<>>] : bytes \in HeapBytes}

\* A name without a slash behind it has to be a directory.
Reaches(inode, path) == inode # -1 /\ (EndsInSlash(path) \/ path = <<>> \/ inode \in directories)

CdAbsolute(s, path) ==
  IF Reaches(WalkPath(path), path)
  THEN {At(WalkPath(path), IF Len(path) > 1 /\ EndsInSlash(path) THEN Front(path) ELSE path,
           TRUE)}
  ELSE RollBack(s)

\* The path is shortened first; then it is an absolute path to change to.
CdUp(s) ==
  LET slash == IF EndsInSlash(s.path) THEN Len(s.path) ELSE LastSlash(s.path)
      above == IF slash <= 1 THEN <<"/">> ELSE SubSeq(s.path, 1, slash - 1)
  IN  IF s.inode = 0 THEN {s}
      ELSE CdAbsolute([s EXCEPT !.path = above, !.sound = FALSE], above)

\* Mutant: no slash between the two.
JoinedWithoutSlash(path, rest) == path \o rest

Joined(path, rest) ==
  LET whole == (IF Len(path) > 1 THEN WithSlash(path) ELSE path) \o rest
  IN  IF EndsInSlash(whole) THEN Front(whole) ELSE whole

CdRelative(s, path) ==
  LET rest == WithoutDot(path)
      inode == Walk(entries, s.inode, NamesOf(rest))
  IN  IF Reaches(inode, rest)
      THEN {At(inode, Joined(s.path, rest), s.sound /\ Joined(s.path, rest) # <<>>)}
      ELSE RollBack(s)

\* The last call of cd.
CdOnce(s, path) ==
  IF path = <<>> THEN {At(0, <<"/">>, TRUE)}
  ELSE IF path[1] = "/" THEN CdAbsolute(s, path)
  ELSE IF path \in {<<".", ".">>, <<".", ".", "/">>} THEN CdUp(s)
  ELSE CdRelative(s, path)

\* ../x/y/z is cd .. and then cd x/y/z.
GoesUp(path) ==
  StringStartWith(path, <<".", ".">>) /\ path \notin {<<".", ".">>, <<".", ".", "/">>}

Cd(s, path) ==
  LET n == Turns(path, GoesUp, 3)
      up[k \in 0 .. n] == IF k = 0 THEN {s} ELSE UNION {CdUp(t) : t \in up[k - 1]}
  IN  UNION {CdOnce(t, Suffix(path, n * 3 + 1)) : t \in up[n]}

Here == At(currentDirectoryInodeID, currentPath, sound)

ChangeDirectory(path) ==
  /\ Rooted \/ path = <<>> \/ StringStartWith(path, <<"/">>)
  /\ \E s \in Cd(Here, path) :
        /\ Len(s.path) <= MaxLength
        /\ currentDirectoryInodeID' = s.inode
        /\ currentPath' = s.path
        /\ sound' = s.sound
  /\ UNCHANGED tree

-----------------------------------------------------------------------------
\* ls and mkdir make a path absolute.
Absolute(path) ==
  IF StringStartWith(path, <<"/">>) THEN path
  ELSE IF currentDirectoryInodeID = 0 THEN SubSeq(currentPath, 1, 1) \o WithoutDot(path)
  ELSE WithSlash(currentPath) \o WithoutDot(path)

\* What ls lists, -1 if nothing.
ListFiles(path) ==
  IF path \in {<<>>, <<".">>} THEN WalkPath(currentPath) ELSE WalkPath(Absolute(path))

\* CreateFile in directory i of t = [entries, directories, files, id]
CreateFile(t, i, name, type) ==
  LET id == CHOOSE k \in Inodes \ (t.directories \cup t.files) :
              \A j \in Inodes \ (t.directories \cup t.files) : k <= j
  IN  [entries |-> t.entries \cup {[Dir |-> i, Name |-> name, File |-> id]},
       directories |-> IF type = "FT_DIRECTORY" THEN t.directories \cup {id} ELSE t.directories,
       files |-> IF type = "FT_FILE" THEN t.files \cup {id} ELSE t.files,
       id |-> id]

Tree(id) == [entries |-> entries, directories |-> directories, files |-> files, id |-> id]

Becomes(t) == entries' = t.entries /\ directories' = t.directories /\ files' = t.files

Space(n) == Cardinality(Inodes \ (directories \cup files)) >= n

\* touch
Touch(name) ==
  /\ currentDirectoryInodeID \in directories
  /\ Find(entries, currentDirectoryInodeID, name) = 0
  /\ Space(1)
  /\ Becomes(CreateFile(Tree(0), currentDirectoryInodeID, name, "FT_FILE"))
  /\ UNCHANGED <<currentDirectoryInodeID, currentPath, sound>>

\* mkdir, which knows no ..; CreateFile in a file stops the kernel.
MakeDirectory(path, create) ==
  LET whole == Absolute(path)
      names == NamesOf(Tail(whole))
      after[n \in 0 .. Len(names)] ==
        IF n = 0 THEN Tree(0)
        ELSE LET t == after[n - 1]
                 next == Find(t.entries, t.id, names[n])
             IN  IF t.id < 0 THEN t
                 ELSE IF next # 0 THEN [t EXCEPT !.id = next]
                 ELSE IF IF n = Len(names) THEN EndsInSlash(whole) ELSE ~create
                   THEN [t EXCEPT !.id = -1]
                 ELSE IF t.id \in t.files THEN [t EXCEPT !.id = -2]
                 ELSE CreateFile(t, t.id, names[n], "FT_DIRECTORY")
  IN  /\ Rooted
      /\ \A n \in DOMAIN names : names[n] \in Names
      /\ Space(Len(names))
      /\ after[Len(names)].id # -2
      /\ Becomes(after[Len(names)])
      /\ UNCHANGED <<currentDirectoryInodeID, currentPath, sound>>

-----------------------------------------------------------------------------
(***************************************************************************)
(* pathToInodeID: the buffer for a name is cleared after each name but not *)
(* before the first, which is followed by what the stack holds.  A path    *)
(* that begins with .. away from the root is taken for one that begins     *)
(* with a dot.                                                             *)
(***************************************************************************)
WalkFromStack(path, bytes) ==
  LET names == NamesOf(Tail(path))
  IN  Walk(entries, 0, IF names = <<>> THEN <<>> ELSE <<Head(names) \o bytes>> \o Tail(names))

\* At the root two characters are taken off for each ..
UpFromRoot(path) ==
  /\ CharCount(path, "/") # 0 /\ StringStartWith(path, <<".", ".">>)
  /\ currentDirectoryInodeID = 0 /\ Len(path) > 3

pathToInodeID(whole, bytes) ==
  LET path == Suffix(whole, Turns(whole, UpFromRoot, 2) * 2 + 1)
  IN  IF path \in {<<".">>, <<".", "/">>} THEN currentDirectoryInodeID
      ELSE IF CharCount(path, "/") = 0 THEN Find(entries, currentDirectoryInodeID, path)
      ELSE IF StringStartWith(path, <<"/">>) THEN WalkFromStack(path, bytes)
      ELSE IF StringStartWith(path, <<".", ".">>) /\ currentDirectoryInodeID = 0 THEN 0
      ELSE IF StringStartWith(path, <<".">>)
        THEN WalkFromStack(IF currentPath = <<"/">> THEN <<"/">> \o Suffix(path, 3)
                                                    ELSE currentPath \o Suffix(path, 2), bytes)
      ELSE WalkFromStack(IF currentPath = <<"/">> THEN <<"/">> \o path
                                                  ELSE currentPath \o <<"/">> \o path, bytes)

\* rm: the name to remove, and the path of the directory it is removed from.
NameToRemove(path) ==
  LET plain == IF path[1] = "/" THEN path ELSE WithoutDot(path)
  IN  SubSeq(plain, LastSlash(plain) + 1, IF EndsInSlash(plain) THEN Len(plain) - 1 ELSE Len(plain))

\* Mutant: always the current directory.
preDirHere(path) == currentPath

preDir(path) ==
  LET plain == IF path[1] = "/" THEN path ELSE WithoutDot(path)
  IN  IF CharCount(plain, "/") = 0 THEN currentPath ELSE pathBackStep(plain)

\* The directories on the way to the current one, as far as they have names.
Above ==
  {i \in Inodes : \A S \in SUBSET Inodes :
     currentDirectoryInodeID \in S /\ (\A e \in entries : e.File \in S => e.Dir \in S) => i \in S}

\* What rm takes out of which directory; reading inode -1 is left out.
RemoveFile(path, deleteDir, bytes) ==
  /\ path \notin {<<>>, <<"/">>, <<".">>} /\ ~StringStartWith(path, <<".", ".">>)
  /\ Rooted
  /\ LET name == NameToRemove(path)
         dir == pathToInodeID(preDir(path), bytes)
         id == Find(entries, dir, name)
     IN  /\ name # <<>> /\ dir # -1
         /\ id # 0 /\ (id \in directories => deleteDir)
         /\ entries' = entries \ {[Dir |-> dir, Name |-> name, File |-> id]}
         /\ sound' = (sound /\ id \notin Above)
  /\ UNCHANGED <<directories, files, currentDirectoryInodeID, currentPath>>

Next ==
  \/ \E path \in Inputs : ChangeDirectory(path)
  \/ \E name \in Names : Touch(name)
  \/ \E path \in Inputs, create \in BOOLEAN : MakeDirectory(path, create)
  \/ \E path \in Inputs, deleteDir \in BOOLEAN, bytes \in StackBytes :
        RemoveFile(path, deleteDir, bytes)

Spec == Init /\ [][Next]_vars
-----------------------------------------------------------------------------
(***************************************************************************)
(* Every variable holds a value of its C type.                             *)
(***************************************************************************)
TypeOK ==
  /\ entries \subseteq [Dir : directories, Name : Names, File : directories \cup files]
  /\ directories \cup files \subseteq Inodes /\ directories \cap files = {}
  /\ currentDirectoryInodeID \in directories \cup files
  /\ Len(currentPath) <= MaxLength
  /\ sound \in BOOLEAN

(***************************************************************************)
(* The path the shell shows leads to the current directory, as cd takes it *)
(* apart, shortens it and puts it together.  Until a cd fails and copies   *)
(* what follows its copy of the path, or finds the directory above gone; a *)
(* directory the path goes through is removed; or cd ./ at the root leaves *)
(* an empty path.  The next cd with an absolute path makes up for it.      *)
(***************************************************************************)
PathLeadsThere == sound => Rooted /\ WalkPath(currentPath) = currentDirectoryInodeID

\* Paths without .. or a name that begins with a dot.
Plain(path) ==
  \/ path = <<".">>
  \/ path # <<>> /\ ("." \notin Range(WithoutDot(path)))

\* What a path means, in the directory with number currentDirectoryInodeID.
Meaning(path) ==
  IF path[1] = "/" THEN WalkPath(path)
  ELSE IF path = <<".">> THEN currentDirectoryInodeID
  ELSE Walk(entries, currentDirectoryInodeID, NamesOf(WithoutDot(path)))

(***************************************************************************)
(* ls, which puts the path of the current directory before a path, and     *)
(* what reads and writes files, which does so in its own way or starts at  *)
(* the number, take a path to mean the same as cd does, which goes by the  *)
(* number; if the stack holds zeros, see WalkFromStack.                    *)
(***************************************************************************)
OneMeaning ==
  sound => \A path \in Inputs : Plain(path) =>
             /\ ListFiles(path) = Meaning(path)
             /\ \/ pathToInodeID(path, <<>>) = Meaning(path)
                \/ Meaning(path) = -1 /\ pathToInodeID(path, <<>>) = 0

(***************************************************************************)
(* rm of a name in the current directory or in the root takes away that    *)
(* name and no other; if the stack holds zeros.                            *)
(***************************************************************************)
RemovesName ==
  [][sound /\ entries \ entries' # {} =>
       \A name \in Names : \A path \in {name, <<".", "/">> \o name, <<"/">> \o name} :
         RemoveFile(path, TRUE, <<>>) =>
           \A e \in entries \ entries' : e.File = Meaning(path)]_vars

(***************************************************************************)
(* fs.c:735, rm goes back to the directory above what it removes: it takes *)
(* away the name its path leads to or nothing.  Not so for a path with two *)
(* slashes, where pathBackStep leaves the empty path, and rm removes that  *)
(* name from the root.                                                     *)
(***************************************************************************)
RemovesWhatItNames ==
  [][sound /\ entries \ entries' # {} =>
       \A path \in Inputs : RemoveFile(path, TRUE, <<>>) =>
         \A e \in entries \ entries' : e.File = Meaning(path)]_vars
=============================================================================
