-------------------------------- MODULE GFS --------------------------------
(***************************************************************************)
(* The file system, fs/fs.c: what is on the disk and how creating,         *)
(* writing, removing and listing change it.                                *)
(*                                                                         *)
(* A call works on a directory that its path leads to; a path is a         *)
(* sequence of names here, module PathNames has the characters.  A call    *)
(* runs to its end before another begins: touch, write, cat and ls are     *)
(* system calls, which run with interrupts off, and a process never blocks *)
(* on a lock nobody holds.  mkdir, rm and cd have no system call yet; only *)
(* the boot code's test makes them, and nothing runs beside it.  The power *)
(* may go between two writes to the disk, after which only the disk is     *)
(* left, and the system is started again on it.                            *)
(***************************************************************************)
EXTENDS Integers, Sequences, FiniteSets

Seqs == INSTANCE SequencesExt

CONSTANTS
  InodeCount,           \* inodes, 20480
  BlockCount,           \* data blocks
  BlockSize,            \* bytes in a block, 512
  EntrySize,            \* bytes in a DirectoryEntry, 32
  INODE_DIRECT_BLOCKS,  \* blocks an inode can name, 27
  Names,                \* names of files
  Texts,                \* texts written in one call, sequences of characters
  MaxDepth,             \* names in a path
  Removable,            \* the names rm is called with; ./ leaves the empty one
  Rebooting,            \* whether the machine is switched off and on
  Interruptible,        \* the calls during which the power may go
  Overrun               \* whether a file that fills a block is appended to

ASSUME ConstantsAssumption ==
  /\ InodeCount \in Nat \ {0} /\ BlockCount \in Nat \ {0}
  /\ EntrySize \in Nat \ {0} /\ BlockSize \in Nat \ {0, 1} /\ BlockSize % EntrySize = 0
  /\ INODE_DIRECT_BLOCKS \in Nat \ {0} /\ MaxDepth \in Nat
  /\ "" \notin Names /\ Removable \subseteq Names \cup {""}
  /\ Texts \subseteq Seq(STRING \ {"0", "EOF"})
  /\ Interruptible \subseteq {"create", "append", "truncate", "remove", "boot"}

Inodes == 0 .. InodeCount - 1
Blocks == 1 .. BlockCount
PerBlock == BlockSize \div EntrySize
Slots == 0 .. PerBlock - 1
Paths == UNION {[1 .. n -> Names] : n \in 0 .. MaxDepth}

Entry(id, name) == [InodeID |-> id, Name |-> name]
Zeros == [s \in Slots |-> Entry(0, "")]
NoText == [p \in 0 .. BlockSize - 1 |-> "0"]

newEmptyDiskInode(type) ==
  [Type |-> type, Size |-> 0, DirectBlock |-> [k \in 0 .. INODE_DIRECT_BLOCKS - 1 |-> 0]]

VARIABLES
  disk,         \* InodeBitMap and DataBitMap, what is in use; Inode; and each
                \* block twice, as the Data of a directory and the Text of a file
  currentDirectoryInodeID,
  panic,
  clean         \* history: the power never went during a call

vars == <<disk, currentDirectoryInodeID, panic, clean>>

\* An empty disk on which InitializeFileSystem has made the root directory.
Init ==
  /\ disk = [InodeBitMap |-> {0}, DataBitMap |-> {},
             Inode |-> [i \in Inodes |->
               newEmptyDiskInode(IF i = 0 THEN "FT_DIRECTORY" ELSE "FT_UNKNOWN")],
             Data |-> [b \in Blocks |-> Zeros],
             Text |-> [b \in Blocks |-> NoText]]
  /\ currentDirectoryInodeID = 0
  /\ panic = "none"
  /\ clean = TRUE

-----------------------------------------------------------------------------
\* Mutant: rounded down.
BlocksFull(size) == size \div BlockSize

BlocksOf(size) == (size + BlockSize - 1) \div BlockSize

\* The places of entries in a directory's blocks, the last block to its end.
Places(node) == 0 .. BlocksOf(node.Size) * PerBlock - 1

BlockOf(node, place) == node.DirectBlock[place \div PerBlock]

EntryAt(d, node, place) == d.Data[BlockOf(node, place)][place % PerBlock]

\* The place of name in directory i, of which there is at most one.
PlacesOf(d, i, name) ==
  {n \in Places(d.Inode[i]) :
     d.Inode[i].Type = "FT_DIRECTORY" /\ EntryAt(d, d.Inode[i], n).Name = name}

\* findInodeIDByNameFromDirectory: the first entry of that name, 0 if none.
Find(d, i, name) ==
  IF PlacesOf(d, i, name) = {} THEN 0
  ELSE LET first == CHOOSE n \in PlacesOf(d, i, name) :
                      \A m \in PlacesOf(d, i, name) : n <= m
       IN  EntryAt(d, d.Inode[i], first).InodeID

\* The inode a path leads to from inode i, -1 if there is none.
Walk(d, i, path) ==
  LET reached[n \in 0 .. Len(path)] ==
        IF n = 0 THEN i
        ELSE LET here == reached[n - 1]
                 next == IF here = -1 THEN 0 ELSE Find(d, here, path[n])
             IN  IF next = 0 THEN -1 ELSE next
  IN  reached[Len(path)]

Reached(d, i) == {Walk(d, i, path) : path \in Paths} \ {-1}

First(S) == CHOOSE x \in S : \A y \in S : x <= y

\* What a call leaves: the disk, the inode it returns, the panic it ends in,
\* and torn, the disks it leaves if the power goes between two of its writes.
Outcome(torn, d, id, message) ==
  [disk |-> d, id |-> id, panic |-> message,
   torn |-> IF Interruptible = {} THEN {} ELSE torn]

-----------------------------------------------------------------------------
(***************************************************************************)
(* CreateFile(i, name, type): the new entry goes to the place the size of  *)
(* the directory points to, in a new block if that is the first of one.    *)
(* In this order are written the bitmap of blocks, that of inodes, the     *)
(* entry, the new inode and, with the size, the inode of the directory.    *)
(***************************************************************************)
\* Mutant: every entry gets a block of its own.
AddBlock(d, i) == TRUE

NeedsBlock(d, i) == d.Inode[i].Size % BlockSize = 0

AddEntry(d, i, block, id, name, type) ==
  LET size == d.Inode[i].Size
      node == [d.Inode[i] EXCEPT !.DirectBlock[size \div BlockSize] = block,
                                 !.Size = @ + EntrySize]
      blockTaken == [d EXCEPT !.DataBitMap = @ \cup {block}]
      inodeTaken == [blockTaken EXCEPT !.InodeBitMap = @ \cup {id}]
      named == [inodeTaken EXCEPT
                  !.Data[block][(size % BlockSize) \div EntrySize] = Entry(id, name)]
      made == [named EXCEPT !.Inode[id] = newEmptyDiskInode(type)]
  IN  Outcome({blockTaken, inodeTaken, named, made},
              [made EXCEPT !.Inode[i] = node], id, "none")

CreateFile(d, i, name, type) ==
  LET size == d.Inode[i].Size
      block == IF NeedsBlock(d, i) THEN First(Blocks \ d.DataBitMap)
                                   ELSE d.Inode[i].DirectBlock[size \div BlockSize]
      id == First(Inodes \ d.InodeBitMap)
  IN  CASE d.Inode[i].Type # "FT_DIRECTORY" ->
             Outcome({}, d, -1, "current directory is not a directory")
        [] d.Inode[i].Type = "FT_DIRECTORY" /\ Find(d, i, name) # 0 ->
             Outcome({}, d, -1, "none")
        [] d.Inode[i].Type = "FT_DIRECTORY" /\ Find(d, i, name) = 0 ->
             IF size \div BlockSize >= INODE_DIRECT_BLOCKS
               THEN Outcome({}, d, -1, "indirect inode is not implemented")
             ELSE IF NeedsBlock(d, i) /\ d.DataBitMap = Blocks
               THEN Outcome({}, d, -1, "no data block id can be allocated")
             ELSE IF d.InodeBitMap = Inodes
               THEN Outcome({}, [d EXCEPT !.DataBitMap = @ \cup {block}], -1,
                            "no inode id can be allocated")
             ELSE AddEntry(d, i, block, id, name, type)

(***************************************************************************)
(* MakeDirectory of an absolute path, with option -p (create) or not, with *)
(* a slash at the end or not.  What it created before it fails remains.    *)
(***************************************************************************)
MakeDirectory(d, path, create, slash) ==
  LET after[n \in 0 .. Len(path)] ==
        IF n = 0 THEN Outcome({}, d, 0, "none")
        ELSE LET o == after[n - 1]
                 next == Find(o.disk, o.id, path[n])
                 made == CreateFile(o.disk, o.id, path[n], "FT_DIRECTORY")
             IN  IF o.id = -1 THEN o
                 ELSE IF next # 0 THEN [o EXCEPT !.id = next]
                 ELSE IF IF n = Len(path) THEN ~slash ELSE create
                        THEN [made EXCEPT !.torn = @ \cup o.torn \cup {o.disk}]
                 ELSE [o EXCEPT !.id = -1]
  IN  after[Len(path)]

-----------------------------------------------------------------------------
\* freeOneDataBlockID: the block is overwritten with zeros, then given back.
Wiped(d, S) ==
  [d EXCEPT !.Data = [b \in Blocks |-> IF b \in S THEN Zeros ELSE d.Data[b]],
            !.Text = [b \in Blocks |-> IF b \in S THEN NoText ELSE d.Text[b]]]

Freed(d, S) == [Wiped(d, S) EXCEPT !.DataBitMap = @ \ S]

\* Mutant: the size stays.
ClearKeepingSize(d, i) ==
  Outcome({}, Freed(d, {d.Inode[i].DirectBlock[k] : k \in 0 .. BlocksOf(d.Inode[i].Size) - 1}),
          i, "none")

(***************************************************************************)
(* ClearFileContentByInodeID, which leaves alone what is not a file: its   *)
(* blocks are given back one by one, then the inode is written.            *)
(***************************************************************************)
Clear(d, i) ==
  LET node == d.Inode[i]
      n == BlocksOf(node.Size)
      blocks(m) == {node.DirectBlock[k] : k \in 0 .. m - 1}
      torn == UNION {{Wiped(Freed(d, blocks(m - 1)), blocks(m)), Freed(d, blocks(m))} :
                       m \in 1 .. n}
  IN  IF node.Type # "FT_FILE" THEN Outcome({}, d, i, "none")
      ELSE Outcome(torn,
             [Freed(d, blocks(n)) EXCEPT
                !.Inode[i].Size = 0,
                !.Inode[i].DirectBlock =
                   [k \in DOMAIN @ |-> IF k < n THEN 0 ELSE node.DirectBlock[k]]],
             i, "none")

\* An empty file is written as if it held its end mark already.
SizeWithMark(size) == IF size = 0 THEN 1 ELSE size

\* What the code relies on: the text fits behind the mark, in the block that
\* holds it.  A mark at the very end of a block is not in the one that is
\* read, and the first character goes to the byte before the buffer.
Fits(size, text) ==
  /\ size \div BlockSize < INODE_DIRECT_BLOCKS
  /\ (SizeWithMark(size) % BlockSize) + Len(text) <= BlockSize
  /\ (SizeWithMark(size) % BlockSize) # 0 \/ Overrun

\* Mutant: the end mark is not written.
MarkForgotten(cells, size, text) ==
  LET start == SizeWithMark(size) % BlockSize
  IN  [p \in DOMAIN cells |->
         IF p - start + 2 \in DOMAIN text THEN text[p - start + 2] ELSE cells[p]]

\* The block with the text from the old end mark on, and a new mark.
Marked(cells, size, text) ==
  LET start == (SizeWithMark(size) % BlockSize) - 1
  IN  [p \in DOMAIN cells |->
         IF p - start + 1 \in DOMAIN text THEN text[p - start + 1]
         ELSE IF p = start + Len(text) THEN "EOF" ELSE cells[p]]

(***************************************************************************)
(* WriteFileContent: a new block when the last one is full, then the text, *)
(* then the inode.                                                         *)
(***************************************************************************)
WriteFileContent(d, i, text, trunc) ==
  LET cleared == IF trunc THEN Clear(d, i) ELSE Outcome({}, d, i, "none")
      e == cleared.disk
      size == e.Inode[i].Size
      new == size % BlockSize = 0
      block == IF new THEN First(Blocks \ e.DataBitMap)
                      ELSE e.Inode[i].DirectBlock[size \div BlockSize]
      taken == [e EXCEPT !.DataBitMap = @ \cup {block}]
      written == [taken EXCEPT !.Text[block] = Marked(@, size, text)]
  IN  IF new /\ e.DataBitMap = Blocks
        THEN Outcome(cleared.torn, e, -1, "no data block id can be allocated")
        ELSE Outcome(cleared.torn \cup {e, taken, written},
               [written EXCEPT !.Inode[i].DirectBlock[size \div BlockSize] = block,
                               !.Inode[i].Size = SizeWithMark(size) + Len(text)],
               i, "none")

\* Mutant: the entry keeps its name and number.
RemoveInodeOnly(d, i, name) ==
  LET id == Find(d, i, name)
      e == Clear(d, id).disk
  IN  Outcome({}, [e EXCEPT !.InodeBitMap = @ \ {id}, !.Inode[i].Size = @ - EntrySize],
              id, "none")

(***************************************************************************)
(* removeInodeByNameFromDirectory, for a name that is there: the blocks,   *)
(* the inode, the entry, then the size of the directory.                   *)
(***************************************************************************)
RemoveInode(d, i, name) ==
  LET place == First(PlacesOf(d, i, name))
      id == Find(d, i, name)
      cleared == Clear(d, id)
      freed == [cleared.disk EXCEPT !.InodeBitMap = @ \ {id}]
      unnamed == [freed EXCEPT
                    !.Data[BlockOf(d.Inode[i], place)][place % PerBlock] = Entry(-1, "")]
  IN  Outcome(cleared.torn \cup {cleared.disk, freed, unnamed},
              [unnamed EXCEPT !.Inode[i].Size = @ - EntrySize], id, "none")

\* InitializeFileSystem: a new root, whatever is on the disk.
InitializeFileSystem(d) ==
  LET id == First(Inodes \ d.InodeBitMap)
      taken == [d EXCEPT !.InodeBitMap = @ \cup {id}]
  IN  IF d.InodeBitMap = Inodes
        THEN Outcome({}, d, currentDirectoryInodeID, "no inode id can be allocated")
        ELSE Outcome({taken}, [taken EXCEPT !.Inode[id] = newEmptyDiskInode("FT_DIRECTORY")],
                     id, "none")

-----------------------------------------------------------------------------
Running == panic = "none"

\* The call does all its writes, with directory as the current one; or only
\* some of them, and nothing but the disk is left.
Becomes(outcome, call, directory) ==
  \E o \in {outcome} :
    \/ /\ disk' = o.disk
       /\ panic' = o.panic
       /\ currentDirectoryInodeID' = directory
       /\ UNCHANGED clean
    \/ /\ call \in Interruptible
       /\ disk' \in o.torn
       /\ panic' = "power lost"
       /\ currentDirectoryInodeID' = 0
       /\ clean' = FALSE

\* touch, in the current directory
Touch(name) ==
  /\ Running
  /\ Becomes(CreateFile(disk, currentDirectoryInodeID, name, "FT_FILE"),
             "create", currentDirectoryInodeID)

Mkdir(path, create, slash) ==
  /\ Running
  /\ Becomes(MakeDirectory(disk, path, create, slash),
             "create", currentDirectoryInodeID)

\* What a path from the root or a name in the current directory leads to.
Named == Reached(disk, 0) \cup {Find(disk, currentDirectoryInodeID, name) : name \in Names}

Write(i, text, trunc) ==
  /\ Running
  /\ disk.Inode[i].Type = "FT_FILE"
  /\ Fits(IF trunc THEN 0 ELSE disk.Inode[i].Size, text)
  /\ Becomes(WriteFileContent(disk, i, text, trunc),
             IF trunc THEN "truncate" ELSE "append", currentDirectoryInodeID)

\* rm, without -r for files only; inode -1, of an entry that was removed, is
\* left out.
RemoveFile(i, name, deleteDir) ==
  /\ Running
  /\ PlacesOf(disk, i, name) # {} /\ Find(disk, i, name) # -1
  /\ disk.Inode[Find(disk, i, name)].Type = "FT_DIRECTORY" => deleteDir
  /\ Becomes(RemoveInode(disk, i, name), "remove", currentDirectoryInodeID)

\* cd to what a path leads to, a file as well as a directory: a path that ends
\* in a slash is not tested for that.
ChangeDirectory(id) ==
  /\ Running
  /\ currentDirectoryInodeID' = id
  /\ UNCHANGED <<disk, panic, clean>>

\* Switched on again.
Reboot ==
  /\ Rebooting \/ panic = "power lost"
  /\ LET o == InitializeFileSystem(disk)
     IN  Becomes(o, "boot", o.id)

Halted == ~Running /\ UNCHANGED vars

Next ==
  \/ \E name \in Names : Touch(name)
  \/ \E path \in Paths \ {<<>>}, create, slash \in BOOLEAN : Mkdir(path, create, slash)
  \/ \E i \in Named, text \in Texts, trunc \in BOOLEAN : Write(i, text, trunc)
  \/ \E i \in Reached(disk, 0), name \in Removable, deleteDir \in BOOLEAN :
        RemoveFile(i, name, deleteDir)
  \/ \E id \in Reached(disk, 0) \cup Reached(disk, currentDirectoryInodeID) :
        ChangeDirectory(id)
  \/ Reboot
  \/ Halted

Spec == Init /\ [][Next]_vars
-----------------------------------------------------------------------------
(***************************************************************************)
(* Every variable holds a value of its C type.                             *)
(***************************************************************************)
TypeOK ==
  /\ disk.InodeBitMap \in SUBSET Inodes
  /\ disk.DataBitMap \in SUBSET Blocks
  /\ disk.Inode \in [Inodes ->
       [Type : {"FT_UNKNOWN", "FT_FILE", "FT_DIRECTORY"},
        Size : 0 .. INODE_DIRECT_BLOCKS * BlockSize,
        DirectBlock : [0 .. INODE_DIRECT_BLOCKS - 1 -> Blocks \cup {0}]]]
  /\ disk.Data \in [Blocks -> [Slots -> [InodeID : Inodes \cup {-1}, Name : Names \cup {""}]]]
  /\ \A b \in Blocks : DOMAIN disk.Text[b] = 0 .. BlockSize - 1
  /\ currentDirectoryInodeID \in Inodes
  /\ panic \in STRING
  /\ clean \in BOOLEAN

\* The places where a block is in use: an inode and the number of the block.
Uses ==
  {u \in disk.InodeBitMap \X (0 .. INODE_DIRECT_BLOCKS - 1) :
     u[2] < BlocksOf(disk.Inode[u[1]].Size)}

BlockUsed(u) == disk.Inode[u[1]].DirectBlock[u[2]]

(***************************************************************************)
(* No block is in two files, or in a file and free: what is written to one *)
(* file never shows in another one or in a directory.  Not so when the     *)
(* power goes while a file is cleared ("truncate" in Interruptible).       *)
(***************************************************************************)
BlocksPrivate ==
  /\ \A u \in Uses : BlockUsed(u) \in disk.DataBitMap
  /\ \A u, v \in Uses : BlockUsed(u) = BlockUsed(v) => u = v

\* The names in the places P(i) of the directories i in S: the directory, the
\* name, the inode it stands for.
NamesIn(d, S, P(_)) ==
  UNION {{[Dir |-> i, Name |-> e.Name, File |-> e.InodeID] :
            e \in {f \in {EntryAt(d, d.Inode[i], n) : n \in P(i)} : f.Name \in Names}} :
         i \in {j \in S : d.Inode[j].Type = "FT_DIRECTORY"}}

\* The names that can be found.
Listing(d) == NamesIn(d, d.InodeBitMap, LAMBDA i : Places(d.Inode[i]))

(***************************************************************************)
(* A name stands for an inode that is in use, and for one only: the inode  *)
(* of a removed file is given to another only after its name is gone.  The *)
(* root is always there (fs.c:685), unless ./ is removed: its name is then *)
(* empty, that of an entry that was never used ("" in Removable).           *)
(***************************************************************************)
NamesStandForInodes ==
  /\ 0 \in disk.InodeBitMap
  /\ \A e \in Listing(disk) : e.File \in disk.InodeBitMap
  /\ \A e, f \in Listing(disk) : e.Dir = f.Dir /\ e.Name = f.Name => e = f
  /\ \A e, f \in Listing(disk) : e.File = f.File => e = f

(***************************************************************************)
(* As long as nothing is removed and the power never goes during a call,   *)
(* nothing is lost: every inode in use but the root has a name, and every  *)
(* block in use belongs to a file.                                         *)
(***************************************************************************)
NothingLost ==
  Running /\ clean => /\ disk.InodeBitMap \ {0} = {e.File : e \in Listing(disk)}
                      /\ disk.DataBitMap = {BlockUsed(u) : u \in Uses}

\* The cells of the blocks of file i, one after the other.
Cells(d, i) ==
  [n \in 1 .. BlocksOf(d.Inode[i].Size) * BlockSize |->
     d.Text[d.Inode[i].DirectBlock[(n - 1) \div BlockSize]][(n - 1) % BlockSize]]

\* The text of a file: what its size, which counts the mark, says.
TextOf(d, i) == SubSeq(Cells(d, i), 1, d.Inode[i].Size - 1)

\* s to its n-th newline, for n > 0.
Lines(s, n) ==
  LET ends == {k \in DOMAIN s : s[k] = "\n" /\ Cardinality({j \in 1 .. k : s[j] = "\n"}) = n}
  IN  IF ends = {} THEN s ELSE SubSeq(s, 1, First(ends))

\* The cells before the first end mark.
Unmarked(cells) ==
  LET marks == {k \in DOMAIN cells : cells[k] = "EOF"}
  IN  IF marks = {} THEN cells ELSE SubSeq(cells, 1, First(marks) - 1)

\* cat -n, for n > 0: to the first end mark or the n-th newline.
PrintFileContent(d, i, n) == Lines(Unmarked(Cells(d, i)), n)

(***************************************************************************)
(* cat prints the text that was written, to its last character or its n-th *)
(* line: the end mark and the size agree.  If the power went between the   *)
(* two, cat prints more than the file holds, but never less.               *)
(***************************************************************************)
CatPrintsText ==
  \A i \in {j \in disk.InodeBitMap : disk.Inode[j].Type = "FT_FILE"},
     n \in 1 .. INODE_DIRECT_BLOCKS * BlockSize :
    LET written == Lines(TextOf(disk, i), n)
        printed == PrintFileContent(disk, i, n)
    IN  Seqs!IsPrefix(written, printed) /\ (clean => printed = written)

\* What can be reached from the root through entries that the size of their
\* directory counts.
Committed(i) == {n \in Places(disk.Inode[i]) : n * EntrySize < disk.Inode[i].Size}

\* The tree of the names in named, with the texts of the files in it.
TreeOf(named) ==
  LET down[n \in 0 .. InodeCount - 1] ==
        IF n = 0 THEN {0}
        ELSE down[n - 1] \cup {e.File : e \in {o \in named : o.Dir \in down[n - 1]}}
      Part(reached) ==
        [entries |-> {e \in named : e.Dir \in reached},
         directories |-> {i \in reached : disk.Inode[i].Type = "FT_DIRECTORY"},
         files |-> {i \in reached : disk.Inode[i].Type = "FT_FILE"},
         text |-> [i \in Inodes |->
           IF i \in reached /\ disk.Inode[i].Type = "FT_FILE" THEN TextOf(disk, i) ELSE <<>>]]
  IN  {Part(reached) : reached \in {down[InodeCount - 1]}}

\* Refinement: the tree of the names that are counted.  (A set of one, because
\* TLC evaluates what a variable is bound to once.)
Tree ==
  CHOOSE tree \in UNION {TreeOf(named) :
                           named \in {NamesIn(disk, disk.InodeBitMap, Committed)}} : TRUE

FT == INSTANCE FileTree WITH Files <- Inodes, tree <- Tree

(***************************************************************************)
(* As long as nothing is removed, the disk with its bitmaps, sizes and     *)
(* blocks is a tree of named files with texts: touch adds a name, mkdir a  *)
(* chain of names, write changes one text.  A call during which the power  *)
(* goes, and the start after it, change all of that or nothing, but for    *)
(* mkdir -p, which may leave the first part of its chain.                  *)
(***************************************************************************)
ImplementsFileTree == FT!Spec

(***************************************************************************)
(* fs.c:662, the entry of a new file is appended to its directory: the     *)
(* names that are there stay.  Not so after a removal, which makes the     *)
(* directory smaller wherever the entry was: then the place the size       *)
(* points to is that of a name that is still there.                        *)
(***************************************************************************)
CreateAppends ==
  [][\A name \in Names : Touch(name) => Listing(disk) \subseteq Listing(disk')]_vars
=============================================================================
