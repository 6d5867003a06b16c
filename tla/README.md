# GOS-v3 in TLA+

Specifications of the kernel of GOS, a teaching operating system for 32-bit
x86 (`src/src/kernel`), with the TLC runs that check them and proofs that TLAPS
checks. Paths below are relative to `src/src/kernel` unless they begin with
`src/`. Names of operators are those of the C functions where TLA+ allows.

## 1. The system

The machine has one processor. System calls, the clock, page faults and the
keyboard enter the kernel through interrupt gates, so the handlers run with
interrupts off, one at a time; they give up the processor only by calling
`Schedule()`. Three places run with interrupts on: user code, the boot code
after `InitializeClock`, and `ReadLine` and `ReadChar`, with the message about a
line that is too long.

| part | state | operations | talks to |
|---|---|---|---|
| processes, scheduler (`process/`, `int/clock.c`) | ready queue (a ring of 1024), zombie table, PID bitmap, current process, CR3, TSS.ESP0 | create, fork, exit, waitpid, yield, clock tick | frames, heap, page tables, locks |
| reentrant locks (`ds/lock.c`, `ds/queue.c`) | owner, depth, locked flag, queue of waiters | Lock, Unlock | scheduler |
| physical frames (`memory/frame.c`) | a byte per frame, two counters | MemoryCheckout, AllocateOnePage, AllocatePagesContinuously, FreeOnePage | everyone |
| address spaces (`memory/memory_mapping.c`, `int/page.c`) | two-level page tables | page fault, copy by fork, release by exit | frames |
| kernel heap (`memory/buddy.c`) | list of blocks in a descriptor table | Malloc, Free | frames (16 at boot) |
| file system (`fs/fs.c`) | on disk: two bitmaps, inodes, data blocks; in memory: current directory and its path | create, mkdir, rm, write, cat, cd, ls, pwd | lock, disk, heap |
| disk, cache, device table (`disk/`, `device/`) | controller registers, the table of devices | read and write sectors | lock |
| keyboard (`int/key_board.c`) | key states, one character, a pointer to the reader's buffer | interrupt, ReadChar, ReadLine | console, scheduler |
| console (`console/`) | video memory, window and cursor registers | write, scroll | |
| printing (`lib/`) | | Printf, Panic | console |
| interrupt set-up, GDT, TSS, boot | tables written once | | |

What is hard here: the order in which processes run and what they find when
they come back from `Schedule()` (fork, locks); resources a process frees while
it still runs on them (exit); rings, tables and bitmaps at their limits; page
tables copied and freed entry by entry; allocators whose lists are split and
merged in any order; a file system whose operations are several disk writes.
`PROJECT.json` lists each hazard at its line with the properties that cover it.

## 2. The modules

| module | models | kind |
|---|---|---|
| `RingQueue` | the ring of the ready queue | operators |
| `Scheduler` | `Schedule()`, dispatching, zombies, CR3, ESP0, panic | variables and actions shared by the next two |
| `ProcessManager` | creation, fork, exit, waitpid, yield, clock | state machine |
| `RoundRobin` | a line of processes served in turn | abstract specification |
| `ProcessRoundRobin` | the refinement mapping from the former to the latter | composition |
| `ReentrantLock` | locks, waiting processes, the clock | state machine on `Scheduler` |
| `FrameAllocator` | `memory/frame.c` | state machine |
| `AddressSpace` | page faults, fork's copy, exit's release | state machine |
| `PrivateMemory` | each process has a memory only it writes | abstract specification |
| `BuddyAllocator` | `memory/buddy.c` | state machine |
| `Heap` | clients own disjoint pieces of memory | abstract specification |
| `KernelMemory` | both allocators, the heap in frames of the other | composition |
| `GFS` | `fs/fs.c`: bitmaps, inodes, directories, texts, loss of power | state machine |
| `FileTree` | a tree of named files with texts | abstract specification |
| `PathNames` | what `fs/fs.c` does with the characters of paths | operators |
| `WorkingDirectory` | `fs/fs.c`: current directory, what a path means | state machine |
| `Keyboard` | `int/key_board.c`: handler, `ReadChar`, `ReadLine` | state machine |
| `Console` | `console/console.c` | state machine |
| `Terminal` | rows of text with a cursor | abstract specification |
| `MC*` | small sets and symmetry for TLC | |
| `ProcessManagerProofs`, `ReentrantLockProofs`, `AddressSpaceProofs`, `KernelMemoryProofs`, `GFSProofs`, `WorkingDirectoryProofs`, `KeyboardProofs`, `ConsoleProofs` | theorems of the specification each is named after | proofs |

### Processes (`Scheduler`, `ProcessManager`)

A PCB is a model value; `pcb[p]` holds its C fields. The ring is the C array,
with `Front` and `Rear`. `cr3` and `esp0` name the process whose page table and
stack the processor uses. Frames are counted as sets, two per process (kernel
stack and root page table); the rest of the memory is in `AddressSpace`.

Every action is a handler up to the point where it switches away, including
the `Schedule()` at its end. `ForkProcess` ends in the switch; the code after it,
which reads `child->ID`, is the action `ForkReturn` of the parent when it runs
again. `Panic` stops the machine: `panic` gets its message, and only `Halted`
remains. `BeginCreateUserProcess` and `EndCreateUserProcess` are the boot code
before and after `AddProcess`, where interrupts are already on; `BootProcesses`
says how many it creates, one in `shell.c` and two in the tests.

A caller may make any call at any time, `waitpid` with every PID and with -1.
`TakeZombieProcess` frees a PCB; the model keeps freed ones apart so that a use
after the release would show.

### Locks (`ReentrantLock`)

Callers come from `Scheduler`. A caller takes the locks of the constant `Locks`
in their order, as the file system's lock is taken before the disk's, and up to
`MaxDepth` times each. `Lock()` is `LockAgain` for the owner; for others it is
`LockCall`, then `LockWait` for each turn of its loop, which ends in the
`Schedule()` that blocks the process, then `LockFree` and `LockTake` when the
test finds the lock free. `Preemptible` lets the clock in between these, as for
a caller that runs with interrupts on; the shipped callers are system calls,
and between critical sections only they can lose the processor. With the
kernel as it is a lock is contended only by kernel processes that are
preempted while they hold one (the tests of the file system are such).

### Memory (`FrameAllocator`, `AddressSpace`, `BuddyAllocator`)

`FrameAllocator` works on addresses and bytes: the memory map is a set of
descriptors with base, length and type, and a page is `PageSize` addresses.
`AddressSpace` takes user frames as a set and gives them to page-table entries
`<<region, page>>`; page 0 of a region stands for its second-level table. Reading
and writing go to the frame the entry points to, so sharing a frame by mistake
shows as a change in another process's memory. `BuddyAllocator` has the list of
blocks as a sequence in address order, which descriptor a block uses is left
out, but their number counts. `KernelMemory` puts the two together: the boot code
takes the frames of the heap in one run, `globalBuddyAllocatorInit` makes one
block of them, and then frames and ranges come and go in any order. Its
`MemoryPartitioned` is about bytes: a range of the heap lies in frames that
`frame.c` regards as used and gives to nobody else.

### The file system (`GFS`, `FileTree`)

`disk` is what is on the disk: both bitmaps as the sets of what is in use, the
inodes with type, size and direct blocks, and for every block its bytes, as
entries of a directory and as characters of a file. `CreateFile`, `MakeDirectory`,
`WriteFileContent`, `RemoveInode` and so on are operators from a disk to the disk
the C function leaves, with the value it returns and the panic it ends in
(`Outcome`), so that functions that call each other compose as in the code. An
action is a whole call: nothing else runs from its start to its end and nobody
holds the lock. touch, write, cat and ls are system calls, with interrupts off;
mkdir, rm and cd are called by `TestFileSystem` only so far. Allocation takes the lowest bit that is clear, a new
entry goes where the directory's size points to, and entries of the last block
are looked at up to the end of the block.

An `Outcome` also has, as `torn`, the disks between any two of the call's writes.
For a call that `Interruptible` names, `Becomes` may choose one of these, with the
panic `"power lost"`; then only `Reboot`, `InitializeFileSystem` on that disk, goes
on, and the power may go during it as well. A write of one sector happens or
does not. The history variable `clean` says that this never happened.

A path is a sequence of at most `MaxDepth` names; it is resolved by `Walk` as
`pathToInodeID` does. A text is a sequence of characters, of which the newline
and the end mark matter. `Fits` is what `WriteFileContent` relies on without
testing it: the text goes into the rest of the block that holds the end of the
file; `Overrun` drops the part of it about full blocks. A removed inode keeps its
content until it is handed out again, as on the disk, so that a stale current
directory behaves as in the code.

`FileTree` adds names and texts and never loses any. `GFS` implements it as long
as nothing is removed, also when the power goes: its tree is what can be reached
through entries that the size of their directory counts, and that size is the
last thing `CreateFile` writes, so a call has happened or it has not (`mkdir -p`
may leave the first part of its chain). With removals it does not (`CreateAppends`).

### Paths and the current directory (`PathNames`, `WorkingDirectory`)

Paths are sequences of characters here, and the disk is left to `GFS`: a set of
entries with directory, name and inode, where a removed inode is not used again.
The code keeps the current directory as an inode (`currentDirectoryInodeID`, used
by `cd`, `touch` and names without a slash) and as a path (`currentPath`, used by
`ls`, `mkdir`, `rm` and by relative paths with a slash). `Cd` follows the cases of
`ChangeDirectory` and its roll back, with its calls of itself as a number of
`CdUp` and one call that is the last; `HeapBytes` is what follows
the copy of the path, which has no 0 at its end, in the heap. `Absolute`,
`pathToInodeID` and `preDir` are the other three ways to make sense of a path;
`StackBytes` is what the uninitialised buffer for a name may hold. `sound` is a
history variable: the path was not spoilt by a roll back, by a removed directory
above or by `cd ./` at the root. As long as it holds, all ways agree on paths
without `..` and names that begin with a dot. Relative paths with an empty
current path, and reads of inode -1, are left out.

### The console (`Console`, `Terminal`)

`memory` is the video memory, a cell for every two bytes, of which the character
is kept; `registers` are the four bytes of the controller that hold the addresses
of window and cursor (`screen`, `cursor`), `index` is the one that the data port
means. console.c and print.c leave the interrupt flag alone, so what is atomic
depends on the caller. The keyboard's echo and the system calls print with
interrupts off: such a call of `ConsoleWriteWithColor` is an action; inside it
`PutChar` is the body of the loop on the local row and column: write, wrap,
scroll. In colours other than that of plain text a message begins a row
(`ConsoleAlignLine`). `ReadLine` prints its message about a line that is too long
with interrupts on (key_board.c:332). That call, `PrintWithColor`, is taken in
steps, from the selection of a register to its access and from cell to cell,
with its local variables in `call`, and any other call may come between two of
them. If one does, `garbled` records it, and nothing is promised of the screen
from then on. The other process that the clock may switch to is such a call too,
but a second message at the same time is left out. The memory goes on behind
`MonitorSize`, as the display's does. `Terminal` has rows of text; scrolling takes
away the first and adds one at the bottom that is blank in its first `Clean`
columns. `Console` implements it with `Clean` as `MonitorSize` modulo the width (or
the width if that is 0).

### The keyboard (`Keyboard`)

The user presses and releases keys, the controller turns that into bytes, with
the prefix 0xe0 for some (`Press`, `Release`, outside `src/`). `keyboardHandler`
takes one byte, keeps columns 2 and 3 of `keymap` as the set `down`, and writes to
the buffer and to `globalChar`. `ReadChar` and `ReadLine` are split at every access
to what the handler changes, since they run with interrupts on. The test of
`ReadLine`'s loop is three of them: the length for the comparison with 0, the
length again, and the character at that place (`LengthSeen`, `IndexRead`,
`CharacterRead`); place 0 is the byte before the buffer, and
`Before` is what it holds. One process reads; the clock takes the processor from it and gives it back (`Tick`), and what
the handler stores in the meantime goes to another process's memory. The
history variables `typed`, `undisturbed` and `taken` are read by properties only.
Caps lock is left out, and the echo on the screen is a call of `Console`.
`Patient` says that the user presses no key between Enter and the end of `ReadLine`.


## 3. The runs

| run | module, cfg | shows | properties |
|---|---|---|---|
| `processes` | `MCProcessManager`, `ProcessManager.cfg` | fork, exit, waitpid, yield and the clock on a ring of 4 slots with 7 frames, every interleaving: queues, PIDs and frames stay exact, and the ring, the zombie table and Schedule() implement a line of processes served round robin | `TypeOK`, `ReadyQueueSound`, `EachProcessInOnePlace`, `PIDsExact`, `FramesExact`, `RunsOnOwnFrames`, `ForkReturnsItsChild`, `CapacityNeverExceeded`, `BootCompletes`, `ImplementsRoundRobin` |
| `process_liveness` | `MCProcessManager`, `ProcessLiveness.cfg` | with the clock fair, every queued process gets the processor, whatever forks and exits | `EveryReadyProcessRuns` |
| `locks` | `MCReentrantLock`, `ReentrantLock.cfg` | three processes take the file system's lock and the disk's under it, twice each, with the clock between their steps | `MutualExclusion`, `RecordAgreesWithCallers`, `BlockedWhereItWaits`, `NoStrandedWaiter`, `KernelKeepsRunning` |
| `lock_liveness` | `MCReentrantLock`, `ReentrantLockLiveness.cfg` | with critical sections that end, whoever waits for a lock is woken | `EveryWaiterIsWoken` |
| `address_space` | `MCAddressSpace`, `AddressSpace.cfg` | two processes fault, write, fork and exit over 6 frames until memory runs out: page tables stay private, no frame leaks, memory behaves as private memory | `FramesPrivate`, `FramesAccounted`, `ReachableByExit`, `ImplementsPrivateMemory`, `OnlyWritesAreSeen` |
| `memory` | `MCKernelMemory`, `KernelMemory.cfg` | both allocators together, from the boot memory map on: frames come and go one by one while ranges of four sizes come and go in a heap of two frames, in every order and until either runs out | `MemoryPartitioned`, `CountersExact`, `BlocksTileHeap`, `FreeMergesAll`, `ImplementsHeap` |
| `gfs` | `MCGFS`, `GFS.cfg` | touch, mkdir, write, rm, cd and switching off and on between calls, over 4 inodes and 3 blocks: blocks stay private and names stand for inodes in use, whatever is removed and created again | `BlocksPrivate`, `NamesStandForInodes` |
| `gfs_tree` | `MCGFS`, `GFSTree.cfg` | as long as nothing is removed, bitmaps, sizes and blocks implement a tree of named files with their texts, up to a full disk, and when the power goes between any two writes of touch, mkdir, an append or the boot, a call has happened or not; cat prints what was written | `NothingLost`, `CatPrintsText`, `ImplementsFileTree` |
| `working_directory` | `MCWorkingDirectory`, `WorkingDirectory.cfg` | cd, touch, mkdir and rm with every path of a few characters: the path that is shown leads to the current directory, the four ways to take a path agree, and rm of a plain name removes that name | `PathLeadsThere`, `OneMeaning`, `RemovesName` |
| `console` | `MCConsole`, `Console.cfg` | text, backspace, tab, line feed and carriage return in two colours on a video memory of three and a half rows, each call with interrupts off: the window that moves through it is a terminal; ReadLine's message, printed with interrupts on in steps of one access to a register or a cell, with scrolling and the copy back to the beginning of the memory, appears as a call in one step would show it when no other call comes between | `ImplementsTerminal` |
| `keyboard` | `MCKeyboard`, `Keyboard.cfg` | the handler and the clock between any two accesses of ReadChar and ReadLine to what they share, for a user who waits after Enter: keys are tracked, characters are returned once, lines are what was typed | `KeysTracked`, `CharacterIsNew`, `LineAsTyped` |

The bounds. Four PIDs and four ring slots let the ready queue fill up, go round
and pass the place where the PID table ends; with seven frames two processes
exhaust memory for a third at every point of fork. Locks: three processes are
the fewest for which a lock can be taken by a process that was not the one
woken. Address spaces: two processes with two regions of two pages and six
frames let fork succeed, run out of memory in the middle, and reuse a frame of
the other process. Memory: nine frames, of which the first two
are low memory, four the kernel's and two the processes', the ninth is
reserved; the heap takes two of the kernel's frames, which makes eight units with every split
level, and the other two and its seven blocks run out. File system: a block
holds two directory entries and an inode names two blocks. In `gfs` two names are enough for directories of two blocks,
since names that were overwritten after a removal still count in `Size`; in
`gfs_tree`, which removes nothing, a third name fills the second block. Texts of
one and of three characters, one with a newline, with the end mark fill a block
partly and exactly. Inodes and blocks run out in both; a directory whose inode
can name no further block (the panic of fs.c:649) is not reached. Working
directory: the root and three more inodes, with the names a and aa, one the
beginning of the other; paths have up to four characters, of a letter, slash
and dot, which gives every form the code tells apart (absolute, `./`, `..`, `../a`,
a slash at the end, two names), and the current path up to six. Console: a window of two rows of two columns on
seven cells, so that the window moves twice before it goes back and its last
place ends behind the cleared part, as that of the code does (102.4 rows). A
register's byte has three values, so that both halves of an address matter.
Messages have two characters, one has a newline, and
scroll the window up to twice and copy it back; a state after another call came
between the message's steps is not followed further (`Followed`), as `Terminal`
promises nothing then. One message is printed at a time. Keyboard: lines of up to
three characters, one too long for the caller's two; a letter, Enter, backspace
and both control keys, two of them down at once.

Fairness. Two runs, `process_liveness` and `lock_liveness`, assume any. `process_liveness` assumes weak fairness of the clock (the PIT is programmed at boot and never masked), of `ForkReturn` (a
scheduled process goes on) and of the boot code. `lock_liveness` assumes weak
fairness of the clock and of the steps of `Lock()`, and for each owner strong
fairness of `Unlock`: a critical section, which the clock may interrupt over
and over, ends, as every one in the file system and the disk driver does
unless the kernel stops. It holds for one lock: with two nested locks a
waiter of the inner one can be overtaken again and again, because `Unlock`
frees the lock before the process it woke runs. No source promises otherwise,
so this is not listed as a finding. `KeyboardTypedAhead.cfg` below assumes weak fairness of the
handler (a byte raises the interrupt) and of the reader (a process that has the
processor goes on); the user and the clock need do nothing.

### The run that ends in a violation

- `wait_misses_child` (`WaitFindsRunnableChildren`, src/src/kernel/process/process.c:127). src/src/kernel/process/create.c:144 says: 如果遍历完所有Runnable进程和Zombie进程都没有找到，说明进程不存在，返回-1 (-1 only if neither the runnable processes nor the zombies hold it). FindActivatedChildProcessByPID loops from Front while i < Rear, so when the ready queue has gone round the end of the array it looks at no process and WaitProcess returns -1 for a child that is queued. RedirectParentOfChildren (process.c:110) has the same loop and leaves such children with a dead parent.

### Further observations

These were met while modelling and have no run of their own in the list. Each
configuration named here, with the change named, ends in a violation. The first
ones contradict a comment, a test or the README of the repository, which is quoted.

- `ProcessReused.cfg`, `ReapedPIDHasExited` (process/create.c:152).
  src/src/kernel/process/create.c:145 says: 如果在Runnable进程中找到，说明进程还没退出，返回-2 (found among
  the runnable processes, it has not exited: return -2). Exit frees the PID while the
  zombie keeps it (create.c:132), the next fork hands it out again, and a parent with a
  zombie and a queued child of that PID is answered from the zombie, as WaitProcess
  looks at zombieChild first.
- `ProcessManager.cfg` with `BootProcesses = 2`, `BootCompletes` (process/create.c:91).
  src/src/kernel/kernel_test.c:86-87 creates two more processes after the first:
  CreateUserProcess(syscall_get_time_test2); CreateUserProcess(syscall_get_time_test3);.
  Interrupts are on there and the boot code is no process: a clock interrupt after the
  first AddProcess runs that process, and nothing returns to the boot code, which
  creates no other.
- `BuddyAllocatorWhole.cfg`, `FreedHeapIsOneBlock` (memory/buddy.c:120). src/README.md:4
  says: 实现了伙伴系统Buddy (a buddy system), in which a block is merged with its buddy.
  mergeBuddy tests the offset modulo the block size, not modulo twice the size, which
  neighbours that are no buddies pass too: it merges them, and after everything was
  freed the heap can stay in pieces that never merge.
- `GFSAppend.cfg`, `CreateAppends` (fs/fs.c:663). src/src/kernel/fs/fs.c:662 says:
  append 目录项 (append the directory entry). CreateFile writes it where the directory's
  Size points to, and a removal makes Size smaller by an entry wherever the entry was
  (fs.c:1004): after create a, create b, remove a, the entry of a new file goes over
  that of b, whose inode stays in use.
- `WorkingDirectoryRemove.cfg`, `RemovesWhatItNames` (fs/fs.c:1141).
  src/src/kernel/fs/fs.c:725 says: preDir 回退到上一级目录 (preDir goes back to the directory
  above). pathBackStep starts its loop at len - path[len-1] == '/' ? 2 : 1, which
  compares before it chooses and gives 1: it looks at the second and the first character
  only and cuts /a/b at its first slash. What is left is the empty path, so rm looks for
  b in the root and removes it if it is there.
- `ConsoleGarbled.cfg`, `MessageBeginsRow` (int/key_board.c:332).
  src/src/kernel/console/console.c:19 says of ConsoleAlignLine: 如果当前行被写过，则换行 (go to the
  next row if the current one has been written to). ReadLine prints its message in red
  with interrupts on (sti at key_board.c:322), so the keyboard handler can echo a
  character (key_board.c:280) after ConsoleAlignLine has looked at the cursor and before
  ConsoleWriteWithColor reads it: the message begins in the middle of that row.
- `KeyboardTypedAhead.cfg`, `EnterEndsReading` (int/key_board.c:328).
  src/src/kernel/int/key_board.c:325 says: 输入回车结束读取 (Enter ends the reading). The loop
  looks at the last character only: when another key comes after Enter and before the
  loop looks, the newline is inside the line and ReadLine polls on.
- `KeyboardBefore.cfg`, `OnlyEnterEndsReading` (int/key_board.c:328).
  src/src/kernel/int/key_board.c:325 says: 输入回车结束读取 (Enter ends the reading). The test
  reads globalBufferLength at 327 and again at 328. A backspace between them makes it 0;
  the loop then reads globalBuffer[-1], and if that byte is a newline it ends without an
  Enter, writes a 0 there (340) and returns -1.
- Orphans (`ProcessWait.cfg` with `NoOrphans`). The comment at process.c:107 gives
  all children of an exiting process to its parent. The loop runs from `Front`
  while `i < Rear`, so with a queue that has gone round the array queued children
  keep the PID of the dead process as `ParentID`; the next fork gets that PID.
- Locks (`ReentrantLockPreempted.cfg`, `MutualExclusion`). `Lock()` tests `Locked`
  and sets it later; with interrupts on two processes get in.
- Null page (`AddressSpace.cfg` with `NullPageUnmapped`). memory_mapping.c:45 leaves
  0-0x1000 unmapped as the null pointer. `pageFaultHandler` stops only for
  address 0 and maps the page for any other, in the table all processes share;
  the frame is never given back.
- Lines. A clock interrupt during `ReadLine` sends characters to another process's
  memory (`Keyboard.cfg` without `undisturbed` in `LineAsTyped`), and a backspace at
  the start of a line is stored as a character. A `len` above 1024 gives 0, as an
  empty line does.
- Memory map (`FrameAllocatorMap.cfg`, `FreeFramesAreAvailable`). A range whose
  base is no frame boundary is rounded up without shortening its length: a
  frame behind its end is freed. QEMU's map is aligned.
- Frame bytes (`FrameAllocatorBits.cfg`, `BitZeroSaysFree`). memory/type.h:9-13 says
  1 is free and 0 is used; `isFree` and `setUsed` do the opposite.
- Power lost while a file is cleared or removed (`GFS.cfg` with
  `Interruptible = {"truncate", "remove"}`: `BlocksPrivate` and `NamesStandForInodes`). Blocks and inodes are free before the names and
  inodes that refer to them are changed, and the next start hands them out
  again. For creating, appending and booting both properties hold, as
  is proved.
- Full blocks (`GFSTree.cfg` with `Overrun = TRUE`: `CatPrintsText`). The end mark of a file that
  fills its blocks exactly is the last byte of the last one; an append reads
  the next block and writes its first character before the buffer, and cat
  stops at the old mark. Appending an empty text there takes a block each time, and
  the size never counts it (`NothingLost`, with an empty text in `Texts`).
- `rm -r ./` (`GFS.cfg` with `Removable <- TwoAndNone`: `NamesStandForInodes`). The name to remove is empty,
  which is the name of an entry that was never used; its inode, 0, is freed. It
  is the root, which `rm /` refuses to remove (fs.c:685).
- Other things about paths, which the model of `WorkingDirectory` has: `cd .` fails;
  `cd ./` at the root leaves an empty path, for which `ls` recurses without end;
  `cd ../x` stays in the parent when there is no x; `pathToInodeID` takes `..` away from the root, and a name that
  begins with a dot, for the current directory.
- Screen (`Console.cfg` with `ImplementsCleanTerminal`). `MonitorSize` is 102 rows
  and 32 columns; the rest of the last row is never cleared. From the second
  time on that the window gets there, the new row shows old text from column
  32 on until it is written over. `ConsoleWriteWithColor` returns -1 for every
  length, the value of `len` after its loop.
- File system. `rm -r` frees the inode of a directory and nothing else, so its
  blocks and files leak. A reboot allocates a new root inode for the current
  directory while absolute paths start at inode 0. `cd f/` and `mkdir /f/x` with a
  file `f` end in a panic of `CreateFile`, at the latest with the next `touch`.
  A path that leads nowhere makes `rm` and `cat` read inode -1.

## 4. What is proved

TLAPS checks these for every value of the constants that the modules' assumptions
allow. TLC evaluates each assumption in the runs.

- `TypeCorrect`: Every reachable state has the types of the C declarations, for every ring size, set of PCBs and number of frames.
- `ReadyQueueIsSound`: The array of the ready queue holds processes exactly between Front and Rear, none twice.
- `OnePlace`: Every PCB that was handed out is in exactly one of: running, ready, zombie, being created; a freed one is in none.
- `PIDsAreExact`: The PID bitmap is exactly the PIDs of the living and idle, which are distinct and not 0.
- `FramesAreExact`: Free frames and the frames of living processes partition the kernel's frames.
- `RunsOnOwnFramesAlways`: CR3 and ESP0 are those of the current process and their frames are allocated.
- `ForkFindsItsChild`: The child whose ID a resumed fork reads is still the child it created.
- `CapacityHolds`: Neither the ring of the ready queue nor the zombie table ever takes more processes than it has room for.
- `BootIsDone`: With one process created at boot, as in shell.c, the boot code always comes to its end.
- `ServesInTurn`: The ring of the ready queue, the zombie table and Schedule() implement a line of processes that are served in turn, step by step, for every size of the ring.
- `LocksExclude`: No two processes are in the critical section of a lock, for every set of callers and locks and every depth, when system calls run with interrupts off.
- `RecordAgrees`: Owner, depth and flag of every lock say what its callers did.
- `QueuesAgree`: A process is blocked exactly if it is in one queue of waiters, of the lock it asked for, once.
- `WaitersAreWoken`: While a process waits for a lock, the lock is held or somebody awake is on its way into it: no waiter is left behind at a free lock.
- `NoDeadlock`: The locks, taken in their order, never stop the kernel: no queue overflows and never is every process blocked.
- `FramesArePrivate`: No frame is mapped twice, in one address space or in two.
- `FramesAreAccounted`: Free frames and the frames of page tables and pages are apart and together all of the user's frames.
- `ExitReachesEverything`: Every page has its second-level table, so the walk of exit gives everything back.
- `MemoryIsPrivate`: The page tables implement a memory of its own for every process: a step of the code is a write, a fork, an exit or nothing of it.
- `OnlyOwnWritesShow`: What a process reads changes by its own writes only.
- `NoByteTwice`: No byte is given out twice, by either allocator, for every memory map within the machine and every size of the heap.
- `CountersMatch`: Both counters of free frames equal the number of frames their bytes call free.
- `HeapIsTiled`: The blocks follow each other from the start of the heap to its end after any splits and merges.
- `FreeLeavesNothingToMerge`: After every Free mergeBuddy has left no two neighbours it could merge: its loop, of any length, comes to a fixed point.
- `BuddyIsHeap`: The buddy allocator implements a heap that hands out disjoint ranges, step by step.
- `BlocksStayPrivate`: No block belongs to two inodes and a block in use is marked as used, after any calls, removals included, and with the power lost in the middle of create, append or boot.
- `NamesAlwaysStandForInodes`: Every name in a directory in use stands for an inode in use, and no inode has two names, unless rm -r is called with the empty name.
- `NothingIsLost`: As long as nothing is removed and every call does all its writes, every inode in use has a name and every block in use belongs to a file.
- `CatPrintsWhatWasWritten`: cat, which stops at an end mark, prints the text the size of the file counts and, unless the power went, no more, after any calls, with losses of power in create, append and boot, as long as no text is appended to full blocks.
- `DiskIsFileTree`: The file system implements the abstract tree of named files with texts: as long as nothing is removed, every call, also one during which the power goes in create, append or boot, and the start after it, changes the tree as the abstract calls do or not at all.
- `PathAlwaysLeadsThere`: The path the shell shows leads to the current directory, for paths of any length, as long as no cd failed and no directory on the way was removed.
- `AllMeanOne`: cd, ls and the calls that take a file find the same inode under every path without .. or a name that begins with a dot, though one goes by the number and another by the path of the current directory.
- `RmRemovesThatName`: rm of a name here, with ./ before it, or in the root takes away that name of that directory and no other.
- `ConsoleIsTerminal`: The window on the video memory behaves as a terminal, for every size of the screen and the memory and texts of any length, when the window moves and when it goes back to the beginning of the memory; also the message that ReadLine prints with interrupts on, register by register and cell by cell, if no other call comes between its steps.
- `KeysAreTracked`: When the handler has seen all bytes it knows exactly the keys that are down, whatever keys are pressed and released.
- `CharactersAreNew`: ReadChar returns a character, and none twice, wherever the handler and the clock come between its steps.
- `LinesAreAsTyped`: The line ReadLine returns to a user who waits for it, and from whom no other process took the processor, is what was typed, edited, for every length of lines and wherever the handler comes between its reads of the length and of the buffer, if the byte before the buffer is no newline.

Each rests on an inductive invariant. The properties are not inductive alone:

- Processes. Assumed: the ring has at least two slots (`SizeAssumption`); `NULL` is
  no PCB and the kernel has a natural number of frames (`PCBAssumption`,
  `KernelPagesAssumption`); frames run out before PIDs, two of them for each
  process, and there are at most as many PCBs as PIDs (`CapacityAssumption`: 768
  kernel frames and 1024 heap descriptors against 1024 PIDs). `BootIsDone` assumes
  that at most one process is created at boot, as `shell.c` does; with two it is
  false. `IInv` is the type invariant, the shape of the ring,
  the one place of every PCB, and the bookkeeping of PIDs and frames: that a PID
  is free only if no queued process has it needs that no PCB is queued twice,
  which needs that `Push` writes outside `Front .. Rear`, which needs the shape of
  the ring. The lemmas on the ring come first in `ProcessManagerProofs`, and those
  on `Push` and `Pop` again in `ReentrantLockProofs`. `CapacityHolds` counts:
  every PID in use has taken two frames, so the frames bound the queue.
  `ServesInTurn` proves the refinement of `RoundRobin`: the line is what the ring
  holds from `Front` round to `Rear`, so a `Push` appends to it, a `Pop` takes its
  head, and `Schedule` does both in one step. It needs the capacity: a fork that
  finds the queue full would leave a child that is in no line.
- Locks. The theorems assume `~Preemptible`: the callers are system calls, which
  run with interrupts off. With preemption `LocksExclude` is false
  (`ReentrantLockPreempted.cfg`). The invariant adds the scheduler's (each process
  is current, in the ready queue once, or blocked in one queue of waiters), that
  only the current process is between test and take, and, for the absence of a
  deadlock, that a process that waits asked for a later lock than it holds: were
  all blocked, the one that asked for the last lock would wait for nobody.
- Address spaces. The invariant adds that every frame is free or used, that an
  address space that is not live maps nothing, that pages have their tables, and
  that the counter is exact. The refinement of `PrivateMemory` is proved with its
  initial states and one lemma for each action: the memory of a process is what
  its page table leads to.
- Memory. Assumed (`MemoryAssumption`): the memory map lies in the array of frame
  bytes and its ranges of free memory do not overlap (QEMU with 32 MB), and the
  heap is a power of two of its unit, in whole frames (16 of them). That blocks
  stay powers of two and a block starts where the last one ends makes splits
  exact; that the heap's frames are used and nobody's makes the two allocators
  one. The loops of `Malloc` and of `mergeBuddy` are recursive functions;
  `IterationExists` says, with induction over a set of natural numbers
  (`SetInduction`), that there is a function that a step repeated gives. These
  lemmas begin every proof module whose specification has loops, as the modules
  they extend share nothing else.
- File system. `BlocksStayPrivate` and `NamesAlwaysStandForInodes` assume that power
  is lost only in create, append and boot (`Interruptible`; for the other calls
  they are false), and the latter that the empty name is not removed,
  that is, that nobody calls `rm -r ./`. The invariants `Sound` and `NamesSound` speak of all inodes and
  all places in the blocks of all directories, also of those not in use, since
  `rm -r` leaves the blocks and entries of what was below, a removed directory may
  stay the current one, and a new inode inherits nothing only because its size is
  set to 0. Blocks that are free are all zeros: a new directory block has no
  stale names. `Sound` is proved for each disk between two writes, not only for
  the last, which is what the losses of power need. Walking and the chains of
  `mkdir -p` are recursive functions. `NothingIsLost` assumes that nothing is
  removed, that the machine is not started again on a full disk, and that no empty
  text is appended at the end of a block; whether the power may go does not
  matter, since the property is about disks on which it never went. Its invariant
  `Full` adds to the two equations that no name is behind the size of its
  directory (`NamesCounted`): the place of the next entry, which the size points
  to, then holds none, and no name is written over. That is what a removal
  breaks. It also needs that a panic ends the system: a `CreateFile` that takes a
  block and then finds no inode has lost it. `CatPrintsWhatWasWritten` assumes
  what the run does: losses of power in create, append and boot only, and
  `~Overrun`. Its invariant `TextSound` says of each disk between two writes that
  in every file an end mark follows the characters its size counts, unless the
  power went, and none comes before. What an append changes, in the
  blocks the file had and in those it takes, is followed cell by cell; that no
  cell of another file changes is `BlocksStayPrivate`.
- File tree. `DiskIsFileTree` proves the refinement of `FileTree`, under what its
  run assumes: nothing is removed, power is lost only in create, append and boot,
  and `~Overrun`. Its invariant is that of `cat` with `NamesSound`. The tree of a
  disk hangs on the least set of files that has the root and, with a directory,
  what the names in it stand for (`Reaches`); that the rounds of `TreeOf`, one for
  each inode, come to that set follows from counting the inodes. Two disks with the
  same names and texts have the same tree, so a step has to say only what changes. A
  new file or directory is one entry more in a directory that the tree has, with
  nothing below it (`OneMore`); `mkdir -p` is a chain of those (`Grown`); a write
  leaves every name, and all texts but one (`OneFile`), and that one is the new
  text, alone or behind the old one (`AppendedTexts`). That no inode has two names
  (`NamesSound`) is why a new entry hangs nothing else into the tree; that the size
  of a directory is written last, and only entries below it count, is why a loss of
  power before that leaves the tree as it was.
- Current directory. Assumed (`PathsAssumption`): finitely many inodes, and names
  that are not empty and have no slash; `mkdir a//b` would make an empty one, and
  `cd` cuts one slash off the end of a path, not two. `PathLeadsThere` is not
  inductive. `DirectoryInv` adds that the path has no slash at its end, as what is
  put behind it is read as one name otherwise; that no name is in a directory
  twice and nothing has the number 0, which stands for nothing; and that the
  numbers of entries are of things that were made. The lemmas follow the loops
  over a path: what is read behind a slash does not depend on what came before
  (`NamesOn`), so a path put behind another leads on from where that leads
  (`WalkJoined`), which is what `cd`, `ls` and `pathToInodeID` have in common. An
  `rm` leaves the path sound if what it removes is not above: the directories
  above are closed under going up, and outside of them no step of the walk changes
  (`WalkSame`). That `cd ../../x` calls itself is an iteration of sets.
- Keyboard. `KeysInv` says what can be on its way from the controller: nothing, all
  bytes of one key, or its last byte with the prefix already seen. `CharInv`: a
  character that was returned is in `globalChar` only until it is cleared or
  replaced. `LineInv` follows the line through `ReadLine`: the start of the buffer
  is what was typed, edited; from the test that finds the newline on no further
  character is on its way, because the user waits. Between the reader's look at the
  length and at the buffer the handler may delete and add characters; `IndexIs`
  says that a newline found at the old place is the last character again, which
  needs that the byte before the buffer is none. `EditedAppend` says that the
  editing of a longer sequence is one more step of it.
- Console. Assumed (`ConsoleAssumption`): the memory has a row more than the screen
  (102 rows against 25), the registers reach `MonitorSize` and a row, texts are
  sequences of the characters `Terminal` knows, and a message is not empty. `Good` says of a console state, inside a call too, that the cursor is in
  the window, that the window begins with a row of the memory and ends before a
  row behind `MonitorSize`, and that the memory behind the window is blank up to
  `MonitorSize`: that is why the row that appears when the window moves down is
  blank in the columns that `MonitorSize` reaches, and it holds again after the
  text was copied back because the rest is cleared. Every cell is followed by its
  row and column (`SamePlace`: no two places of the window share a cell). One lemma
  per character says that what `PutChar` leaves shows one of the terminals `After`
  allows, and `PrintedShows` that a text of any length does. Between calls only the
  registers are kept; row and column are found again from them by division
  (`NextFindsState`).
- Console, the message in steps. The invariant `Inv` says that the console is
  garbled or `Undisturbed`: at each stage of the message the registers, the
  register that is selected, the memory and the local variables in `call` make up
  the state that the first characters of the text lead to when they are printed
  in one step (`Sofar`). While the window is copied back, the memory is what it
  will be once the rest is copied and cleared (`RestCopied`, `RestCleared`). There
  is one lemma for each step (`SelectKeeps`, `ReadHighKeeps`, `ReadLowKeeps`,
  `PutCharacterKeeps`, `CopyCellKeeps`, `ClearCellKeeps`, `WriteHighKeeps`,
  `WriteScreenKeeps`, `WriteCursorOfNewlineKeeps`). Until the cursor is written the
  console shows what it did before (`MessageBegins`, `MessageGoesOn`), and then
  what the call in one step would show (`MessageEnds`). Another call in between
  sets `garbled`, which `Inv` keeps; `ConsoleGarbled.cfg` shows that this does
  happen.
Model-checked only: liveness (`EveryReadyProcessRuns`, `EveryWaiterIsWoken`:
TLAPS does not reason about fairness). `TypeOK` of `GFS` is not proved either: the proofs use `DisksWith`, which says more
of directories and nothing of `panic`. That the console is no terminal with clean
rows (`ImplementsCleanTerminal`) is a counterexample of TLC.

## 5. What is not modelled

The component list in `PROJECT.json` gives the reason for each part. Mostly:
programmed I/O (`disk/`), tables written once at boot (`int/idt.c`, `gdt/`,
`device/`), formatting (`lib/`), assembly that saves registers, kernel processes
(only tests create them), and parts that never run: the disk cache, which is
disabled, `Delete` of the hash table, and `ReadFileLine` (which compares a byte
with -1 and would not find the end of a file).

## 6. Plan

What is left to model is small: kernel processes, which only tests create; the
disk cache and the hash table, as soon as something uses them.

Proofs: every safety, action and refinement property of a passing run has its theorem.
Left is the refinement of `FileTree` with removals. Liveness stays with TLC.

