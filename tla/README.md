# Verification of the CS344 OS labs

TLA+ models of the kernel and user code of Labs 2, 3 and 5 (modifications of
xv6), with TLC runs on small instances and TLAPS proofs. Every definition is
translated from the code under `src/`; `PROJECT.json` maps it to its lines.

## The system and its parts

The repository holds one set of edited xv6 files per task. The tasks do not run
together: each is a kernel of its own, which shares the unmodified rest of xv6
(not in the repository).

| Part | Code | Module |
|---|---|---|
| Weighted round robin scheduler, timer, `setpriority` | Task 2.1 `kernel/proc.c`, `trap.c`, `sysproc.c` | `Wrr`, `SchedulerProofs` |
| Lottery scheduler, `settickets` | Task 2.2 `kernel/proc.c`, `sysproc.c` | `Lottery`, `SchedulerProofs` |
| Process table: fork, exit, wait, kill, pause | Task 3.1 `kernel/proc.c`, `sysproc.c` | `Proc`, `ProcProofs` |
| Shared-memory segments | Task 3.1 `kernel/shm.c`, and what fork, exit, wait and sbrk do to them | `Shm`, `ShmProofs` |
| Mailboxes | Task 3.1 `kernel/mbox.c`, with `sleep`, `wakeup`, `kkill` | `Mailbox`, `MailboxProofs` |
| What a mailbox promises | (abstract) | `Channel` |
| Maze game, a client of both | Task 3.2 `user/master.c`, `user/process.c` | `Maze`, `MazeProofs` |
| Numbers as text | Task 3.2 `user/ulib.c` (`itoa10`, `atoi`) | `Ulib` |
| Blocks of files, doubly indirect blocks | Task 5.1 `kernel/fs.c` | `Blocks`, `BlocksProofs` |
| Inodes, directories, paths, links, open files, crashes | Task 5.1 `kernel/fs.c`, Task 5.2 `kernel/sysfile.c` | `Names`, `NamesLemmas`, `NamesProofs` |

How they interact: `Mailbox` is shown to implement `Channel`, and `Maze` is
built on `Channel` (`Mail == INSTANCE Channel`), so what `Maze` shows of the
game rests on what `Mailbox` shows of the kernel, as long as no two calls of
`mbox_create` overlap. `Shm` takes from the process
table only that processes are forked, exit and are reaped in some order; `Proc`
models which orders. `Wrr` and `Lottery` model the CPUs below a process table
whose sleeps and wakeups come at any time. `Names` uses inodes as wholes and
`Blocks` what is inside of them: both hold an inode lock over an operation.

## State and actions

Common to all modules: what the code does while it holds a lock is one action
if nobody can observe it in between; where it gives the lock up, or never takes
it, it is split. One scan is simplified: `allocproc` and `balloc` take the first
free entry of their table in one step, where the code looks at one entry after the
other and may miss one that is freed behind it. Which entry is taken matters to no
property. Variables and operations keep the names of the C code. C `int` flags are 0
or 1.

- **Shm.** `reg` is `shm.reg`; `pt[p][s]` the page that `p` maps at `SHMVA(s)`;
  `free` the free list of `kalloc`. All of `shm.c` runs under `shm.lock`: one
  action per call, with the failures of `kalloc` and `mappages`. `kfork` does
  not copy segments (they lie above `sz`), `kexit` keeps them, and `freeproc`,
  at the parent's wait, runs `shm_cleanup`. Segments lie at ordinary user
  addresses, so a lazy `sbrk` can move `sz` over them: `big` and `grown` record
  that, and `vmfault` (external) and `sbrk_shrink` are what then happens.
- **Mailbox.** `box` is `mboxes.box` with the ring buffer as it is in C (`head`,
  `tail`, `count`, `buf`). `mbox_send`, `mbox_recv` and `mbox_close` hold the
  lock of the box, up to the sleep that gives it up. `mbox_create` holds none:
  each iteration of its two scans, and the two writes that claim a box, are
  actions. Any id may be used at any time: `made` has the boxes that some
  `mbox_create` has returned, and a send, receive or close of another one is
  refused, or goes into a box that is about to be emptied. `loc[p].early` records that
  a sender went to sleep on such a box. `sleeping` holds the SLEEPING processes. A test of `p->killed` is
  missing in the loops, so a killed process goes on with its call (`kkill`). A
  message is taken out before `sys_mbox_recv` copies it, so a failing `copyout`
  loses it; user memory itself is not in the model.
- **Channel.** Bounded FIFO queues that are opened once and can be closed.
  `Mailbox!Abstract` maps a box to a queue by unrolling the ring buffer, from
  the moment its id is first returned.
- **Proc.** `state`, `parent`, `pid`, `killed` of `struct proc`. `wait_lock` is
  a variable because `kwait` holds it from its scan to its sleep, and `tickslock`
  because `sys_pause` does the same; `left` is what a pause has still to wait,
  counted down by `clockintr`. `kfork` is
  three actions, as in the code: the copy under the lock of the new process,
  the parent under `wait_lock`, the state. `Enters` is the test in `usertrap`
  that ends a killed process instead of giving it another call. `kkill` takes any
  pid, 0 too, which is that of UNUSED slots; `aim` is history, the pid that the kill
  of a slot named. RUNNABLE and RUNNING are one state.
- **Wrr.** `cpu[c]` is where CPU `c` is in `scheduler()`, with its loop variable
  and `found`. `lock[p]` is the CPU that holds `p->lock` over a context switch.
  `timer` is the timer path of `usertrap` and `kerneltrap`. `ran`, `watch` and
  `passed` are history variables. `fork` takes the first UNUSED slot
  (`allocproc`), `wait` clears one (`freeproc`). Who sleeps and who wakes whom is
  left open.
- **Lottery.** As `Wrr`, with both passes of `scheduler()` one process at a time,
  `total`, `winner` and `prefix` as locals, and ints and uints that wrap; `Half` is
  `INT_MAX + 1`.
  `rand32` may return any value, which covers the races on `randstate`.
- **Maze.** One record per master (its shared page, its pc, its two mailboxes and
  verdict) and per child; mailboxes have keys, so masters with neighbouring pids get
  one in common. Arguments (`argv`) are any numbers, valid or not. Each of fork,
  exec and `shm_get` can fail for each child. A master names the page by its key
  and the mailboxes by their ids, as decimal text; a child works with what it
  has read from that text, which need not be what the master meant.
- **Ulib.** `itoa10` and `atoi` on sequences of character codes. `RoundTrip`, which
  TLC evaluates, says that `atoi` undoes `itoa10` for 0 to 1200 and not for
  negative numbers.
- **Blocks.** `ptr[b]` and `val[b]` are what block `b` holds, as addresses and as
  data; `addrs` and `size` the inode. A place `<<i, j, k>>` is where a file can have
  a block: address `i` of the inode, then index `j` and `k` of the indirect blocks,
  with `Self` for the indirect block itself; `Path(bn)` is the place of block number
  `bn`, and `At` what is there. A `writei` is one `bmap` step per
  allocated block (the first place that is `Missing` on the path) and one `copyin` per
  copied block, either of which may fail; an `itrunc` is one `bfree` at a time, `todo`
  being the places that its loops have still to come to, in the order `Before`.
  `readi` is an operator: it changes nothing. A block freed holds junk.
- **Names.** Inodes with `type`, `nlink`, the target of a symbolic link, the
  entries and the `..` of a directory; the current directory of each process;
  open files with the number of their descriptors. A path is a sequence of
  one-character names. A call walks its path one directory at a time, holding a
  reference and no lock in between, so any other call may come between two
  names; it is also split where `sys_link` and `sys_open` give up the inode.
  `sys_open` reads one character of a link's target over the path it has, hence
  `NextPath`. `disk` is what a crash leaves: the log commits when no operation is
  under way. `reboot` is a crash at any time with the `ireclaim` of `fsinit`;
  `panicked` is the kernel after `panic`. `strayed` records that a call has left
  the names in disorder (see below).

## Runs

| Run | Instance | Distinct states | Shows |
|---|---|---|---|
| `shm` | 3 processes, 2 keys, 2 pages, 2 slots | 369,445 | `ref_count` is the number of mappings, nothing dangles, no page is lost or shared, one slot per key, the last unmap frees |
| `mbox` | 3 processes, 1 creator, 2 boxes of 2 | 257,872 | mailboxes implement `Channel`; one box per key; no lost wakeup, and nobody stays blocked without cause, but for early senders (see below) |
| `mbox_race` | 2 creators | violation | `mbox_create(7)` returns a box with key 8 |
| `proc` | 4 slots, 4 pids, pauses of up to 2 ticks | 47,653 | the parent of a process is alive; nobody sleeps in wait beside a zombie child, or in pause past its time; a kill reaches only the process it names, but for `kill(0)`; init reaps what it is given; a pause ends |
| `wrr` | 1 CPU, 3 processes, priorities 1 and 2 | 175,162 | slices are bounded, no second turn, no starvation |
| `wrr_quantum` | priorities up to 3 | violation | a slice ends at its first tick |
| `lottery` | 2 CPUs, 3 processes, 3-bit ints | 757,523 | one CPU per process; whom a draw selects; when a draw is wasted |
| `lottery_range` | 1 CPU | violation | the process dispatched does not hold the drawn ticket |
| `maze` | 3 masters, two of them neighbours, mazes of up to 4 cells, 4 mailboxes | 270,392 | children are in the game of their own master, and share no more than the one mailbox of neighbours; without neighbours, both players move as if at once, there is no second message in a mailbox, B never finishes without A, and games are won |
| `blocks` | 2 files, 10 blocks, 1 direct, 2 addresses per block | 242,543 | blocks partitioned into free and owned, what was written is read back without allocating, no double free |
| `names` | 2 processes, 3 inodes, 1 open file, paths of one and two names, 2 links followed | 512,553 | link counts, no freed inode in use, no orphan, directories are a tree, with crashes |
| `names_follow` | 1 process | violation | open goes on with a path that is not the target |

Every property of a passing run has a mutant in `PROJECT.json`: a plausible bug
in one definition that TLC finds with that property.

### The four disagreements

- `mbox.c:43`: creation is not locked. Two creators take the same free box, and
  one is handed a box under the other's key, against the comment of the lookup.
  `mbox` therefore has a single creator; all else in it is concurrent.
- Task 2.1 `proc.c:475`: `ticks` starts at `priority` and is counted up to
  `priority`, so each slice is one tick, against "Preempt only when quantum is
  consumed". `QuantumIsBounded` is the half of that sentence that holds.
- Task 2.2 `proc.c:493`: the end of a ticket range is one short. The ticket drawn
  selects its successor (`DispatchHoldsNextTicket`), and the last ticket nobody
  (`WastedOnlyOnLastTicket`). `edit_info.txt` says that the range contains it.
- Task 5.2 `sysfile.c:365`: of a symbolic link one character is read, over the
  old path. `edit_info.txt` says that the path stored in the link is resolved.

### Properties with a precondition

- `RefCountExact`, `NoDanglingMapping`, `PagesPartitioned` and `LastUnmapReleases`
  are stated until some process grows over `SHM_BASE`; after it they do not hold,
  and `TypeOK` and `OneSlotPerKey` do.
- `LinksAreCounted`, `NothingDangles` and `DirectoriesAreATree` are stated until
  `strayed`, and do not hold after it; `NoOrphans` and `TypeOK` do. `strayed` is
  set when a `sys_symlink` fails after it entered its path (it zeroes the link
  count of an inode that has a name), when it writes its target over a
  directory, when an entry is made in a directory that has been removed (nobody
  looks at its `nlink`), and when `..` is looked up in one. After that the run
  follows the calls under way, `unlink`, `dup`, `close` and crashes, and begins
  no other call.
- `SleepersHaveCause` and `BlockedGetThrough` of `Mailbox` make an exception of
  `Stranded` senders. `mbox_create` marks a box used (`mbox.c:43`) before it empties it
  (`mbox.c:47`), without a wakeup. Whoever uses the id in between, without having
  it from `mbox_create`, can fill the box and sleep in `mbox_send`; then the box is
  empty and the sender sleeps on, until the next message or `mbox_close`. Receivers
  are not affected, and no sender is that came to sleep on a box handed out.
- `FreshSlots` makes an exception of `kill(0)`. `kkill` compares `p->pid` whatever the
  state (`proc.c:599`), so pid 0 names the first UNUSED slot; `allocproc` does not reset
  `killed`, and the next process in the slot is born killed.
- The keys of a master are `pid + 110` and `pid + 111`, so masters with neighbouring
  pids share a mailbox. `OwnGame` is about all games, and says that this is all that
  is shared. `MovesInStep`, `OneMessagePerBox`, `NotWithoutA` and `GameIsWon` are about
  games that are `Alone`, without neighbours at any time, and do not hold for
  others, whose children read messages of the other game. `MazeAssumption` has pids
  such that the key of the page fits into `char shm[8]`.
- `NoStarvation` is stated for behaviours in which `setpriority` is not called for
  ever. `GameIsWon` is about games in which both children start.

### Bounds, and why they are enough

- Two slots, boxes, keys, files or masters are the least in which one can be
  mixed up with another; three processes the least with a sleeper on each side
  of a mailbox, or a third party to a race of two. Four slots give `Proc` init,
  a parent, its child and a grandchild, and four forks reuse a slot.
- `MBOX_CAP = 2` with three sends fills the buffer, blocks a sender and wraps; two
  messages are the least that can be mixed up.
- `NDIRECT = 1`, `NINDIRECT = 2` make files of up to 7 blocks, with each boundary
  between the three kinds of blocks and both indices of the doubly indirect
  level; `MaxSize` lets one file reach the last of them and, with `NBLOCKS = 10`,
  the disk runs full. `MaxWrite = 2` crosses a boundary in one call.
- `Half = 4`, ints of 3 bits, lets the sum of three processes with 3 tickets overflow.
- `MaxFollow = 2` (10 in the code) has cycles and chains that hit the limit.
  `MaxGroup` bounds the operations that the log commits together, `MaxRef = 2` the
  descriptors of a file, one more than the last. Three inodes are the root, a
  directory and one thing in it; `Path` and `Target` are the arguments of calls.
- `Pid = {2, 3, 11}` gives keys of two and three digits, neighbours, and a master that
  is alone; four mailboxes are one less than they need. `argv` gives the lone one
  mazes of up to four cells, with distinct starts and several rounds to play, and
  arguments that it refuses, and the neighbours mazes of different sizes.
- `Pauser`, one process, and `MaxPause = 2` have ticks before, between and after
  the test of `sys_pause` and its sleep.
- `MaxRef` of `Shm`, `MaxSends`, `MaxPid`, `MaxTruncs`, `MaxL` only bound what would
  otherwise grow without end.

Symmetry is used for processes, CPUs and pages in `shm`, `lottery` and `names`,
where all properties are safety properties.

### Fairness

- `Mailbox`, `Maze`: weak fairness of each process inside of a call. xv6's
  round robin gives the CPU to every RUNNABLE process again and again, and no
  lock is held over a sleep. A process need not make any call.
- `Wrr`: weak fairness of each CPU, its timer included. That is what `NoStarvation`
  is derived from; nothing is assumed of processes.
- `Proc`: weak fairness of init inside of a call, and of whoever holds `wait_lock`,
  and strong fairness of init's scan in `kwait`, whose lock others take and give back
  in between: it is a spinlock that is held for bounded times. init calls wait for
  ever (external, `user/init.c`), hence the fairness of its `sys_wait`. Nothing else is
  assumed of other processes than that their pauses go on. The clock goes on for
  ever, and interrupts are taken again each time a lock is given back: strong
  fairness of `clockintr`, and of the test in `sys_pause` after a wakeup, which
  takes `tickslock`.
- `Shm`, `Lottery`, `Blocks`, `Names` have no liveness properties. (That a lottery
  starves nobody is a statement about probabilities.)

Deadlock is checked in all runs but `maze`, where masters exit and where a child
whose partner failed to start waits for ever, as in the code.

## Proofs

TLAPS proves the following for all values of the constants that satisfy the
named assumption of the component's module. Each component has one inductive
invariant `IInv`, which TLC has confirmed on the instance of the run, a lemma or
a case per action, and theorems that draw the conclusions.

**`ShmProofs`** (`ShmAssumption`: finitely many processes, any keys and pages,
`MAX_SHM > 0`).

- `TypeCorrect`: `Spec => []TypeOK`. The point that needs an argument is that
  `ref_count` stays a natural number: `Unref` decrements only a positive one.
- `RefCounts`, `NothingDangles` and `PagesAccounted`: `Spec => []RefCountExact`,
  `Spec => []NoDanglingMapping` and `Spec => []PagesPartitioned`.
- `OneSlot`: `Spec => []OneSlotPerKey`, also after growth over `SHM_BASE`.
- `LastUnmap`: `Spec => LastUnmapReleases`.

`RefCountExact` and its two companions are not inductive alone. That `shm_close` frees a
page nobody else maps needs the count to be exact; that the count stays exact
needs every mapping in slot `s` to be of the page of `reg[s]` (else `shm_cleanup`
would count for the wrong segment); and that a new segment starts with no
mappers needs free slots to be mapped by nobody. The invariant is

    IInv == TypeOK /\ (~grown => Clean)
    Clean == RefCountIsMappings /\ MapOK /\ PageOK /\ ProcOK

where `MapOK` says that a valid PTE maps the page of a slot in use, `PageOK` is
the partition of the pages, and `ProcOK` that nobody is above `SHM_BASE` and that
an UNUSED process maps nothing (so a forked child starts with none).
`CloseStep` and `ReapStep` share `UnmapStep`, about one process that drops a set
of slots. Cardinalities come from `MappersJoin` and `MappersLeave`. `grown` never
becomes false, so a step from a grown state has nothing to show.

**`ProcProofs`** (`ProcAssumption`: a table of any size).

- `TypeCorrect`, which includes who holds `wait_lock` and `tickslock`.
- `ParentsLive`, `NoLostWakeup` and `SlotsAreFresh`: `Spec => []ParentsAreAlive`,
  `Spec => []SleepersHaveCause` and `Spec => []FreshSlots`.

The three hold together, with `CauseInv` (what a process found under the lock is
still so when it comes to sleep: the reason why the locks are held until then),
`ForkInv` (a child under construction has one maker, and a parent only from the
second step of `kfork` on) and `CallInv` (who is in a call can run or sleeps).
`FreshSlots` holds up because the pid of a slot changes only in `kfork`, when it was
0, and in `freeproc`, which resets `killed` with it.

**`MailboxProofs`** (`MailboxAssumption`: any processes, boxes, messages, capacity).

- `TypeCorrect`, for any number of creators.
- `KeysApart`: `Spec => []OneBoxPerKey`; `NoLostWakeup`: `Spec => []SleepersHaveCause`.
- `MailboxesAreChannels`: `ImplementsChannel`, the refinement of `Channel`.

The last three are under `SingleCreator`, that at most one process creates
mailboxes: with two, a key can get two boxes (run `mbox_race`).

`RingInv` (the tail is `count` behind the head, modulo the capacity) turns a write
to the ring buffer into `Append` and a read into `Tail` of the abstract queue.
`CreateInv` says what the two scans of the creator have established so far, and
`UseInv` that a box in use that is not yet handed out is the one being made; from
them the claim of a box changes no abstract state, and neither does what others do
with a box before it is handed out (`EarlyStep`). `CallInv` says that whoever sleeps in
`mbox_send` on such a box is `early`, so that emptying the box leaves its receivers
with a cause to sleep and its senders `Stranded`.

**`SchedulerProofs`** (`WrrAssumption`: any number of processes, CPUs and priorities;
`LotteryAssumption`: any number of processes and CPUs, any width of int, any tickets).
The two kernels have functions of the same names, so the module extends `Wrr` and has
`Lottery` as the instance `L`; there the assumption is the hypothesis `L!ConstantsOK`
of each result, the very formula that `LotteryAssumption` states.

- `WrrTypes`: `Spec => []TypeOK`.
- `QuantumHolds`: `Spec => []QuantumIsBounded`.
- `RoundRobin`: `Spec => NoSecondTurn`, for several CPUs, where the run has one.
- `LotteryTypes`: `L!Spec => []L!TypeOK`.
- `RunningOnItsCpu`: `L!Spec => []L!RunningIsOnItsCpu`.
- `DispatchHoldsNext`: `L!Spec => L!DispatchHoldsNextTicket`.

For `Wrr`, `CpuInv` ties CPUs, RUNNING processes and the locks held over a switch to
each other; `TickInv` relates `ticks`, `priority` and the ticks a process has had;
`PassedInv` says that the processes a CPU has dispatched past a waiting one lie
in the part of the table that its scan has seen since it went past it. For `Lottery`
(invariant `LotteryIInv`), `LotteryCpuInv` is as `CpuInv`, `RunInv` is its converse, and
`DrawInv` says that tickets are ints and that the second pass has not gone beyond the
ticket after the one drawn, whatever the total was and however it has wrapped.

**`MazeProofs`** (`MazeAssumption`: any masters, neighbours or not, with any arguments,
mazes of any size, any number of mailboxes; `NamesInText`: the keys and ids of these
masters survive `itoa10` and `atoi`. Both are evaluated by TLC on the instance; the
lemma `SmallNames` derives the second from `RoundTrip` for keys and ids up to 1200.)

- `MazeTypes`: `Spec => []TypeOK`.
- `InStep`: `Spec => []MovesInStep`. `TurnsTaken`: `Spec => []OneMessagePerBox`.
- `AFinishesFirst`: `Spec => []NotWithoutA`.
- `GamesApart`: `Spec => []OwnGame`.

`BaseInv` is about all games, neighbours or not: the mailboxes a master has are those
with its keys (`KeysOf`), its children have them and its page (`SeatsOf`), no mailbox is
nobody's (`Owners`), so that a new one is in no other game, and a new one is empty.
`GamesApart` follows from it alone. For the games that are `Alone`, `OpenOf` says which
mailboxes are closed at each pc of the master, and that no step of another game changes
them is what `OtherGame` shows from the keys. `GameOf` is about one game. At most one of four things is the case (`Turn`): A is to send, a
message is on its way to B, B is to send, a message is on its way to A. In each of
them `Says` relates the numbers of moves of the two and says what the message or the
receiver's copy of it holds; `MovesInStep` alone says nothing about messages, and so is
not inductive. `BehindA` is the step between `NotWithoutA` and the code: when B is
done, A is, or the message that ends A is in its mailbox.

**`BlocksProofs`** (`BlocksAssumption`: finitely many files, a disk of any size, any positive numbers
of direct addresses and of addresses in an indirect block).

- `BlocksTypes`: `Spec => []TypeOK`.
- `Partitioned`: `Spec => []BlocksPartitioned`.
- `ReadsBack`: `Spec => []ReadsBackWhatWasWritten`.
- `NeverFreesFree`: `Spec => NoFreeingFree`.

The invariant is

    IInv == TypeInv /\ Owned(used, addrs, ptr, op) /\ Filled(addrs, ptr, val, size, op)

`Owned` says that what is at a place of a file is in use (`InUse`), that what is in use is
at a place (`Somewhere`) and at no other place of any file (`NowhereElse`); of a file that is
being truncated only the places still in `todo` count (`Reached`), because the indirect
blocks that lead to the others may be freed and in use elsewhere. `TypeInv` says that
`todo` has all places after each of its own, so an indirect block outlives what it
names. `Filled` says that each block number written so far is at its place with its own
data. Each needs the other facts: a `bmap` step writes into an indirect block, which
changes no other place only because that block is at one place (`Apart`, `Unnamed`), and
`copyin` overwrites no other file's data for the same reason. The lemmas before the
invariant say what one new address does to all places of a file.

**`NamesLemmas`, `NamesProofs`** (`NamesAssumption`: finitely many processes and names,
any paths over them, any number of inodes and files, any bounds).

- `NamesTypes`: `Spec => []TypeOK`.
- `LinksCounted`: `Spec => []LinksAreCounted`. `NoneDangles`: `Spec => []NothingDangles`.
- `NoneOrphaned`: `Spec => []NoOrphans`.
- `DirectoryTree`: `Spec => []DirectoriesAreATree`.

The invariant is

    IInv == TypeInv /\ NoOrphans
            /\ (~strayed => Good(inode, Count) /\ LinkInv(inode) /\ HeldInv(inode)
                            /\ Good(disk, NoCount))

`Good(ino, C)` is the order of the names on a disk `ino` when the calls `C[i]` have
counted a link of `i` that they have not entered: link counts (`Counted`), a root, free
inodes in no directory, entries only in linked directories (`Tidy`), one entry per
directory (`Below`) and no cycle (`NoCycle`). It is stated for `disk` as well, with no
calls, because a crash makes it the current state. The four conjuncts need each other:
that the parent of a directory is not freed while it has one is a matter of counting
`..`; that unlink of a directory takes its only entry needs `Below`; and that it does not
unlink itself needs `NoCycle`. `LinkInv` and `HeldInv` relate the calls under way to the
inodes: a counted link is never one of a directory, and what is held is not free. Every
step ends with putting inodes (`Step`); `StepKeeps` says once that `iput` and the log keep
all of this, and each action adds what it does to the inodes (`EnterKeeps`, `NewKeeps`,
`RemoveKeeps`, `RecountKeeps`). Facts about cardinalities enter as the hypothesis `Sized`,
which `AllSized` discharges from the library's theorems about finite sets.

Only model-checked: every liveness property (the prover does not do fairness or
ENABLED); and `WastedOnlyOnLastTicket`, which relates the sums of the two passes over
the whole table, and `Ulib`, whose functions are recursive over their input (both need
induction over data).

## Not modelled

- `exec`, pipes, devices, console, the log and the buffer cache: not in the
  repository. The log appears as atomic commits (`Names`, `Blocks`), not with
  its limited space. `exec` would matter for segments, as it replaces a page
  table without `shm_cleanup`.
- Of `sysfile.c`: `fdalloc` (in `Names` an open may lack a descriptor at any time), `read`, `write`, `fstat`, `mknod`, `exec` and `pipe`,
  wrappers around `file.c`, `exec.c` and `pipe.c`, which are not in the
  repository; absolute paths, which only begin at the root instead of the
  current directory, and the entry `.`.
- Page tables other than for segments, trap frames, user memory (and so the
  outcome of `copyout`): no property depends on them.
- The rest of `ulib.c` (string and memory routines, `gets`, `stat`), which keeps no
  state; system call tables and headers of prototypes.
- Demo and test programs: straight-line clients. The modules allow every order
  of the calls they make.
- The rest of `main()`, which sets up hardware.
- Statistical claims of the lottery (shares in proportion to tickets), which TLC
  cannot state.

`PROJECT.json` lists the hazards of the code and, for those that no property
covers, why.
