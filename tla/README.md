# Verification of the CE121 systems programs

The repository holds four independent C programs written on top of POSIX system
calls. This directory holds TLA+ models of them, TLC configurations that check
the models on small instances, and theorems about them checked by TLAPS.

## 1. The system

| Program | Files | State it keeps | Operations | What is hard |
|---|---|---|---|---|
| hw3 server | `src/hw3/server.c` | `agent_array`, `agent_num`, the select set and `nfds`, IPC ids | accept/admit/refuse an agent, read one amount or BYE per ready agent, print the summary, close agents, rewrite the flight file, remove IPC | one thread serves blocking sockets of processes that may die at any point |
| hw3 agent | `src/hw3/agent.c` | the connection, the command being executed | connect, handshake, FIND, RESERVE, EXIT, notice that the server has gone | shared memory under one System V semaphore without `SEM_UNDO`; SIGPIPE inside the critical section |
| hw4 scheduler | `src/hw4/hw4.c` | the circular process list, `del_flag`, `termsig_flag`, timers | start, SIGALRM switch, SIGCHLD removal, destroy and kill | signal handlers that interrupt the main program and each other; coalesced signals |
| hw4 test program | `src/hw4/test.c` | a counter | count, wait, handle SIGUSR1 | the handler changes the counter between its load and store |
| hw2 archiver | `src/hw2/*.c` | child pids, pipes | encrypt a directory through three children, decrypt through two, wait for or kill them | children that fail while others wait on a pipe |
| hw1 object DB | `src/hw1/hw1.c` | one file of named objects | open, import, find, export, delete | partial reads and writes, crash half way |

Interaction: the hw3 agents and their server share the seat table (System V
shared memory), one semaphore, and a UNIX stream socket per agent. The agent
sends its pid, the server answers with three identifiers or with FULL; then the
agent sends one int per sale, and BYE when it leaves. Everything else an agent
and the server tell each other is that a connection has been closed. The other
programs are separate.

What makes each correct:

- **hw3**: no flight is oversold; a confirmed seat never becomes available
  again; the server's totals account for what agents have sold; the server's
  table, count and select set agree; the file written at the end accounts for
  every sale; nobody waits for the semaphore for ever; Q ends the server.
- **hw4**: the list of live processes and the processes really alive agree once
  the signals have been handled; one process runs at a time; a dead process is
  never continued or signalled; the parent ends when the last child has ended.
- **hw2**: the parent waits for every child and never signals a process that is
  not its own; a failing child ends the others.
- **hw1**: every prefix of operations leaves a well-formed file; what is
  imported is what is exported; deleting one object leaves the others.

## 2. Plan

Written and checked:

1. hw3: `AgentArray`, `FlightState`, `FlightServer`, `FlightAgent`,
   `FlightSystem`, with the abstract `SeatLedger`; theorems about the lock and the
   seats, then about the server's table, the file and the refinement (section 3).
2. hw4: `ProcessList` and `Scheduler`, with theorems (section 4); `Counter`, with
   theorems (section 5).
3. hw2: `ArchiveState`, `ArchiveStages`, `ArchiveParent`, `Archiver`, with the
   abstract `CopyJob`; theorems about the processes, then about what travels
   through the pipes (section 6).
4. hw1: `DbFile`, `ObjectDb`, with the abstract `ObjectStore`; theorems about the bytes
   of the file, then about the objects they encode and the refinement (section 7).

Every invariant, every action property and every refinement that a run expects to
hold is also a theorem. Liveness stays with TLC.

## 3. hw3, the flight reservation system

### Modules

| Module | Models | Correspondence |
|---|---|---|
| `AgentArray` | "AGENT ARRAY HANDLING" of server.c | one operator per function on the array; a slot is a record, pid `NoPid` (0) is free |
| `FlightState` | the variables of both programs, the kernel objects between them, history | see the comments at each VARIABLE |
| `FlightServer` | server.c from `server_loop` to the end of `main` | one action per step between two points where another process can be seen |
| `FlightAgent` | agent.c | one action per system call or shared-memory access |
| `FlightSystem` | both together; all properties | |
| `SeatLedger` | what the reservations promise, one step per sale | refined by `FlightSystem` |
| `MCFlight` | constants for TLC | |

Abstractions. Strings, output and the fields of a flight other than `seats` are
left out; a flight is its index. A command line is the command it parses to
(`Commands`); a malformed line changes nothing and is left out. An int on a
socket is one element of a sequence: 4-byte writes on an AF_UNIX stream are
delivered whole here. Descriptor numbers are kept, because `nfds` and the
search by socket depend on them: 0 is stdin, 3 the listener, `accept` hands out
the lowest free one. System calls that fail for want of resources (memory,
descriptors, IPC limits) are left out; calls that fail because the peer has
gone, or because an IPC object was removed, are in, with what Linux does:

- a write to a closed AF_UNIX connection raises SIGPIPE, which neither program
  handles: the writer dies;
- a socket closed over unread bytes gives its peer ECONNRESET, not an end of
  file: this is the difference between `EndOfFile` and `ReadFails`;
- `semop` on a removed semaphore fails, and so does `shmat` on a removed segment,
  unless an agent still has it attached (`Attached`; the server detaches before it
  removes); an attached segment stays;
- an agent that reads nothing in the handshake goes on with uninitialised
  identifiers: it may end in any way (`ReadNoReply`); a server that reads no
  pid goes on with any value, 0 included (`ReadPid`).

What users type at the server comes as the descriptor and stdio's buffer see it
(`stdin`): nothing, a line Q, a line Q typed together with a line before it
("pair"), and a Q that `fgets` has left in the buffer ("held"). `select` looks
at the descriptor only (`Ready`), so a held Q waits until something else is typed.

Seats are unbounded integers: an overflow of a 32-bit count needs amounts
nobody enters into a flight file, and no property is about it.

The three parts of `agent_loop` that touch shared state are separate steps:
`Down`, `Check` (the scan), `Take` (the subtraction), `Report` (the write of the
amount), `Confirm` ([SUCCESS]), `Up`. Between `Report` and `Confirm` the server may read
the amount, take Q, close the connection and write the file. `update_file` reads one flight per step. The removal of an
agent is one step of the server, as only the server sees its table, and the
close in it is the one thing another process can notice.

History variables, used by properties only: `holder` (who is between sem_down and
sem_up), `sold` and `booked` (seats whose amount was written to the server, by flight and
by agent), `confirmed` (seats with a [SUCCESS]).

### Runs

All runs use MAX_PENDING = 5 as in the code; with at most three agents the
queue never fills, and an agent connects once. `MaxCommands` bounds the commands
of one agent.

| Run | Instance | What it shows |
|---|---|---|
| `FlightSales` | 3 agents, 2 slots, flights of 1 and 2 seats, amounts 1 and 2, 1 command each | the last sale races the check of another, Q may come at any point; no oversell, nothing sold once the file may have been read, every sale filed; FULL, one slot used by two agents in turn without its seats being inherited; `nfds` grows and shrinks past gaps; table, count and select set agree; absence of deadlock |
| `FlightCrash` | 2 agents, 1 flight of 2 seats, 2 commands each, everyone may be killed | the lock, the sold and the confirmed seats, the lines of the file and the refinement of `SeatLedger` survive crashes; the system may stop (a dead holder of the semaphore) |
| `FlightLive` | 2 agents, 1 command each, fair | liveness |
| `FlightDeadlock` | 2 agents, one slot, amounts -1 and 1, 2 commands | an agent waits for the semaphore for ever (section 8) |

Fairness (`Fairness`): weak fairness of the server and of every agent's own
steps, because each is an operating system process that is scheduled when it can
run; strong fairness of `Down`, because System V semaphores serve waiting
processes in order, so a process waiting is not overtaken for ever. Users
are not fair: nobody has to start an agent, type a command, or quit.

### What is proved

`FlightSystem_proofs` begins with facts about the operators (what the array operations
return, least and greatest elements, the commands). It then proves,
for any set of agents, any table of flights, any number of slots and commands,
with crashes of anybody:

- `TypeCorrect`: `Spec => []TypeOK`. The inductive invariant is `TypeInv`, TypeOK
  with `ControlOK`: whoever is answered is an agent, and only a reservation of an
  existing flight gets past the check. Without the second, `Take` could leave the
  domain of `seats`.
- `MutualExclusion`: `SemaphoreIsLock` with `TypeInv` is inductive. Every step
  is a server step, a step that leaves the semaphore and the critical section
  alone (`QuietStep`), or one of six.
- `NeverOversold`: needs `SeatsForTakers`, that whoever has passed the check and
  not yet subtracted finds the seats still there. This is where the lock is
  used: no other agent is inside.
- `ConfirmedSeatsStayGone`: for amounts that are not negative (with negative ones it
  is false), counts the seats in the table, inside a reservation and sold, and those
  confirmed or about to be against those sold.

`FlightTable_proofs` goes on from there:

- `TableStaysConsistent`. `TableConsistent` speaks of the moments when the server looks
  at its table; in between, a connection is accepted but not yet in the table, or in
  it and about to be closed. The inductive `TableInv` says what holds then:
  descriptors of open connections are distinct (`OpenOK`), the sockets in the
  occupied slots are those of the agents that are `Seated`, one slot each (`SeatedOK`),
  the count is the cardinality of the occupied slots, the select set and `nfds` cover
  them, and what `select` returned is still in the table (`SelectOK`). The exception is
  `Doomed`: an agent that ended before it sent its pid leaves a slot whose
  uninitialised pid may be 0, that is, free; the write of the answer then kills the
  server before it looks again.
- `NothingSoldAfterUpdate`: writing an amount needs an open connection
  (`NobodyConnected`), and whoever still prints [SUCCESS], before the file is written
  or after, prints it for seats that were sold. For the second half `Amounts \subseteq Nat`: a
  negative sale would lower what has been sold.
- `FileAccountsForSales`: a line says what the table said when it was read, and later
  sales are excluded by the theorem before. `Amounts \subseteq Nat`, as for
  `ConfirmedSeatsStayGone`: a negative reservation gives seats back.
- `SellsAsTheLedger`: the refinement of `SeatLedger`, whoever crashes, for amounts that are not
  negative. The ledger's seats are those in the table and those inside the one
  reservation that is being reported; the lock makes it one. `Report` is a sale,
  `Confirm` tells the buyer of one, a seller that dies between `Take` and `Report` is a
  withdrawal, the start of `update_file` closes the book, all else is a stutter.
- `SalesReachTheFile`: no order of connections, commands and exits makes the server
  skip `update_file`. Here `Crashes = {}` and `Amounts \subseteq Nat` are needed: an agent killed
  from outside before it reads its answer resets the connection, and so does one whose
  -1 is read as BYE; the server then ends without the file (section 8). The invariant is `AnswerInv`: an
  agent that ends has read its answer, so nothing unread is left to reset a connection.
- `OnlyLeaversClosed`: `BYE \notin Amounts`, for the same reason as in `FlightDeadlock`. The
  invariant says that a BYE in a socket is there because its sender has ended (`ByeIsLast`).

- `EveryAmountIsCounted` (`LedgerAddsUp`): the amount recorded for a client and what is
  still unread in its socket are what it has been sold. `BYE \notin Amounts`, since
  an amount of -1 is counted as a goodbye. The inductive `TallyInv` adds that the
  table's record of an agent belongs to the connection it is seated on, that an agent
  that has not read its answer has sold nothing, and that the table is as in `TableInv`. What a
  socket is worth is a recursive function (`Credit`). Of it the proof needs what an append and
  a receive do to the sum: two running totals that grow alike differ by a constant,
  since there is no least place where they would not (`Least`).

Model-checked only: liveness (fairness and ENABLED are outside the prover).

The amounts of `FlightDeadlock` are the only negative ones TLC sees;
`NeverOversold` and `MutualExclusion` hold of them because no assumption on
`Amounts` beyond being integers is used. `LeastElement`, which the
proofs about hw4 and hw1 use too, says that a set of naturals has a least element, and
that `Min` is it.

## 4. hw4, the scheduler

### Modules

| Module | Models | Correspondence |
|---|---|---|
| `ProcessList` | the list functions of hw4.c | the circular list is the sequence of its pids, the sentinel left out; the status of a node is a function of its pid, NONE without a node; `process_list_src` is one operator per mode |
| `Scheduler` | main, start_process, print, clean, destroy, the handlers, the signals, the children | one action per step between two points where a signal can be handled and make a difference |
| `MCScheduler` | symmetry for TLC | |

A signal handler is not a process: the main program does nothing while a handler
runs, so every step of main has `hpc = "none"` in its guard (`At`).
`sigalrm_handler` blocks SIGCHLD, SIGALRM and SIGUSR1 for its whole run, and the
termination handlers only raise a flag it does not read: it is one step.
`sigchld_handler` unblocks SIGALRM half way, so its steps are separate:
`Reap`, `Unblock` (where a pending SIGALRM is handled), `Raise`, `Block`, `Mark`.
`pending` is a set: that is the coalescing of signals. Of two deliverable
signals the kernel handles the lower number first, SIGALRM before SIGCHLD.

A child is `run`, `stopped`, `doomed` (stopped, with a SIGTERM pending),
`zombie` or `reaped`; signals are functions on these states. Children take the
default action of SIGTERM; one that ignores it would go on running after
TERM has continued it.

`CheckFlag` sets the variables of walks that are over (`at`, `shown`, `target`) to
fixed values: they are dead there, and equal states are found to be equal.
While `process_list_destroy` frees the nodes a handler that walks them finds the
old contents or crashes (`Crashes`): both are possible outcomes of
reading freed memory.

Left out: the parsing of a line, a failing `malloc`, SIGUSR1 (its handler
changes no state; a child it kills is a child that exits), SIGHUP (as
SIGINT), and pid reuse.

### Runs

| Run | Instance | What it shows |
|---|---|---|
| `SchedAny` | 3 children anyone may kill, the timer at any point, spurious SIGCHLDs, SIGINT and SIGTERM | the safety properties: one runner, list and processes agree, nobody outlives QUIT |
| `SchedTurns` | 3 children, one of which may be killed while stopped, the timer not inside SIGCHLD's handler, no SIGCHLD from elsewhere, fair | `TurnComes` |
| `SchedStarve` | 2 children, the timer may expire inside the handler | a waiting process is left with nobody running (section 8) |
| `SchedSpurious` | 2 children, SIGCHLDs from elsewhere, fair | the handler stays in `waitpid` for ever (section 8) |

Three children are the least for which the process that follows, the one that
dies and the one left waiting differ, and for which a listing or a walk has a
middle. The parameters `MayKill`, `TimerRaces`, `Spurious` and `TermSignals` bound
what the environment does; `SchedAny` has them all open. `TimerRaces = FALSE` in
`SchedTurns` is needed: with the timer inside the handler `SomeoneRuns`, and with it `TurnComes`, is false.
So is `Spurious = FALSE`: a SIGCHLD nobody died for leaves the handler waiting with
SIGALRM blocked, and no turn comes (`SchedSpurious`). Termination signals may come any number of
times; one that interrupts the handler's `waitpid` makes it return, one handled just before the
call does not (`WaitpidBlocks`).

Fairness: weak for main and the handlers (the process is scheduled) and for the
timer (alarm expires); strong for the delivery of a signal, because the kernel
delivers a pending signal as soon as it is unblocked, however often it is
blocked again. No fairness for users, and none for children: a child may run
for ever, and still has to give way.

### What is proved

`Scheduler_proofs` begins with what the searches of the list return, and what is left of it
when a node is taken out. It proves, for any set of children, any
environment and every interleaving of the signals:

- `SchedulerTypes`: `Spec => []TypeOK`. `ControlOK` is added to make it inductive: a
  command that has a target has a child for target, a handler that marks has a
  node, walks start at the first position, and SIGCHLD is blocked from the fork
  to the insertion.
- `OneRunnerAlways` and `ListAlwaysMatches`, from one inductive invariant
  `SchedInv`. `OneRunner` alone is not inductive: the insertion needs that a process
  being started has no node yet, and the marking that the node in the handler's
  hands is still unmarked (`StartOK`). `ListMatchesChildren` says nothing of the two
  windows in which list and children differ; `MatchOK` says what holds in them:
  the process being started has begun without a node, the one being marked
  has been reaped with one.

The proof separates the steps that leave the list alone, start nothing and mark
nothing (`QuietStep`), the switches (`SwitchStep`), and five steps that are neither:
`Fork`, `process_list_add`, `CleanNode`, `Reap`, `Mark`. The commands of users are a case of their own.

Three more rest on `SchedInv` and on which signals main has blocked where (`MaskOK`);
with it they are the inductive `ChildrenInv`:

- `StoppedIffWaiting`: `OnlyTheRunnerRuns` with what holds while a process is started
  (`RunnerOK`). SIGALRM may come between the search for a runner and the insertion; it
  leaves a runner where there was one, so the node inserted has the status its
  process is in.
- `OneShown`: a listing takes many steps, and the runner may not change between two of them;
  it does not, because SIGALRM and SIGCHLD are blocked (`ShownOK`).
- `AllChildrenKilled`: while the list is walked nobody in front of the cursor is alive
  (`KillOK`); that nobody else is alive at its end is `ListAlwaysMatches`.

Model-checked only: everything about turns, which is liveness.

## 5. hw4, the test program

`Counter` has one action per access to `counter`: `counter++` is `Load` and
`Store`, the test and the print are two reads, and `sigusr1_handler` may come
between any two. `sigwait` takes the pending SIGALRM (`Wait`). The run `Counter` has
maxima 1, 3 and 4 (odd, even, and the boundary of the half), both block modes,
and up to three SIGUSR1s: two in the first half, blocked, and one after it is
enough to coalesce and to disturb. `Ends` (the program ends, with the maximum on its last line) holds because the signals are finite.
`lines` is history, counted up to one more than the maximum; the first half is
never longer. Fairness: the program is scheduled, the timer goes off.

`Counter_proofs` proves, for any maximum and any number of SIGUSR1s:

- `LinesGoOnByOne`. The invariant `Follows` says where the counter and the register stand
  to the line before at each access: one further, set back, or as printed.
- `FirstHalfUndisturbed`. `HalfIsFirstHalf` shows that the two tests for the half, of odd
  and of even maxima, are one; the invariant `InOrder` counts lines and counter together as long as SIGUSR1
  is blocked.

`Ends` is liveness, and is model-checked only.

## 6. hw2, the archiver

### Modules

| Module | Models | Correspondence |
|---|---|---|
| `ArchiveState` | descriptors, pipes, children, the archive, the parent's table of pids | process 0 is the parent, stage k writes pipe k and reads pipe k - 1 |
| `ArchiveStages` | `dirlist`, `p2archive`, `p2crypt`, `p2unarchive`, `my_read`, `my_write`, `transfer_data` | one action per item read and per item written |
| `ArchiveParent` | hw2.c: `create_encr_archive`, `extract_encr_data`, `wait_all_processes`, `kill_all_children` | one action per fork, per group of closes, and per child waited for |
| `Archiver` | all of them together; the properties | |
| `CopyJob` | what a command promises: the files, one step each, in order, success when all are copied, and which copies may differ from the file | refined by `Archiver` (`Sources`, `Unsteady`, `Whole`, `Copied`, `Spoilt`, `Outcome`) |

The two functions of hw2.c do the same with other pipes and programs; `Plan` holds
what differs: the ends each child closes, the ends the parent closes after
each fork, and the entry of `processes` that is tested for a failed fork.

What travels is an item: a path, or one of the four parts of a record (length,
name, metadata, contents). The cipher passes on what it reads; the directory
is its regular files in some order; stdio's buffer is flushed item by item.
`transfer_data` does not notice END_INPUT of a file that has become shorter and
sends its buffer instead: that is the part "stale", which has the right length and
other contents; only files in `Shrinking` can have one.

A pipe blocks who writes to it while it is full, raises SIGPIPE without a
reader, and ends the input of its reader when it is empty and no process has its
write end any more; descriptors are copied by fork and closed by the end of a
process (`fds`), so who forgets to close which end makes a difference. SIGKILL acts at
once, and `kill` with pid -1 reaches everybody. `p2unarchive` looks for END_INPUT
only before a record: what it does later at the end of its input is
`EndOfRecords`. A name that is cut makes a new file, or names none that can be opened, or is
that of a file restored before, which it writes over.

The archives an extraction may meet are those a create, complete or broken off
anywhere, can leave (`Init`).

### Runs

| Run | Instance | What it shows |
|---|---|---|
| `Archive` | 2 files, pipes of 2 items, any stage may fail or be killed at any point, any call of the parent's may fail, a file may be unreadable and one may shrink | the archive is a sequence of whole records but for the last; only a torn input gives torn files, one at most; nobody mistakes a missing writer for the end of its input; kill hits children only, and leaves none; everybody ends; success means that all was copied, and as it was but for a file that shrank or one of a cut archive |
| `ArchiveKill` | 1 file, the same failures | a reaped child is given to kill (section 8) |

A record has four parts, more than a pipe holds: writers block in the
middle of a record, and readers find half of one. Two files are the least for
which a torn file can be followed by another. Fairness: the parent and every
child are processes that are scheduled; failures are not fair.

`KillsChildren` has an exception for the failed third fork: there the code does call
`kill(-1)` (section 8). `LeavesNoOrphans` has one for `kill_all_children` that
meets a pid already reaped and gives up; `ArchiveKill` shows that it happens.

### What is proved

`Archiver_proofs` proves, for any number of files, pipes of any size, and any set of
stages and calls that fail:

- `KillsOnlyChildren` and `NoOrphans`. They need that, until the parent is done, its
  table names every living child under its own pid, that only a failed third fork can
  be in it (`TableOK`), and, for the parent that reports success, that `waits` counts
  the reaped children (`WaitsOK`): then the last wait is for the last child.
- `StagesEndInOrder`. It needs `PipesOK`: the parent has the write end of a pipe until it
  has forked the writer, and the writer has it as long as it lives. An empty
  pipe nobody can write to then means that the writer has ended.

The inductive invariant is `ArchiveInv`, these with what is needed of the types
(`ControlOK`). Every step moves items only (`QuietStep`), ends a stage (`EndStep`),
gives up (`GiveUpStep`), or is one of the parent's or the exec of a child.
TLC checks `KillsChildren`, `LeavesNoOrphans` and `EndInOrder` in `Archive` as well.

`ArchiveFlow_proofs` proves what travels, under the same freedom:

- `WholeRecordsInOrder`: `ArchiveInOrder`. Between the directory and the archive an item is in
  one of four places: with p2archive, in pipe 2, with p2crypt, in the archive. The
  invariant (`StreamOK`) says that there is a stream W of whole records, one of each readable
  file among the paths read, in order, and that these four are W cut into pieces, oldest first
  (`Chain`). Every write moves an item over one cut; p2archive, taking a path, adds a
  record at the end of W. A stage that breaks off stops the movement and changes nothing in W's order.
- `RestoredButForOne`: `AtMostOneIsTorn`. p2unarchive has read c items, and as long as
  it has met no end inside a record the files restored are those c items say
  (`Intact`). When it meets one, the stage it reads from is gone and it is gone itself: what
  it does then is one step, which spoils one file, and nothing follows. The file is the last
  one, or, when the end comes inside a name, any restored before it: half a name may be the
  name of another file, which `open` without O_EXCL and O_TRUNC writes over.
- `ArchiverTypes`: `TypeOK`.

The inductive invariant is `FlowHolds`: `ArchiveInv`, the types of what travels, how lives
go on (`HowOK`) and `FlowInv`, the two above with what stage 1 still has to send (`InputOK`).

- `CopiesAsTheJob`: `ImplementsJob`. A create is about the readable files of its directory,
  and has copied those whose records are whole in the archive; an extraction is about the whole
  records of its archive, and has copied the files it has filled. A copy is not always the file:
  `transfer_data` reports nothing of a file that shrinks, whose record has a body of the right length
  with other contents (`stale`), and a cut name may write over a file restored before (`spoilt`). The
  job keeps them apart from the others (`Spoilt`): success means that everything was copied, and
  that nothing is spoilt but files that shrank meanwhile (`Unsteady`), or, of an archive that is
  cut (`Whole` is false), one file. The cell that completes
  a record is `Copy`, and the order of the archive says that its file was due
  (`OneMoreCell`); the fourth item p2unarchive reads of a record is `Copy`
  (`RestoredCopies`); the end inside a name may be `Spoil`, the last wait is `Succeed`, and all else is
  no step. That nothing is missing then needs two more invariants: a stage that has ended normally leaves nothing in its
  hand or in the pipe it read (`DrainedOK`), and success is reported only when every stage has
  ended normally (`SuccessOK`); with `FlowInv`, everything has arrived.

Model-checked only: that everybody ends, which is liveness.

## 7. hw1, the object database

### Modules

| Module | Models | Correspondence |
|---|---|---|
| `DbFile` | the format, and what reading it yields: `safe_read`, `read_object_name`, `traverse_object`, the blocks of `transfer_data` | a file is a sequence of bytes; operators on it return the set of possible outcomes |
| `ObjectDb` | hw1.c from `open_database_file` to the menu | one action per object walked over, per write, per block moved |
| `ObjectStore` | named objects, one step per command | refined by `ObjectDb` |
| `ObjectDb_proofs` | theorems (below) | induction by `LeastElement` |
| `MCObjectDb` | constants for TLC | |

The bytes are there because the properties are about them: a record is a name, a
NUL, a size of `SizeBytes` bytes, contents that may hold NULs as well. `Decode` and
`File` are the reference: the objects of a well-formed file, and the file of
some objects. Sizes are signed and of fixed width, as `off_t` is: garbage where a
size is expected gives negative ones too. At the end of the file `safe_read`
returns END_FILE, which the callers' tests for an error let through: their
variable keeps what it held, which at `off_t size` is anything (`SizesAt`).

The database is opened with O_APPEND, so that a write goes to the end whatever
`lseek` has done (`safe_write`, `ShortWrite`); a delete opens the file a second time to
write where it moves to.

Four faults: the program is killed between two steps, the disk is full in the
middle of a write, a write comes out short, the file that is imported shrinks.
After one that has left the file changed half way, or spoilt, `intact` is FALSE,
and the specification goes on: the next commands read what is there.
History variables: `stable` is the file when it was last left alone, `answer`
the last answer; the refinement maps the objects to `Decode(stable)`, so a
command takes effect when it ends.

### Run

`Database`: bytes below 4, sizes of 2 bytes (-8 to 7), blocks of 2, four commands
over three names, one a prefix of another, with contents of 0, 1 and 3 bytes; one
fault at any point. Three names are the least for deleting an object from
between two others; contents of 3 bytes are a block and a remainder, hold a NUL,
and, moved over an object that is shorter than a block, overlap what they are moved to. The
bytes are large enough for the magic number, a NUL, and a letter that is neither.
It shows that the file is well formed whenever it is left intact, that a move
never overwrites what it has yet to read, that a fault spares the objects in front of the one
being changed, that answers are those of a map of names (an export of garbage is no such answer),
and that commands end unless the file is torn.

Fairness: the program goes on with a command (`Program`); nobody has to give one.

### What is proved (`ObjectDb_proofs`)

For bytes, sizes and blocks of any width, any files to import, and any number of
commands and faults (`FormatAssumption`, `DbAssumption`):

- `ObjectDbTypes`: the types, whatever is read from a spoilt file; above all that no
  offset and no length the program goes on with is below zero. The strengthening is
  `DbInv`: what a delete still has to move ends at the end of the file and goes back
  by the object's length (`src = dst + size`); what an import still has to write is
  the end of the pieces of its command, length by length, and once the first
  block is written the file is at least a block long (without which the block
  `SourceShrinks` writes again would not be there).
- `KeepsTheBytes`: while a delete moves the rest of the file, the bytes moved and
  those still to be moved make up the file without the bytes of one object
  (`Cut`), and what is in front of the object is where it was.
- `CutsOneObject`: the step that ends a delete leaves exactly that file.
- `OnlyAppends`: what was in the file stays in front of what is written.
- `FileStaysWellFormed`: whenever the menu is shown and no change has been spoilt, the
  file is, to the last byte, the encoding of what it decodes to, and no name is in it
  twice.
- `MovesLoseNothing`: during a move, what is moved and what is not are together the
  file of the other objects; the one that goes is the one with the name.
- `DatabaseImplementsStore`: every step is a step of `ObjectStore` on the decoded objects, or
  leaves them and the last answer alone: commands take effect once, when they end, and
  answer what the objects say.
- `SparesWhatIsInFront`: whatever spoils a change, the objects in front of the one that is
  changed still decode; when it is an import, all that were there.

The argument has three layers.

1. `FileOK` says of every control point where each byte of the file comes from, without
   decoding any: it is `stable` between commands, has `stable` in front while something
   is written, and during a move is `stable` with a gap closed up to `dst` and
   untouched from `src` on. A block is read where nothing has been written because
   `src = dst + size` and the move goes forward. An object is here what
   `traverse_object` takes for one from where the walk stands (`Traversed`).
   `KeepsTheBytes`, `CutsOneObject` and `OnlyAppends` follow.
2. `Decode` undoes `File`. A length that is an `off_t` is read as it was written
   (`ValueOfField`: the bytes of a field are the digits of the number, and a negative sum
   is one that is too large by `Weight[SizeBytes]`); the blocks of some contents make up
   the contents (`BlocksAre`); `traverse_object` at the start of an encoded object reads its
   name, its length and where the next begins, and nothing else (`TraverseObject`); so
   decoding `File(objs) \o b` gives `objs`, then something that is empty when `b` is
   (`DecodeFile`). `FlattenSeq` and `Decode` are recursive functions, and the library's
   induction theorems take an operator; the inductions here are on the least place
   at which an equation fails (`Least`), which also shows that a function satisfying
   the recursive equation exists.
3. `DataOK`, the inductive invariant: until a change is spoilt, `stable` is
   `File(objs)` for objects with different names that were all imported; a walk stands
   where the k-th of them ends and has met none with the name it looks for (for find: has
   shown those of the k that match); what an import has written and still has to
   write are together one object more; a delete is about an object that is there.
   With layers 1 and 2 every action preserves it, and the four theorems follow: `stable`
   decodes to `objs`, the bytes a delete cuts are those of the object with the name
   (`CutObject`), and a file that begins with `File(objs)` decodes to `objs` first
   (`DecodeStarts`).

Two assumptions carry this. The powers of `Base` are a constant, `Weight`, with the
equations that define them: the provers know nothing of `^`. TLC gets the powers
themselves, and evaluates the assumptions, and `FieldsHoldSizes`: that every field
holds a size and every size fits its field. And a source's contents are no longer
than an `off_t` can say (`DbAssumption`), as those of any file are; names hold no NUL.

`ObjectStore` names the object that is exported or deleted by its place; that there is
at most one with a name is proved of the program, not assumed by the store.

Model-checked only: `CommandsEnd`, which is liveness.

## 8. Where the code does not do what it says

Each is a run whose property states the comment, and which TLC violates.

| Run | Property | What happens |
|---|---|---|
| `FlightDeadlock` | `WaitersAreServed` | A reservation of -1 seats is sent as the int -1, which is BYE: the server closes the connection of an agent that goes on. Its next write raises SIGPIPE inside the critical section, before the `sem_up` of agent.c:357, and the semaphore stays down. |
| `SchedStarve` | `SomeoneRuns` | SIGALRM pending at the unblock of hw4.c:279: two switches lead back to the dead process, which is then marked; nobody runs, and no switch finds a running process again. |
| `SchedSpurious` | `HandlerReturns` | A SIGCHLD another process sends: the comment at hw4.c:266 expects that no node is found and the handler returns, but `waitpid(-1, NULL, 0)` at hw4.c:259 waits while children live, with SIGALRM and SIGCHLD blocked; if the running child does not end by itself there is neither a switch nor a command any more. |
| `ArchiveKill` | `KillSparesTheReaped` | A child ended by a signal stays in `processes` after `waitpid`, against the comment at hw2.c:335; `kill_all_children` gives its pid to `kill`. |

Others the models reach and no run is spent on.

In hw3: an agent that dies before it reads its answer resets the connection, the
server's read fails, and the server ends without `update_file`; a Q typed together
with another line waits in stdio's buffer until more is typed (server.c:508); the
shutdown summary is printed before the amounts still in the sockets are read
(server.c:551); [SUCCESS] may be printed when the file has been written (agent.c:360, after
the amount of 356 was read and the connection closed); an agent that ends before it is answered kills the server by
SIGPIPE (server.c:779, `AnswerKilled`).

In hw4: two deaths may raise one SIGCHLD, and one `waitpid` leaves a zombie; SIGINT
between the test of `termsig_flag` and `fgets` is noticed only after the next
line; a node marked behind the cursor of `process_list_clean` is forgotten until
the next death (hw4.c:212); `process_list_destroy` frees the list with SIGCHLD
unblocked right after children were killed (hw4.c:222, `Crashes`); a -1 stored between
the load and the store of `counter++` is lost (test.c:75).

In hw2: a failed third fork passes the test at hw2.c:162, which looks at the entry
before, and its -1 goes to `kill`; a create that fails leaves the archive behind, and
the next command is refused with exit status 0; an archive broken off inside a
record is extracted to a garbage file with exit status 0; one cut inside a name may write
over a file restored before, since p2unarchive.c:102 opens without O_EXCL and O_TRUNC; a file
that shrinks is archived with what was in the buffer, and success (hw2_functions.c:174).

In hw1: after a short write the bytes already written stay and all are written
again (hw1.c:793); reading a torn file repeats the same short read for ever
(hw1.c:821); an imported file that shrinks is padded with the last block read
(hw1.c:513); deleting a torn last object truncates by a length the file
does not have, and takes bytes of the objects before it (hw1.c:289).

## 9. Sensitivity

Definitions whose comment begins with FAULT are variants of the action or
operator that follows them, changed as a slip in the code would change it. They
are part of no specification; each shows that some property would notice:
replacing the definition by its variant makes TLC report that property.

## 10. What is not modelled

- The cipher of hw2 and its directory walk, which are pure data; the stripping of
  paths, permissions and times of restored files.
- `load_flight_file` and the set-up of shared memory (server.c): sequential, before
  any other process exists; their result is the initial state.
- In hw3, hw4 and hw1, failures of system calls for want of resources, but for a fork
  in the scheduler and a full disk.
- Smaller simplifications. hw3: the three writes of `send_ipc_info` are one step. hw2: a path is never
  cut by a flush of dirlist's stdio buffer. hw1: an export that cannot open or write its
  destination leaves the database alone and is left out; `lseek` never fails with
  EOVERFLOW; `ObjectStore` says that an import stores some known contents under its name, not which.
- Two programs working on the same database file or archive at once. The
  sources open it without a lock and say nothing of it.
- The reading of menus and arguments, and the messages. `main` of hw1 tests a
  variable it may not have set: all that can come of it is that the program ends.
- Liveness and ENABLED are out of the prover's reach; they are model-checked. That hw1
  ends its commands is among them.
