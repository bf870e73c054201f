# A verification project for hello-systems-programming

The repository is a collection of small Unix programs in C: threads, pipes,
FIFOs, sockets, signals, a screen editor and copies of Unix commands. Most of
them share nothing with one another, so the project has one module per program
(or pair of client and server, or family of programs that differ in a few
calls), abstract specifications that some of them implement, and modules that
check several programs in one run.

Lines are those of the files under `src/`; names of variables and operators are
those of the source where TLA+ allows it.

## Inventory

### The programs, their state and their operations

| Program | State | Operations | What is hard | What makes it correct |
|---|---|---|---|---|
| `threads/single_producer_consumer.c` | ring, front, rear, size; a mutex, two condition variables, a flag | put under the lock, take under the lock, wait, signal | lost and spurious wake-ups, wrap-around, the end of the producer | it is a bounded FIFO; no sleeper's condition holds unsignalled; both threads end |
| `threads/greedy_calc_sqrts.c`, `calc_sqrts.c` | a shared counter, an array of roots | draw an index under the mutex, store outside of it | two-step increment, stores that nobody orders, no bounds test in the second | each index is stored once, in bounds, and none is missing |
| `threads/reader_writer_locks.c` | barrier, read-write lock, flag `done` | rounds of lock, work, unlock | creation in turns, an unprotected flag | nobody starts early, everybody ends after the user quits |
| `threads/barrier_sync.c` | `sum[]`, a barrier | add own segment, halve, add partner's cell | reads of a cell another thread writes, odd halves, uneven segments | no race; the total is that of the array; all are joined |
| `threads/inner_product/inner_product.c` | two vectors, a total, a mutex | read files, multiply a segment, add | two-step update, segments rounded up, short and long files | the total is the inner product of what the files hold |
| `processes/rabbits2.c` | pid and status in globals, a flag, a counter | fork, handle SIGCHLD, poll the flag | merged signals, signals of children that are stopped, nested handlers, unset `sa_flags` | the handler waits for a child that has died, and keeps its status with its pid; the parent gets to its end |
| `pipes/pipe_demo_3/pipe_demo_3.c` | a pipe, two writers, SIGUSR1 | pause, write lines, read pieces, wait | two writers, reads that cut lines, a signal before `pause` | lines stay whole; the output is complete; signalled children write |
| `pipes/upcase/*_1.*` | a public FIFO, one private FIFO per client, descriptors | create, open, write, read, retry, close, signal | blocking opens, end of file, retries that give up, restarts | replies go to those who asked, for what they asked; waiting ends |
| `misc/simplevi/simplevi.c` | text, table of lines, two cursors, a window | insert, move, command line | two views of one place kept in step by hand, wrapped lines, limits | the table describes the text; the cursors agree; commands do as they say |
| `pipes/upcase/*_2.*` | a public FIFO, two FIFOs and a child per client, the server's process id | create, open, fork, reap, retry, be interrupted | handlers inherited by children, merged deaths, a signal before the id is known | the name leads to a server that reads it and goes with it; children are reaped; nobody tries for ever |
| `sockets/upcase/*_3.c` | connections, a child for each, two inputs per client | accept, fork, reap, select, half-close | handler and loop interleave, an end of input with lines on their way, children killed | replies in order and complete; children are reaped; clients end |
| `threads/recursive_mutex.c` | a counter, a mutex whose attributes nothing initialises | `foo` locks and calls `bar`, which locks again | which kind of mutex it is | two counts per thread, one after the other; all end |
| `pipes/sh_pipe_1..3.c`, `pipe_demo_1/2.c`, `redirect_out.c` | a pipe, the descriptors of each process | pipe, fork, dup, close, exec, wait, popen | a copy of the write end that somebody keeps | what the first command writes the second reads, in order; all end |
| `pipes/rev_fifo_1/` | a public FIFO with two ends at the server | create, open twice, read, write, be interrupted | several writers, reads that take several messages, ends that come and go | messages are printed in order and whole; the name goes with the server |
| `sockets/sock_demo_*_1.*` | connections, a child for each | accept, fork, reap, echo a character, SIGPIPE | merged deaths, children that outlive the server, ends that break | each character comes back once; children are reaped; clients end |
| `pipes/upcase/select_demo.c` | three pipes, a child each | pipe, fork, close one end, select | which ends are closed, and who inherits them | children die one after the other, and none is left |
| `misc/sigaction_demo`, `signal_demo`, `procmask_demo.c` | dispositions, masks, nested handlers | install, block, raise, handle | flags combined at will, signals inside of handlers | a demo ends, nests and blocks as its command line says |
| `processes/fork_demo_1..3.c` | a buffer per process | print, fork, flush | the buffer is copied with the process | everything is written as often as the buffers say |
| `processes/wait_demo_1.c`, `waitpid_demo.c`, `waitid_demo.c` | the child's last change | wait, poll, report | changes that overtake one another | reports are true, in order, and the end is reported |
| `pipes/pipe_size_test.c` | count, full, a blocked write, an alarm | write, read, handle SIGALRM | an alarm that comes early | the numbers printed are those of the pipe |
| `processes/synch_demo_1/2.c` | one or two signals, a file position | pause, signal, write, wait | signals before the handler or the pause | work starts after the signal; both end; lines do not overwrite each other |
| `who_copy_v5` | a buffer of records and a place in it | fill, take | the file changes, the last fill is short | whoever is logged in all along is listed once |
| `who_copy_v3/v4`, `write_copy` | one record, a place in the file | read, seek back, write; look up, send | the record changes after it was read | lists are complete; others' records are kept; messages go whole to who was named |
| `cp_copy_v1..v3` | two files | read, write; map, copy | the disk fills, the source grows, both are one file | a success means that all of it was copied |
| `ls_copy_v1..v3`, `ls_fts` | a directory stream, the arguments | open, read, stat | entries come and go | whatever is there all along is listed once, with its own status |
| `more_copy` | lines left on the screen, keys typed ahead | show, ask | a counter that must come to exactly 0 | the prompt comes after as many lines as were asked for |
| `du_copy_v1` | a sum per level, the previous level | visit | which level a sum belongs to, several trees | sizes printed fit the tree |
| `pwd_copy_v1/v2` | where it is, names to be written | climb, look up, write | mount points, links, the root | the path leads back |
| `non_block_demo` | dots, a key, the terminal's flags | draw, read | a read that finds nothing, a write that fails | dots stay above the menu, the flags are given back |
| the rest | | one call each, or formatting | | not modelled, see below |

Where programs interact, they do so through the kernel: a FIFO, a pipe, a
signal, a wait. The kernel's part is modelled from how the code uses it, and
those definitions are marked external in the map.

### Hazards

`PROJECT.json` lists the hazards with their lines and the properties that watch
them. Two have none: that a colon makes `simplevi` insert in another place, and
that `non_block_demo` obeys a key again; the models do it as the code does (see
the disagreements below), and nothing that is checked forbids it. The hazards
fall in six groups: two-step updates of shared memory
(square roots, inner product, the handler's pid and status); orders between
processes that nothing enforces (a signal before `pause`, a death before the
handler, an alarm before the write has blocked, a client that opens its FIFO
after the server's last try); barriers, conditions and ends of pipes that must
let everybody through in the end; signals and changes of state that merge;
files that change while they are read or written; and bookkeeping kept twice in
the editor.

## Modules

| Module | Models | State and actions |
|---|---|---|
| `BoundedFifo` | the promise of the ring: first in, first out, at most BufferSize inside | `Put`, `Get` |
| `ProducerConsumer` | `single_producer_consumer.c` | one action per critical step of each thread; `pthread_cond_wait` is falling asleep, waking (also spuriously) and taking the mutex again; `SignalAndGoto` wakes a sleeper |
| `SharedCounter` | the promise of both square-root programs: indices are claimed once, in order, and stored later in any order | `Claim`, `Store` |
| `GreedySquareRoots`, `SquareRoots` | the two programs | the increment is a read and a write; the store is a step of its own |
| `ReaderWriterLocks` | the program of that name | one `Thread` for both kinds, since the writer takes the lock for reading (l.100) |
| `Segments` | how `barrier_sync.c` and `inner_product.c` divide an array | `segment_size`, `first`, `last` |
| `BarrierSync`, `InnerProduct` | the two programs | each read-modify-write of the total, each cell of the reduction is a step |
| `Rabbits` | `rabbits2.c` with the kernel's pending signal and zombies | `frames` is the stack of handlers that interrupt main or each other; main tests `status` twice, and the handler may run in between; children die, and are stopped and continued (`StopOrContinue`), which raises SIGCHLD as well unless `sa_flags` happens to have SA_NOCLDSTOP: the handler's `wait` then blocks, fails, or takes the zombie of another signal |
| `PipeDemo3` | `pipe_demo_3.c` with a pipe of bounded capacity | writes of up to PIPE_BUF are one step, longer ones come in any pieces; reads take any part |
| `Upcase1` | server and client of version 1, and their FIFOs | FIFOs exist apart from their names, by generation; the server may be stopped, killed and started again; clients may be interrupted anywhere |
| `Upcase2` | server and client of version 2 | FIFOs as in `Upcase1`; a child is named by its client; the handlers of the parent and those the children inherit are actions of their own |
| `SocketUpcase` | `sock_demo_server_3.c`, `sock_demo_client_3.c` | a connection is two bounded channels and who has its ends open; `buffered` is what stdio has read and `select` does not see; a reset is what the kernel makes of an end closed on unread lines |
| `Stream` | the promise of pipes, FIFOs and connections: what comes out went in, in order, and a reader that finishes has it all | `Send`, `Receive`, `Close`; the reader may `Finish` or `Leave` |
| `Pipelines` | six programs with a pipe between two processes | a process is the list of its remaining calls; one action per kind of call, on the kernel's descriptors and pipe |
| `RevFifo` | `rev_fifo_1.c`, `send_fifo_1.c` | a read takes as many messages as there are and fit |
| `SockDemo1` | `sock_demo_server_1.c`, `sock_demo_client_1.c` | characters on their way in each direction, handlers of SIGCHLD and SIGPIPE, deaths of anybody |
| `SelectDemo` | `select_demo.c` | who holds which end: pipes are made while earlier children already run |
| `SignalDemos` | five programs that catch signals | main is the list of its remaining calls; `frames` is the stack of handlers |
| `ForkDemos` | `fork_demo_1` to `fork_demo_3` | processes by their path of forks, a buffer for each; a fork may fail |
| `WaitDemos` | `wait_demo_1`, `waitpid_demo`, `waitid_demo` | the kernel keeps the last change only |
| `PipeSizeTest` | `pipe_size_test.c` | bytes in pages; `prompt` says whether every call but a blocked write is quicker than the alarm |
| `SynchDemos` | `synch_demo_1`, `synch_demo_2` | sleeps are steps of any length; two processes on one file position |
| `CpCopy` | `cp_copy_v1` to `cp_copy_v3` | bytes are their places in the source; `Appended` is what others do, and so is the disk's space |
| `LsCopy` | `ls_copy_v1` to `ls_copy_v3`, `ls_fts` | one action per entry; `Change` is what others do |
| `UtmpRecords` | `who_copy_v3`, `who_copy_v4`, both versions of `write_copy` | one action per record, per line typed, per return; `LogIn`, `LogOut` are others' |
| `RecursiveMutex` | `recursive_mutex.c` | `kind` is what the uninitialised attributes make of the mutex |
| `UtmpReader` | `utmp_utils.h` and main of `who_copy_v5.c` | one action per call of the reader; `LogIn` and `LogOut` are other programs |
| `MoreCopy` | `more_copy.c` | lines are shown one by one, each counted as one, as the code does; keys are in the terminal or in a file's stream on it |
| `DuCopy` | `du_copy_v1.c` | one action per node of a tree that grows as it is walked; `used` is what the tree really uses |
| `PwdCopy` | `pwd_copy_v1.c`, `pwd_copy_v2.c` | `frames` is the stack of calls; file systems are chosen in the initial state |
| `NonBlock` | `non_block_demo.c` | a round is drawing and reading; `ch` keeps its last value; a write may fail, and its dot is counted all the same |
| `ParseLastline` | `parse_lastline`: the automaton | a pure operator |
| `LastLine` | `do_lastline_mode`, key by key | `TypeCharacter`, `Erase`, `Enter` |
| `SimpleVi` | the editor, key by key | one action per key; insertion and drawing are one step as in `handle_insertion` |
| `MCThreads`, `MCProcesses`, `MCTools` | instances for TLC; each chooses one program (or part) in the initial state | what the others need is left `Unused` |
| `ProducerConsumerProofs`, `Upcase1Proofs` | theorems about `ProducerConsumer` and `Upcase1`, and their proofs | `Segments` holds its own |
| `ThreadsProofs`, `PipesProofs`, `ProcessesProofs` | theorems about what `MCThreads` and `MCProcesses` check, and their proofs | an invariant for each program; `PipesProofs` has those of programs on pipes, `ProcessesProofs` extends it with the others and the theorems |
| `SimpleViProofs`, `ToolsProofs` | theorems about what `MCTools` checks, and their proofs | `SimpleViProofs` has the prompt and the editor, `ToolsProofs` extends it with the commands and the theorems |

How they compose. The `INSTANCE`s of one abstract specification are what shows
that programs keep the same promise: `SharedCounter` for both square-root
programs, `Stream` for `Pipelines`, `RevFifo`, `SockDemo1` and `SocketUpcase`
(each defines what its streams are, and `MCProcesses` checks `StreamsArrive`
for whichever runs), `BoundedFifo` for the ring. In `MCThreads`, `MCProcesses`
and `MCTools` an initial state chooses a program; the smaller programs of
`MCProcesses` share the variables `d1` to `d8` through `INSTANCE ... WITH`.

Notable choices. Values of square roots, of log entries and of characters are
left out where no property looks at them. A variable the code reads without
having written it is an arbitrary value: `sa_flags` in `rabbits2.c` and in the
clients, `attr` in `recursive_mutex.c`, `status` of an erased prompt, the
character behind the text that `line_in_buffer` looks at. In the editor a NUL
typed at the prompt and what is drawn are left out; writing to `text[-1]` (see
below) is modelled by what it does to the buffer, not to the memory before it.
A `fork`, `sigaction` or `pthread_create` that fails ends its program at once and is
left out, except in the fork demos, where its buffer is written as it ends. `done` in
`reader_writer_locks.c` is an unprotected flag; it is taken to be read afresh
each round, as the library calls in the loop force a compiler to do. A `sleep`
is a step that takes as long as it likes: none of the programs is safe because
one sleep is longer than another.

In version 2 of the upcase service text never gets to the server (see below), so
what a child's loop does with text is left out, and with it the retries at the
client's other FIFO. Over sockets a line travels in one piece and is never lost;
the server listens before the first client comes. The bytes of its port are in
the machine's order and those of the client's request in the network's:
`network_order` says whether these are the same, and where they are not no
client finds the server. In `PwdCopy` nobody renames directories during the
climb, and in `MoreCopy` the window keeps its size. `LsCopy` has one name for one
entry in each directory, so an `lstat` in the wrong directory may find another
entry of that name.

## Runs

| Run | Shows | Bounds and why they are enough |
|---|---|---|
| `ProducerConsumer` | no lost, overwritten or repeated number; no missed signal; the program is a bounded FIFO; both threads end | a ring of 3 and 7 numbers: both ends wrap around twice, the ring is full and empty in many interleavings |
| `MCThreads` | `AllRootsStored`: each index is claimed once and stored in bounds, and all roots are there at the end, in both programs; `ImplementsCounter`: both implement a shared counter; `BarriersHold`: no head start in `reader_writer_locks`, no race in the reduction; `TotalsAreRight`: in `barrier_sync`, `inner_product` and `recursive_mutex`; `Terminates`: all six end (`recursive_mutex` unless its mutex is a normal one) | 3 threads and 6 roots, 2 for each thread in `calc_sqrts`: in the greedy one a thread may take all and all may overshoot; 2 readers and 2 writers; 6 cells (halved to 3 and 1, one left over); 5 elements for 4 threads (segments 2, 2, 1, 0) and files shorter and longer than the vectors; 2 threads in `foo` and `bar`, so that one waits for the other at each place |
| `MCProcesses` | `HandlersAreSafe`: the handler of `rabbits2` waits without a zombie only as often as children were stopped or continued, whatever `sa_flags` are (but SA_NOCLDWAIT, which leaves no zombies), and without SA_NODEFER pid and status are of one child; `LinesAreWhole`, `OutputComplete`: the lines of `pipe_demo_3`; `ActsAfterSignal`: no child of `pipe_demo_3` or `synch_demo_1` works before its signal; `NameKept`: the public name of `Upcase2` stays while the server runs, whatever its children are told; `KilledLastFirst`: what becomes of the children of `select_demo`; `SignalsFollowFlags`: the demos of signals do what the flags that are set ask for, where `restart` sets that of `noblock`; `OutputOnce` and `ReportsAreTrue`: the demos of forks, waits and of the pipe's size; `StreamsArrive`: the refinement of `Stream`; `ServicesSettle`: children are reaped, and whoever has nothing more to wait for has ended | 3 children, so that two deaths merge while a third is reaped, and one stop; lines of 3 bytes, room for 5, reads of 2; 2 clients of each service, so that two deaths merge; 2 starts of the server, 2 tries, room for one message; one connection in the queue, one line in each direction, 2 lines typed, one child killed; 2 characters for `sock_demo_1`; 4 lines into a pipe for 3 with reads of 2, so that writers wait and reads leave a rest; 4 messages of 2 clients through a FIFO for 3; 3 signals and 2 rounds, so that a handler interrupts a handler that interrupts main; 2 forks of each process; exit codes 3 and 259, which are the same to the kernel; 2 pages of 2 bytes, so that the first page is freed in two steps; 3 lines of each process of the synch demos |
| `Upcase1` | replies match requests (`RepliesMatch`); from its `mkfifo` until it is stopped, a server lets in whoever comes (`ServiceIsOpen`); a client that waits for a running server gets its reply or was given up (`WaitingEnds`) | 2 clients, lines of 2 pieces, 2 starts, so that a server is killed with messages in its FIFO and another is started, 2 tries, room for one message |
| `MCTools` | the editor: no character is lost from the table of lines (`AllCharactersCounted`), an edit keeps table and cursors right (`EditsKeepTable`), cursor arithmetic agrees with `get_cursor_at` (`CursorFollows`), and command lines do what they say (`CommandsAreObeyed`, which also says that `write_copy` sends whole messages to who was named); `ListsAreComplete`: `who` in versions 3 and 5 and all four versions of `ls` list what is there all along, once (`ls_copy_v2` in its working directory only), and `who_copy_v4` writes to the record of its terminal only, and not if its user has been there since before; `CopyIsTrue`: `cp` reports a success only for a true copy; `AsksForEachPage`: `more_copy` asks when it has shown as many lines as were asked for, neither later nor earlier; `du_copy_v1`: sizes never too large, and right where no node comes right after one of its level; `pwd_copy`: the path leads back; `ScreenIsKept`: the dots of `non_block_demo` stay above its menu and are no more than it says, and the terminal's flags are given back | 4 characters in 2 rows of 2 columns and 3 lines: wrapping, scrolling, splitting in the middle, both limits; command lines of 5 characters; 5 records and a buffer of 2; 2 terminals, 2 users and 2 lines typed; 2 directories of 2 names, the same in both, and 2 changes; up to 4 bytes in pieces of 2, and disks with room for none to all; files of 0, 1, 4 and 5 lines on screens of 2, 2 files; 7 nodes on 4 levels; all trees of 4 directories on 2 devices with up to one link, which leads anywhere or nowhere; 4 dots |
| `RabbitsRest` | a disagreement: main is told of a death and never counts it, so that it does not get to its last line (l.100-104, 111) | 1 child, which nobody stops; the property is about a death that the handler has reported |
| `PipeDemo3Signal` | a disagreement: a child signalled before it pauses sleeps for ever (l.98) | one line of 3 bytes for each child, a pipe for one line |
| `BarrierSyncJoin` | a disagreement: with uneven segments a thread waits for ever at the barrier (l.59) | smallest uneven division |
| `Upcase1WholeLine` | a disagreement: the last character of every full piece is never sent (client, l.116-118): a client that went through its line with a running server has printed less than it read | one client, lines of 1 to 3 characters, one start; a server that was stopped or gave the client up is excluded |
| `SigactionRestart` | a disagreement: with `restart` alone SIGINT interrupts its own handler (`sigaction_demo_v2.c`, l.15, 61) | 1 round, 3 signals |
| `Upcase2Name` | a disagreement: a server that is interrupted before it has stored its process id leaves the public name (l.39, 112-118, 218) | 2 clients |
| `SimpleViIndex` | a disagreement: `Enter`, up, down, up makes the index of the text -1, so the next character is stored in front of it (l.905-930, 591) | as `MCTools`, without commands |

Deadlock is checked except where the program really may stop: `MCProcesses` (a
child that missed its signal, programs that have ended), `Upcase1`
(everyone gone, or waiting for a server that nobody starts), `MCTools` (the
commands come to their end, or wait for a user who types no more) and the runs
that show a disagreement.

MaxTop bounds how far the
editor's window is scrolled: `move_right` adds to `line_at_top` without moving
the cursor's row, and can do so for ever. MaxCommand bounds a command line, for
which the code has no bound. MaxStarts, MaxLine, MaxTyped, MaxReplies and
MaxKeys bound what an administrator and a user do, MaxChars and MaxMessages what
they send, MaxRaised and MaxStops the signals they send, MaxKilled how many
children somebody kills, MaxRecords, MaxNodes and MaxBytes the files that are read,
walked and copied, MaxChanges what others do to directories, MaxSpace the disk,
Rounds, Writes and MaxCounter how often a loop that has no end, or a long one,
is gone through.

### Fairness

Threads and processes that can run do run: weak fairness of each thread's next
step. A mutex or a condition variable is not assumed to be fair to any one
thread, beyond what termination needs: in `ProducerConsumer` weak fairness is
enough because each thread blocks the other when the ring is full or empty. In
`MCThreads` the assumption is weaker still: some thread runs. In `MCProcesses`
the parent (`MainProcess`), each child (`ChildProcess`) and each client
(`ClientProcess`) take their steps. Nobody is assumed to type, to interrupt, to
stop, to kill or to start a server.
`ServicesSettle` has the form <>[] since ends and deaths are for good: it says
that each death is followed by a wait, and each end by the ends it calls for. In
version 2 of the upcase service a child may wait for ever, but only for a client
that has given up or was interrupted (`Settled`). `synch_demo_1` may hang where
its signal comes before the child's pause; `SynchSettled` says that it hangs
nowhere else. `WaitingEnds` asks for a server that reads the FIFO in which the
client's message is: a message that lies in the FIFO of a server that was killed
is lost, and its client waits for ever, whatever server is started next. It
exempts the client that was given up, which waits for ever, too. The children of
`rabbits2` die in the end unless they are stopped: nobody has to continue them.

## Proofs

For every buffer size and number of iterations (`SizesAssumption`: BufferSize
and NumIterations positive), `ProducerConsumerProofs` proves `TypeOK`,
`RingHoldsUnread`, `NoMissedSignal`, `ConsumerNeverCutShort` and the refinement
of `BoundedFifo`. The inductive invariant `IInv` adds to these who holds the
mutex (`MutexInv`), where each thread can be (`PcInv`), how the loop variables
relate to what was added and taken (`ProducedInv`, `WantedInv`) and that rear
follows front at the distance of the size (`RearInv`): `RingHoldsUnread` alone
is not inductive, since adding is right only if rear is the first free cell and
the thread that adds found room under the mutex it still holds. Steps that do
not touch the ring are dealt with in one lemma, `ControlStepIInv`; `AddIInv` and
`GetIInv` rest on four lemmas on wrapping around (`Wrap...`).

`Segments` proves that the segments of any array for any number of threads cover
it, do not overlap and stay inside, which is why `InnerProduct` adds each product
once.

`ThreadsProofs`, `PipesProofs`, `ProcessesProofs`, `SimpleViProofs` and
`ToolsProofs`: in `MCThreads`, `MCProcesses` and `MCTools` one program runs, so a
property of theirs says of each program what it has to keep. The proofs follow:
each program has an invariant of its own, proved from the definitions of its
module; the invariant of the whole says that the program that runs is in its own;
and the lemma `OneProgram` says that a step of the whole is one of that program.
The only assumptions are the named ones on the constants (`AllSizes` in each of
the three): sizes are positive, a line fits into PIPE_BUF, nobody's name is the
one that stands for an empty record, and so on.

### Threads

| Theorem | For all | Inductive invariant and why it is needed |
|---|---|---|
| `RootsAreStored` (`AllRootsStored`), `DrawingIsClaiming` (`ImplementsCounter`) | threads, roots | `GreedyInv`: who holds the mutex, what each thread has drawn, and that a thread that has exited saw the counter past the end. In `calc_sqrts` (`CalcInv`) no thread looks at the end: that no index is out of bounds follows from counting. What was drawn so far are pairs of a thread and its how-manieth root (`Drawn`), and there are as many of them as the counter says; a set with NumThreads times nums_to_compute elements has no room for more |
| `BarriersAreRespected` (`BarriersHold`) | readers and writers; threads of `barrier_sync` with one element each | `LocksInv`: who has arrived at the barrier. `BarrierInv`: how many cells take part when a thread next comes to the barrier (`Cells`) is the same for all threads, so no two are in different rounds of halving (`SameRound`) |
| `CountsInTurn` | threads of `foo` and `bar` | if the mutex is recursive, the counter is twice the number of threads that have added both of their numbers, and one more while a thread has added its first (`MutexCounter`), and no two threads have the same first number (`MutexDistinct`) |

`BarriersAreRespected` assumes `SumSize = SumThreads`, since `ReductionRaceFree`
is stated for one element per thread. `barrier_sync.c` runs the reduction once
per element of a segment, so with longer segments a thread adds to its cell
while others reduce, and with uneven ones the program hangs (the run
`BarrierSyncJoin`). `MCThreads` has 6 threads and 6 elements.

### Version 1 of the upcase service

`Upcase1Proofs` has `TypesAreKept` (`TypeOK`), `NobodyIsTurnedAway` (`ServiceIsOpen`)
and `RepliesAreTheirs` (`RepliesMatch`), for any clients, lines and capacities.
That a client has printed pieces of its own line in order says nothing of what
is on its way to it. `Replies` follows what belongs to one client: a message in
the public FIFO, in the hands of the server or in the private FIFO is the piece
that the client waits for, there is at most one, and what was printed before is
all that was due (`Expected`). It is claimed for a client whose calls are
restarted, as the property is. An interrupted server, a second server and the
private FIFO that the server still has open from before are where the steps are
not obvious.

### Processes

| Theorem | Program | Inductive invariant and why it is needed |
|---|---|---|
| `WaitsAccounted` (`HandlersAreSafe`) | `rabbits2` | activations of the handler that have yet to wait, and the pending signal, are not more than the zombies and the stops and continuations so far (`RabbitZombies`), whatever the flags and however handlers nest; with SIGCHLD blocked in the handler one activation at most, and pid and status are of the child it took, or `wait` has failed (`RabbitStatus`) |
| `LinesComeOutWhole` (`LinesAreWhole`), `ChildrenWaitForSignals` (`ActsAfterSignal`) | `pipe_demo_3`, `synch_demo_1` | the output and the pipe together are whole lines, wherever a read has cut them: the byte in place j is the first of its line, in place m * ((j - 1) div m) + 1 (`PipeWhole`; the lemmas on div and mod are proved from what the provers know of them); a child that was not signalled has none of it (`PipeSilent`); the parent counts its notice before the child can catch it (`SynchNotice`) |
| `ServerIsFound` (`NameKept`) | `upcase_2` | the public name is that of the last FIFO that was made, or gone |
| `PipesStayOpen` (`KilledLastFirst`) | `select_demo` | a child has the read end of every pipe made before its own (`SelectHolds`), so SIGPIPE cannot reach a child before the later ones have ended |
| `SignalsDoAsFlagged` (`SignalsFollowFlags`) | five demonstrations | the property is about what signals have done; the invariant is about what they would do: a signal whose action is still the default is one that main has yet to catch or ignore, never does, or had reset (`SignalHandled`), and `procmask_demo` has SIGINT blocked from its first call to the one that unblocks it (`SignalMask`) |
| `WhatIsSaidIsTrue` (`ReportsAreTrue`) | wait demonstrations, `pipe_size_test` | `WaitReports`: each report is the last change at its time, so later than those before. `SizeFilling`, `SizePrompt`: the count is of the bytes in the pages, or one behind, and which pages are full in each part of the test |
| `FifoIsAStream` | `rev_fifo_1` | what was sent is what was printed and then what the FIFO holds; each step is a send, a receive or the end of a `Stream`, or stutters |

### Commands and editor

| Theorem | Program | Inductive invariant and why it is needed |
|---|---|---|
| `MoreAsksInTime` (`AsksForEachPage`) | `more_copy` | `MoreInv`: the lines shown since the prompt and those that may still be shown are those that were asked for; the property is about the first only |
| `DotsStayOnScreen` (`ScreenIsKept`) | `non_block_demo` | `ScreenInv`: the property, and that the dots are bounded also once the program has ended |
| `TotalsNeverOver` (`UsageNeverOver`) | `du_copy_v1` | `DuInv`: at each level what is counted is at most what is used, and nothing is left below the last node; the tree may have any shape and depth |
| `SuccessIsACopy` (`CopyIsTrue`) | `cp_copy_v1` to `v3` | `CpInv`: the destination is the source up to the file offset, less what the buffer holds |
| `NobodyIsLeftOut` (`ListsAreComplete`) | `who`, `ls` | `WhoInv`: whoever stays is in the list (`Listing`), in the part of the buffer that was not looked at, or behind it, for a buffer of any size; `RecordsInv`: the same without a buffer. `LsInv`: what was returned and stays is on a line or about to be (`DirsInv`, `LinesInv`) |
| `CommandsDoAsTold` (`CommandsAreObeyed`) | prompt of `simplevi`, `who_copy_v4`, `write_copy` | `PromptInv`: the result is that of the line. That the automaton accepts the commands and no other line, however long, is a lemma per state: what it has read, given that it is in that state. `RecordsInv`: `logout` is about to mark a record of its terminal, `write` has not passed anybody whom it is looking for |
| `LengthsAddUp` (`AllCharactersCounted`) | `simplevi` | `EditorInv`: the lengths sum up to the text, and the cursor is on a line and within it, else a split would make a length negative |
| `TableStaysTrue` (`EditsKeepTable`) | `simplevi` | `BehindInv`: only on the last line is the cursor behind the last character; on any other, an insertion would come after the newline. `Fits` says what the property says of the table with sums in place of `CharactersBefore`; the newlines of the text are counted by a bijection with those of the text that was there before |
| `CursorGoesAlong` (`CursorFollows`) | `simplevi` | `ViewInv`: the window's top is a line, and line 0 starts at 0. The rest is arithmetic on rows of wrapped lines (`Place`: quotient and remainder by the columns), in all cases of scrolling, wrapping and clipping |
| `TypesOfTools` (`TypeOK`) | all ten | `ToolsTypes`, beside the invariants above: `BoundsInv` (the column of the cursor is always that of its place in its line, also where its row is not, else `move_left` could leave the screen at the left), `LsBounds` (an entry of fts without a status stops the listing, so that none is left in the next directory's), `CpBounds` (the destination has one byte more than the source at most, in version 3 of an empty file), `PwdTypes` (the names on the way up come from the listings, and `height` is that of the stack) |

The sums over lines and the automaton's fold are recursive functions. The
library's induction theorems have an operator as a parameter, which the provers
cannot instantiate, so what is said of all their arguments is proved by the least
counterexample: a set of numbers that is not empty has a least member (`Least`,
from the library's theorem that the order of the numbers is well founded), so a
set that has 0, and k + 1 with each k, has them all (`UpTo`). That such a
function exists at all is a lemma of its own (`FoldFound`, `SumFound`), proved in
the same way: functions on 0 .. n extend to 0 .. n + 1.

Before they were proved, the invariants of this section and the two before it were
checked by TLC on the instances of the runs. The proofs are about the definitions
as they stand, in all branches: alternatives of a CASE in `PipeSizeTest`,
`SynchDemos` and `SocketUpcase`, of which TLC takes the first that applies, had to
be made exclusive for them. Names had to be told apart from the empty record's
(`RecordsAssumption`): a user called "none" would be logged out by his own record.

### Only model-checked

- Liveness (`Terminates`, `ServicesSettle`, `WaitingEnds`), and whatever is
  about ENABLED.
- The totals of `barrier_sync`, `inner_product` and `recursive_mutex`
  (`TotalsAreRight`, and with it `TypeOK` of `MCThreads`): sums over trees of cells
  and over sets of threads. The order of each process's lines in what several have
  written (`OutputComplete`, `OutputOnce`), which takes what `SelectSeq` computes,
  and the lines a client of `SocketUpcase` has printed, so `StreamsArrive` for that
  program. These would take inductions as in the editor, and were not tried.
- `StreamsArrive` for `Pipelines` and `SockDemo1`, `TypeOK` of `MCProcesses` (where
  a theorem above needs the types of a program they are in its invariant), and
  `PathLeadsBack`: not proved.

## Disagreements without a run

Met while modelling, kept in the models, but not checked by a run of their own:

Threads and processes:

- `single_producer_consumer.c:92`: the consumer's loop ends one iteration before
  the producer's, so one number stays in the ring.
- `greedy_calc_sqrts.c:62,72`: `tid` is a local variable that nothing sets, so
  threads do not get the unique ids that line 68 announces.
- `reader_writer_locks.c:100`: the writer takes the lock for reading, so it is in
  it together with readers and other writers. What they do there is to sleep, so
  nothing else goes wrong, and the model has one kind of thread.
- `barrier_sync.c:54-73`: with several elements per thread the reduction is run
  once per element, and the total is wrong where it does not hang.
- `recursive_mutex.c:47-50`: the attributes are never initialised, so the mutex
  need not be recursive; a normal one stops the first thread in `bar`.
- `wait_demo_1.c`: the child's number is reported modulo 256.
- `synch_demo_2.c:2`: the two processes need not go in lockstep: each goes on when
  its sleep ends, whether a signal ended it or not.
- `rabbits2.c:5`: the handler's `wait` is not "guaranteed to succeed": a child that
  is stopped or continued raises SIGCHLD too, as nothing sets `sa_flags`, and
  `wait` then blocks until another dies or, interrupted or with no child left,
  fails and leaves `child_status` unset. With SA_NODEFER in the unset flags, main may
  see the pid of one child with the status of another.

Pipes and sockets:

- `sh_pipe_2.c:55`: `defautt:` is a label that nothing goes to, so the parent
  neither closes its ends nor waits, and ends before its children.
- `pipe_demo_1.c:36-46`: the parent reads once, and whatever was not there by
  then is never printed.
- `send_fifo_1.c:26`: an empty line, or the beginning of "quit", quits. Without a
  server the client is killed by SIGPIPE and does not get to its message (l.31);
  after the end of its input it writes nothing, for ever.
- `select_demo.c:54-56`: of pipe i its end i is closed, so `select` fails at once.
- `pipe_size_test.c:54`: if the alarm comes before the write has blocked, the
  program waits for ever or its count is wrong.
- `sock_demo_server_1.c:36-38`: the handler of SIGPIPE is there "to keep it alive", and
  ends the process that gets the signal.
- `upcase_client_1.c:84-90`: a client that cannot open the public FIFO leaves its
  private FIFO behind; `on_sigpipe` is never registered.
- `upcase_client_2.c:148`: `raw_text_fd = open(...) == -1` assigns the outcome of
  the comparison, so chunks are written to descriptor 0 and never get to the
  server, which line 16 says they do; the last of the tries is a failure even if
  it succeeds (l.154; `upcase_server_2.c:165` likewise).
- `upcase_server_2.c:130`: the client has not "opened raw_text_fd for writing
  before sending the message", so a child may wait for ever for a client that
  gave up; `upcase_server_2.c:196`: the log's stream is taken for a format.
- `sock_demo_server_3.c:36`: the port is not converted to the network's order, and
  the client's is (l.46-49): on most machines they never meet.
- `sock_demo_client_3.c:98`: `select` does not see lines that stdio holds, so they
  wait until there is more to read; a child that is killed after the input has
  ended makes the client return as if all were well.
- `more_copy.c:88`: QUIT does not "terminate program" (l.18): the rest of the file
  is shown without asking. A page has as many lines as the screen has rows, so its
  first line is gone when the prompt comes, and more of them if lines are longer
  than a row (l.96-100).
- `du_copy_v1.c:56`: a file that comes right after another of its level is not
  added to the directory's sum.
- `pwd_copy_v2.c:96`: a link that leads nowhere, in any directory above, ends the
  program.
- `non_block_demo.c:105`: "If nothing was typed, do nothing" (l.104), but -1 is
  greater than 0 for an unsigned number, so that the last key is obeyed again in
  every round; `O_NONBLOCK` is never taken back, holds for the output as well,
  and the write of a dot may fail and count all the same (l.92).
- `simplevi.c:213`: a colon turns input mode on with a stale index; `simplevi.c:797`:
  a control character is stored and counted before it is refused.

Commands:

- `cp_copy_v2.c:22`: the usage names the size first, and `argv[3]` is taken for it.
  Versions 1 and 2 empty a file that is copied onto itself and report a success.
  Version 3 fails on an empty file, having written one byte, and is killed by
  SIGBUS where its write of that byte found no room (unchecked).
- `ls_copy_v2` asks for the status of each name in the working directory, not in
  the one it lists; `ls_copy_v3` prints an uninitialised name where `lstat` fails,
  and never closes a directory; `ls_fts.c:91`: `while (optind > argc)` ignores the
  arguments, and the `continue`s of l.137-149 never get to the next entry.
- `fts_demo.c:105` closes the walk inside of its loop; the 'p' of
  `nftw_demo.c:71` is to follow symbolic links, and FTW_PHYS does not.
- `who_copy_v4.c:41` takes only a record whose user is empty already, so it logs
  out nobody; the record it writes back (l.48) may replace that of somebody who
  logged in after it was read.
- `write_copy`: the kind of a record is not looked at, so the name of somebody who
  has left still counts; the second version takes any terminal whose name begins
  as typed (l.72); a write that fails ends the program with 0.
- `pwd_copy_v1` compares inode numbers only, so it stops early, or cannot find
  its way, at mount points; its paths begin with two slashes. It passes links
  that lead nowhere, on which the second version fails.

## Not modelled

- `processes/atexit_demo`, `execv*_demo`, `display_vm`, `threads/detach_child`,
  `stack_size`, `misc/login`: one library call each, and what it gives is printed.
  There is no state that two steps could leave inconsistent.
- `misc/fts_demo`, `nftw_demo`: they print what one walk of the library visits.
- `ncurses/`, `misc/copy_chars`, `list_chars`: they draw.
- In the programs that are modelled: the formatting of logs and listings, what is
  drawn, and calls that fail and end their program at once.

## Plan

Done: the threads programs, the programs of processes, signals, pipes, FIFOs and
sockets, the editor and the commands; the abstract counter, ring and stream and
their refinements; proofs for the ring, the threads programs, version 1 of the
upcase service, nine programs or families of `MCProcesses`, the editor and all
commands (of `pwd`, the types).

What is left is to prove more:

1. `PathLeadsBack`, for all trees: by the stack of directories between where the
   climb is and where it began.
2. The refinement of `Stream` by `SockDemo1`, by the pipelines, and by
   `SocketUpcase`.
3. The totals of the threads programs, and `OutputComplete` and `OutputOnce`, with
   sums and filters as recursive functions, as in the editor.
