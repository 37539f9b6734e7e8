# A verification project for deepcloudlabs/dcl140

The repository is the code of a course on Linux systems programming. Much of it
demonstrates one library call at a time. Four parts hold programs with several
processes or threads that must agree, and those are what this project is about:

* `lookup_proj`: one dictionary service, built locally, over a FIFO, a message
  queue, shared memory with semaphores, stream sockets and datagrams, and the
  program that makes its file of records;
* `shell`: nine versions of a shell, up to one with jobs in the background,
  redirections and pipelines (`sh9`);
* `examples/mod11-synchronization`: threads and processes that share a stack, a
  counter, a row of bank tellers, a lock or the means of a moving company;
* the small clients and servers of `examples/mod12-sockets` and the thread
  exercises of `examples/mod07-threads`.

The properties are model-checked with TLC on small instances, and nearly all
the safety properties are proved with TLAPS for every value of the constants.

## 1. Inventory

### Modelled

**Shared-memory dictionary** (`lookup6.c`, `shm_server.c`, `main.c`).
State: one `Dictrec` in shared memory; semaphore 0 (a mutex) and semaphore 1 (the
exchange); for each process the adjustments the kernel keeps for `SEM_UNDO`; the
client's automatic variables `semid`, `shm`.
Operations: the client grabs 0, writes its word, raises 1 by 2, waits for 1 to be
zero, releases 0 and only then reads the text; the server takes 1, searches,
writes the text, takes 1 again. A process that ends has its adjustments applied; a
server that starts sets both semaphores.
Hard: two clients and a server interleaving over one record; processes that die at
any step; the kernel's bounds on values and adjustments, with return values that
are ignored; locals that are initialised only in the first call.
Correct when: one client is inside at a time; the mutex comes back whoever dies;
the answer a client finds is the answer to its word; every call returns.

**Message-queue dictionary** (`lookup4.c`, `msgq_server.c`, `main.c`).
State: one queue of bounded size that holds requests (type 1) and replies (type =
the client's pid).
Operations: `msgsnd` waits for room, `msgrcv` takes the first message of its type.
Hard: the queue outlives all processes, so it holds what the dead have left;
pids are used again; the server waits for room like everybody else.
Correct when: each client has one message under way, and is told the answer to its
own word; nobody waits for ever while a server is up; requests outlive the server.

**Stream-socket dictionary** (`lookup7.c`, `lookup8.c`, `usock_server.c`,
`isock_server.c`, `main.c`).
State: connections, who has each of them open, the server's children.
Operations: connect, write, read; accept, fork, close; a child's read and answer.
Hard: children, clients and the server that die at any step, by a signal or by a
`fork` that fails; an `accept` whose failure nobody looks at; zombies that are never
waited for; the end of a stream taken for a reply.
Correct when: a dialogue gets its own answers; every call returns or ends its
client, which needs every process to close what is not its own.

**Datagram dictionary** (`lookup9.c`, `udp_server.c`).
State: the datagrams on their way, what each client waits for, the word the server
holds.
Hard: the network loses, doubles and reorders; nothing is numbered, repeated or
timed; a port goes from one client to the next with what is still on its way.
Correct when: without a doubled datagram or a reused port each call returns the
answer to its own word, and only a lost datagram makes one wait for ever.

**FIFO dictionary** (`lookup3.c`, `fifo_server.c`, `fifo_client.c`).
What runs of it is the rendezvous of two `open`s that each wait for the other side:
`me.id` is empty, `mkdtemp` and `mkfifo` fail (`lookup3.c:32`), and every call is
`UNAVAIL`. The rest of the client and the server's handling of a request
(`fifo_server.c:61-76`) are never reached.
Correct when: no client and no server is stuck in its `open` with the other there.

**Local dictionaries** (`lookup1.c`, `lookup2.c`, `lookup5.c`) and **conversion**
(`convert.c`). Sequential: a loop that reads the file from its head, a sorted index
with `bsearch`, a search of the mapped file; and the program that turns words and
lines into records.
State: the stream with its position and the index, static in `lookup`; the steps of
`convert`'s loops.
Hard: a later call finds the stream where the last one left it; counting the records
and reading them share one position; the index is built in file order and then sorted.
Correct when: a word that has a record is found, in first calls and in later ones; each
word becomes one record, with as much of its definition as there is room for.

**Shell job control** (`sh9/shell.c`, `run_command.c`, `child_handler.c`).
State: the child `run_command` waits for and its uninitialised `stat`; the
children; one pending bit for `SIGCHLD`; the handler's progress.
Hard: the handler interrupts between any two steps and reaps *any* child.
Correct when: no child is forgotten, no exit status is lost, the prompt comes back.

**Shell command line** (`run_command.c`, `is_background.c`, `redirect_in.c`,
`redirect_out.c`, `pipe_present.c`, `pipe_command.c`, and those of `sh4` to `sh8`).
State: the vector of tokens of each process, its standard descriptors, the pipe
ends it holds.
Hard: vectors edited in place; a chain of forks that inherit pipe ends; stages that
fail while others run.
Correct when: the commands get exactly the tokens of the line, each end of a pipe
is open only where it belongs, and every process of the pipeline ends.

**Shell sessions** (`builtin.c` and `shell.c` of `sh4` to `sh9`).
State: the table pointer `this`, which `is_builtin` sets and `do_builtin` uses and
`builtin` itself moves; the directory; children, zombies and who ignores `^C`.
Correct when: a line runs its own builtin only; since `sh8` no zombie is left at
the prompt, before it none but those of background commands; the prompt comes back
even when no process is left to fork.

**Condition-variable stack** (`threadonly/stack.c`, `stackMain.c`,
`procnthread/proc_stack.c`, `proc_stackMain.c`).
State: `index`, the mutex, who sleeps on the one condition variable.
Hard: pushers and poppers sleep on the same condition variable and a signal wakes
one thread, whichever.
Correct when: the stack keeps its bounds and nobody sleeps for ever.

**Bank tellers** (`sem.c`, `proc_sem.c`), **shared counter** (`mutex.c`,
`proc_mutex.c`), **read-write locks** (`rw.c`, `proc_rw.c`), **moving company**
(`ipcsem.c`), **thread exercises** (`mod07-threads`).
State: a semaphore of free tellers under a mutex, with a condition variable for who
finds none; a count; a lock of either of two kinds; three semaphores taken by one
`semop`; a counter and slices of an array.
Hard: a client in a hurry takes the teller a sleeper was signalled for; a `SIGINT`
handler unlocks a mutex its process may not hold; the kind of lock is read again at
the unlock; jobs overtake each other.
Correct when: tellers and resources are conserved and nobody sleeps while a teller
stays free; no increment is lost; a writer is alone; all threads end.

**Creation of the shared area** (`proc_stack.c`, `proc_mutex.c`, `proc_sem.c`,
`proc_rw.c`). `open` with `O_EXCL` makes one process the creator; the others map the
file at once, perhaps before it has its size or its contents.
Correct when: nothing is lost, *as long as nobody is at work before the creator is
done*. The code does nothing to ensure that; the model says what happens otherwise.

**Small servers** (`srvr1.c`, `srvr2.c`, `srvr3.c`, `pollProg.c` and their clients).
Hard: all clients of `srvr2` bind one name; `srvr1` looks at no failure; `pollProg`
must take each datagram and not wait for one that is not there.
Correct when: clients that come one after the other get their own replies, no reply
is delivered twice, `srvr1`'s clients get the double of their own number.

The components meet in few places. `main.c` and the interface `lookup(Dictrec *,
const char *)` are common to all dictionaries, so one abstract specification
(`LookupService`) serves them all. `SharedArea` is an instance inside each program
that lives in a shared area, and `CondStack` and `BankTellers` serve both the thread
version and the version with processes. The shell's job control forks the process
that becomes the first stage of a pipeline and waits for that process only.

### Not modelled, and why

| Part | Why |
|---|---|
| `help`, `pid`, `time` and the like among the builtins; `timer.c` | single library calls; an empty stub |
| `parse.c` | no state beyond the call; it gives the shells the lines the models start from |
| `sh1` to `sh3`, `sh5` | `sh1` to `sh3` read and parse lines; `sh5` repeats `sh4` with fewer builtins |
| `examples/mod01` to `mod06`, `mod08` to `mod10` | demonstrations of one call each, without state of their own |
| `exercise01.c`, `exercise02.c`, `mycreate.c`, `serial.c` | only create and join threads, or have one |
| the rest of the FIFO dictionary | never reached, see above |
| set-up that ends the process when it fails (`shmget`, `socket`, `open`, `mmap` and so on) | ends before anything modelled is touched |

Limits of what is modelled: words are shorter than `WORD`, lines shorter than
`LONGLINE` and `BIGLINE`, and files end in a newline. A stream delivers a message in
one piece. `clnt3.c` connects to port 2023 and `srvr3.c` listens at 22023, so that
the client is always refused, and so it is in the model.

`PROJECT.json` lists every hazard found in the code, at the line where it bites,
with the properties that watch it. Several properties excuse the very case a hazard
leads to, as the code does nothing about it (`torn`, `clean`, `stale`, `mixed`, `early`
and the like are for that); the hazard's note then says what the property still shows.

## 2. Modules

| Module | What it is |
|---|---|
| `LookupService` | abstract: a client asks, the service settles the reply, the client takes it; if `MayFail`, a call may come to nothing |
| `ShmLookup` | the shared-memory client and server, and the kernel's `semop`; implements `LookupService` |
| `MsgqLookup` | the message-queue client and server, and the kernel's queue; implements `LookupService` with `MayFail` |
| `StreamLookup` | the socket clients, the server and its children; implements `LookupService` with `MayFail` |
| `UdpLookup` | the datagram client and server, and a network that loses and doubles |
| `FifoLookup` | the rendezvous of the FIFO |
| `LocalLookup` | `lookup1`, `lookup2` and `lookup5`, statement by statement and call after call; of the C library's `qsort` and `bsearch` every result they may have |
| `Convert` | how the file of records is made |
| `DatagramNames`, `IterativeServer`, `PollServer` | the pairs of `mod12-sockets` |
| `CondStack` | `push` and `pop` |
| `BankTellers` | clients, tellers, the mutex and the condition variable |
| `SharedArea` | creator and joiners of a shared file; an instance of the four modules below |
| `ProcStack`, `ProcTellers`, `SharedCounter`, `RwLocks` | the programs of `procnthread`: `SharedArea` composed with `CondStack`, with `BankTellers`, with a counter, with a lock |
| `Movers` | jobs and their `semop`s |
| `SharedState`, `ParallelSum` | the exercises of `mod07-threads` |
| `ShellJobs` | the shell `sh9`, its handler, its children |
| `ShellSession` | a session of lines, builtins, commands and `^C` with `sh4`, `sh6`, `sh8`, `sh9` |
| `ShellPipeline` | what becomes of one command line in `sh9` |
| `EarlierPipelines` | the same in `sh4`, `sh6`, `sh7` and `sh9` |
| `MCShmLookup`, `MCMsgqLookup`, `MCShellJobs` | small instances: sets of model values named for the configurations |
| `MCLookups` | the message queue or, left alone, the shared memory |
| `MCLookups`, `MCMod11`, `MCSockets`, `MCShells` | several programs in one instance: a variable `program` says which one runs, the variables of the others rest. The programs do not interact; a property of one speaks of states where `program` names it |
| `ShmLookup_proofs`, `MsgqLookup_proofs`, `BankTellers_proofs`, `ShellJobs_proofs`, `ShellPipeline_proofs` | theorems about the module of that name; the last two also about `MCShells` and about `EarlierPipelines` |
| `Sockets_proofs` | theorems about `StreamLookup` and the other programs of `MCSockets` |
| `Mod11_proofs` | theorems about `CondStack` and the other programs of `MCMod11` |
| `Library_proofs` | what the proofs need of the library's sum over a set and of its joining of sequences |

Definitions beside an action that a comment calls "Mutant" are wrong versions of
it, as a slip in the code would make them. No specification uses them. They record
what each property is sensitive to: with the mutant in place of the action, the
property named in `PROJECT.json` fails.

### How state and actions correspond to the code

*One action is one system call or one access to what is shared*, together with the
private computation up to the next one. A statement that reads shared memory twice
is two actions (`Compare`, `Copy`: `lookup6.c:66` and `:67`). A call that blocks is
an action with a guard. A call whose result is ignored has one disjunct for each
outcome, all of which go on. The one exception is `pipe` (`sh9/pipe_command.c:36`):
that it fails is left out, since the stages would go on with descriptors that were
never set.

`ShmLookup`. `pc[c]` is the next call of client `c` in `lookup6.c:53-71`, `spc` that
of the server in `shm_server.c:86-107`. `SemStep` and `ServerSemop` are `semop` with
`SEM_UNDO` in the kernel's order of tests: block, fail with `ERANGE`, perform.
`ApplyUndo` is `exit_sem`: adjustments are added and the sum is clamped. `handles`
says which of `semid` and `shm` are good: both in the first call, and in later calls
any member of `LaterHandles`, because the locals of `lookup6.c:25` are uninitialised
then and builds differ in what they hold. Two history variables say what excuses a
wrong answer: `torn` (a server was restarted under the mutex's holder, which resets
it) and `clean` (nothing disturbed the exchange in progress). They are read by
properties only, never by a guard.

`MsgqLookup`. `queue` is the sequence of messages, with their sizes only in the
order that matters: `"XXXX"` < a request < a definition. `stale` and `lost` record
pids whose process died waiting, or whose request died with a server. To
`LookupService` a call of such a pid is a call that failed.

`StreamLookup`. `open[c]` is the set of the server's processes that have `c`'s
connection open. `Closed` means it is empty. `ServerDies`, `ChildDies` and `Leave` are
ends at any step; what a process had open is closed, and of the server also the
backlog. `cd = Bad` is an `accept` that failed. Each stream holds at most one message,
because each side reads before it writes again.

`UdpLookup`. `net` is a bag of datagrams; `lost` and `mixed` record the ports for
which the network dropped or doubled one, or which were given to a new client with a
datagram still under way. `FifoLookup`: an `open` is a wait for the other side.
`LocalLookup`: `pos` is the stream's position in records, `table` the index with word
and offset, `step` the next statement of `lookup` or the value it returned; `main`
calls again from there, with stream and index as they are. `Rec(r)` is the `r`th
record of the file, which does not change while a program has it open. `Convert`: a
letter is the number of its line, so that the result shows where each character came
from; `step` is the place in the loops of `convert.c:36-77`.

`DatagramNames`: `name` is the socket that has the clients' name. `IterativeServer`:
`service` says which of the two pairs runs. `PollServer`: `hpc` is the place in the
handler of `pokeit`, `revents` what `poll` reported.

`CondStack`. `where[t]` is the place of thread `t`; what is on the stack is left out,
as threads wait only for `index`. One module serves both versions: `stack.c` is one
pusher and one popper, each process of `proc_stack.c` adds one of either.

`SharedArea`. `file` is absent, empty or of full size, `step[p]` is the place of
process `p` in `stackInit` and its like, `todo` what the creator has yet to write,
`early` those who were at work before it was done. Touching a file that is still
empty ends a process with `SIGBUS`. `Inverted` is for `proc_mutex.c`, where `B_TRUE`
is 0 (`:18`), so that those who join initialise the mutex and the creator does not.
`ProcStack`, `ProcTellers`, `SharedCounter` and `RwLocks` give the initialisation its
meaning (`SetUp`), and properties say "unless `early`". In `ProcTellers` a process may
be killed as soon as it has opened the file. A creator killed before its `ftruncate`
leaves the file empty, and who joins ends with `SIGBUS`.

`BankTellers`. `where[c]` is the place of client `c` between the mutex, the
semaphore, the condition variable and its business. `RwLocks`: `userwlock` is read
at `Lock` and again at `Unlock`. `Movers`: a `semop` takes all it needs or waits.
`SharedState`: `state++` without a lock is a load and a store, and the build may keep
the count in a register over any number of rounds.

`ShellJobs`. `pending` is one bit. The handler runs with all signals blocked
(`shell.c:29`), and `SA_RESTART` (`shell.c:28`) makes `waitpid` go on after it, which
is why `Wait` has only two outcomes: the child's status, or `ECHILD` with `stat`
untouched.

`ShellSession`. `this` is the pointer that `is_builtin` leaves for `do_builtin`. A
keyword stands for all that do the same, and `version` for the differences: no table
beyond `echo` and `quit` in `sh4`, no handler before `sh8`, children that `^C` ends
again in `sh9`.

`ShellPipeline`. A token is its kind and its place in the line. `argv[k]`, `in[k]`,
`out[k]`, `held[k]` belong to process `k`, which forks process `k + 1`. What a command
does is in five actions of the environment: it reads all its input, ends early, may
fill its pipe once, and is then drained or ended by `SIGPIPE`. `EarlierPipelines` adds
`version`: no redirections in `sh4`, no pipes in `sh6`.

## 3. Runs

| Run | Question | Bounds, and why they are enough |
|---|---|---|
| `lookups` | is the exchange over shared memory, left alone, a service up to the release? is the queue a service whose calls fail only with a killed client or server? does each call return? | memory: 3 clients, 2 calls each: one inside, one waiting, one that comes round again; queue: 3 pids, 1 call each, 1 kill, 1 stop, capacity 10 = the reply of the killed client, one more and two requests, so that both sides have to wait for room (375 thousand) |
| `shm_faults` | what survives departures, kills, restarts, wild handles and kernel limits? | 2 clients, 2 calls; `SemAem = 2` and `SemVmx = 4`, so that both limits are met within two exchanges; as many kills and restarts as the calls allow; clients symmetric (1.1 million) |
| `shm_stale` | *violated*: is the user told the answer to the word typed? | 2 clients, 1 call each |
| `shm_leave` | *violated*: does the client wait for the server? | 2 clients, 1 call each, one leaves |
| `msgq_full` | *violated*: does the server always get on with its work? | 3 clients, nobody killed; capacity 6, which two requests and a definition exceed by one |
| `sockets` | the dictionaries over sockets and the FIFO, the local ones, the conversion, the pairs of `mod12` | see below (450 thousand) |
| `convert_flush` | *violated*: is the rest of a long definition skipped? | 5 lines of up to 3 letters, records of 4 |
| `mod11` | the programs of `mod11-synchronization` and `mod07-threads` | see below (196 thousand) |
| `shell_jobs` | is no child forgotten, no status lost, does the prompt come back; and sessions | 3 commands, of which two may end together; sessions of 3 lines with 2 processes and one `^C`: `builtin cd` and a line after it, a background command that fills the table (109 thousand) |
| `shell_status` | *violated*: is the status shown the child's? | 2 commands |
| `shell_pipeline` | tokens, pipe ends, and the end of every process, in four versions | all lines of up to 5 tokens of the five kinds: three stages, redirections before, behind and around a bar (111 thousand) |
| `sh6_redirect` | *violated*: does `sh6` remove the mark of a redirection and the file's name? | all lines of up to 4 tokens: a command, a redirection and one token behind it |

`sockets`: `StreamLookup` with 2 clients, 2 calls, 2 children and 1 failed `accept`
(the last fork may find no process left), where each process may die anywhere;
`UdpLookup` with 2 ports, 2 calls, 1 fault and 1 end, the least for an answer to meet
a later call; `DatagramNames` and `IterativeServer` with 3 clients and 1 kill (one
served, one waiting, one that comes later); `PollServer` with 7 ticks, one more than
the period of its two sockets, and room for 3 datagrams; `Convert` as in
`convert_flush`; `LocalLookup` with all files of up to 3 records of 3 words and 3
calls (a word twice and one between; a call after one that found and after one that
did not); `FifoLookup` with 3 clients and 2 stops.

`mod11`: `CondStack` with 2 pushers and 2 poppers on a stack of 3, 4 calls each: the
stack fills up and empties, and the bound of `Few` is met exactly; one wakeup without
a signal. `BankTellers` with 4 clients, 2 tellers and one such wakeup: two are served,
two sleep or hurry. `ProcTellers` with 2 processes, 3 clients, 1 teller and a kill;
`ProcStack` with 2 processes; `SharedCounter` with 3 processes, one round each;
`RwLocks` with 2 readers and 2 writers in 2 processes; `Movers` with the first 6 jobs;
`SharedState` with 3 threads and 2 rounds, the least at which a lost round can undo
another's; `ParallelSum` with 5 elements on 1 to 3 cores, where 2 and 3 do not divide 5.

`MCLookups`, `MCMod11`, `MCSockets` and `MCShells` hold several programs because a run
of its own for each would ask the same kind of question many times over. Their
invariants are each about one program, or the same promise of several: `CountKept` is
said of the shared counter and of the sum of `parallel.c`, `ResourcesKept` of the
movers and of the exercises that share a count, `ClientsServed` of the three pairs of
`mod12-sockets`, `AllFinish` of all that end.

`Deadlock` is not checked: in all of these systems every process may come to its
end, or the server waits for a client that never comes. That nothing gets stuck is
stated by the liveness properties instead.

### What the runs show of the code

Six runs end in a counterexample; each contradicts what the repository says.

* `shm_stale`. The client releases the mutex (`lookup6.c:64`) and reads the shared
  text after that (`:66`, `:67`). The next client's exchange may come first: the
  user is told someone else's definition, although the semaphore is to exclude
  "other clients while we talk to server" (`lookup6.c:6`). `MemoryImplements`
  (run `lookups`) holds up to the release, which locates the fault in these two lines.
* `shm_leave`. `alert` raises semaphore 1 with `SEM_UNDO` (`lookup6.c:30`), but it is
  the server that takes it down. A client that was served therefore owes 2 for each
  call; the kernel collects when it exits, and ends the wait of whichever client is
  inside. The comment at `lookup6.c:60` says that the client waits for the server.
* `msgq_full`. Requests and replies share one bounded queue and the server sends
  without `IPC_NOWAIT` (`msgq_server.c:69`). While it works on the request of one
  client the requests of two others arrive; they leave room for less than its reply,
  and it waits for room that only its next `msgrcv` could make, against "reply
  immediately" (`msgq_server.c:44`). Nobody is killed. With room for one byte more it
  does not happen. What a killed client never collects takes room for good, so that
  `EnoughRoom`, under which `lookups` shows that no call waits for ever, also counts
  a reply for each of them.
* `shell_status`. The handler's `waitpid(-1, ...)` takes the foreground child as
  well. `run_command`'s `waitpid` then fails, its result is not looked at
  (`run_command.c:45`), and an uninitialised `stat` is shown. That no status is lost
  (`StatusKept`) holds all the same: the handler has shown it.
* `convert_flush`. The loop that skips the rest of a long definition
  (`convert.c:70-73`) takes any line of fewer than two characters for its end, also
  the newline of a line that fitted exactly. What follows becomes words.
* `sh6_redirect`. "Remove the > and the filename from myArgv" say
  `sh6/redirect_in.c:38` and `redirect_out.c:42`; the loop behind the comment moves the
  later tokens down by one place and the end by two. `cmd < file arg` is executed as
  `cmd <`: unless the redirection stands last, its mark stays and the last argument is
  lost. `sh7` and `sh9` move by two. `TokensKept` claims of `sh6` only lines whose
  redirections stand last.

Some facts met on the way, which no run is about: the FIFO dictionary never gets past
its first reply pipe; `parallel.c` leaves out the last `N % cores` elements; `convert`
never ends when the last definition of its file is long and no blank line follows
(`Ends` is said of files that end in one); `sh4` to `sh6` give `execvp` a null name
for a line that is `&` alone; the children of `sh8` inherit the ignored `^C`.

Among the results that hold, the less obvious are these. The mutex of the
shared-memory exchange comes back whoever is killed (`MutexReturned`). The one
condition variable of the stack is enough, without `pthread_cond_broadcast`, as long
as there are at most `StackSize + 1` threads (`OneSideSleeps`); beyond that both sides
can sleep together, and with four threads on a stack of one they all do.
`proc_stack.c` sets no limit on the processes that may join. At the bank one
`pthread_cond_signal` is enough although a client in a hurry may take the teller it
was meant for (`NobodyStranded`). One pending bit is enough for any number of
children, because the handler loops (`NoneForgotten`). Children of the socket server
are never waited for, so that the number of connections the server serves in its
life is bounded by the processes its user may have, yet no client is left reading for
ever when it dies (`Implements`). `srvr1` looks at no failure, but a client that
went away never gives the next one its number (`Doubled`). In `exercise03.c` rounds
are lost, but never so many that fewer than two remain (`StateKept`).

### Fairness

`WF` of each process's own steps: the system runs every process that can run.
Nothing is assumed of what users, signals, the network and failures do (`Call`,
`Leave`, `Kill`, `Stop`, `Restart`, `Lose`, `Double`, `Quit`, `WakeUnasked`,
`ChildDies`, `ServerDies`): none of these has fairness. Five points deserve a remark.

* An `accept` that fails is a step of the server, but its fairness (`ServerRuns`) does
  not make it happen.
* `MCLookups` states `WF` for each client and each server. `MCMod11`, `MCSockets` and
  `MCShells` state one `WF` of all such steps together (`Work`). Calls, rounds, lines
  and faults are all counted, so that no behaviour takes steps for ever, and a
  behaviour that stops while some process can run violates the joint condition as it
  would violate that process's own.
* No strong fairness is assumed of the mutex, the semaphore or the queue. Since the
  number of calls is bounded a client can be overtaken only so often; with unbounded
  calls a kernel that is unfair to one client could starve it, and the properties
  would need `SF` of `Grab` and `Lock`.
* In `ShellJobs` and `ShellSession` children are assumed to end; a foreground command
  that does not end rightly keeps the shell.
* In `ShellPipeline` a command is assumed to read and to end at the end of its input,
  not to end earlier: `Break` and `Fill` have no fairness.

## 4. Proofs

Every theorem holds for all values of the constants that satisfy the named assumption
of its module (`ShmAssumption`, `MsgqAssumption`, `StreamAssumption`,
`SocketsAssumption`, `StackAssumption`, `Mod11Assumption`, `ShellAssumption`,
`SessionAssumption`, `PipelineAssumption`), which the runs evaluate. The theorems of
`BankTellers_proofs` have theirs, `Bank`, as a hypothesis, because the module is used
as an instance. `ImplementsService` of the shared memory has a hypothesis about
behaviours, `Calm`, which is explained below.

Each module below opens with its inductive invariants, so that the argument can be
read there before the steps of the proof. What they say, and why a property needs
more than itself:

`ShmLookup_proofs`. `TypeCorrect` includes that values and adjustments keep the
kernel's bounds. For the mutex, `MutualExclusion` alone is not inductive: what a
client may take depends on what dying clients give back. `MutexInv` says that unless
`torn`, semaphore 0 is 1 exactly when no client is inside and 0 otherwise, and that
the adjustment of the client inside is 1 and of all others 0; from it follow
`Exclusion` and `MutexComesBack`. For the answer, `IInv` adds, while `clean`, the
joint phase of the client inside and the server: what `pc`, `spc`, semaphore 1, the
word, the hit and the text can be together. There is one lemma for each step of the
exchange and one for each kind of end, and `AnswerCorrect` and `RequestStable` follow.
`ImplementsService` maps each step to a step of `LookupService` or none, in behaviours
that are `Calm`: no exchange is disturbed, both handles of each call are good, and no
client is killed. That is what `MemoryImplements` runs, for any number of clients and
calls; without it the code does not implement the service, as `shm_stale` shows.

`MsgqLookup_proofs`. `OneUnderWay` does not say where the message is. `IInv` does, for
each pid that is not `stale`: a client that waits to receive has either its request in
the queue, at one place, or the server works on it, or its reply is in the queue, and
that is the answer to its word; a client that does not wait has nothing anywhere.
Lemmas about a sequence from which one element is taken or to which one is added
carry this through `Append` and `RemoveAt`. `AnswerCorrect` and `OneMessage` follow,
and `ImplementsService`: under the mapping `CallBar` each step is a step of
`LookupService` or none. A request whose reply is made is served, a call of a `stale`
or `lost` pid fails. `TypeCorrect` includes that the bytes in the queue keep its
capacity. The model's fold over the queue is shown to be a sum over its places, to
which `Append` adds one size and from which `RemoveAt` takes one away.

`Sockets_proofs`. Of the stream sockets: `TypeCorrect` includes the limit on the
server's processes. `IInv` ties each connection to its dialogue: what is written and
not yet read, which word the child holds, and that only the child answers.
`AnswerCorrect` needs no exception for deaths of others. `ImplementsService` is the
same simulation as for the queue; a connection closed by every process is a call that
fails. Of the others:

* `OwnAnswers`. `UdpInv` says that whatever is on its way, or in the server's hands,
  was asked for, and that for a port which is not `mixed` it is one thing at most,
  while a call waits, and about the word of that call.
* `Served`, of `srvr2`: `Once` says in which one place a request, or the reply to it,
  is, and `OneByOne` that clients which come alone have the name while they need it.
  Of `srvr1`: `IterBacklog` says that a connection is accepted once, `IterNumbers`
  which number can be where. Of `pollProg`: `SignalsCounted` and `DatagramsCounted`
  balance the ticks, the signals handled, and for each socket what was sent, is there,
  was displayed and was lost.
* `Found`. `LocalInv` says what the steps of a call rest on. While the index is filled,
  `pos` records have been read, and the entries before `count` are theirs with their
  offsets (`Filled`); sorting moves entries and changes none, so that afterwards each
  record has its entry, in order of the words (`Opened`), and stays so from call to call.
  In `lookup1`'s loop no record before `pos` has the word, which is where the `rewind`
  at the head of each call comes in; before `lookup2`'s last `fread` the stream stands
  before a record with the word. There is one lemma for each step. Of `bsearch` nothing
  is assumed of a table that is not in order.
* `Converted`, of `convert`. `ConvertInv` says where in the file each step of `main` is:
  `in` is the file behind some line (`Behind`), the records written are those of the
  words before it, in order (`Made`), `text` holds the lines of the definition read so
  far, joined (`AtAppend`), and from the end of the definition, or from the line that
  does not fit, it is the text the record is to have (`AtSkip`, `AtSkipOn`,
  `AtWrite`). `Good` is what the invariant needs of the file: it has the form that the
  comment at the head of `convert.c` asks for, and no line of a definition that is too
  long ends where the text is full. The hypothesis about the size of the text, more
  than two bytes, is in `SocketsAssumption`; the code has 480 (`dict.h:9`), and with
  two a line cut after one letter would pass for a blank one.
* `OthersTypeCorrect`, which includes that no client and server of the FIFO wait for
  each other.

`BankTellers_proofs`. `TellersConserved` counts the free tellers and the clients
served. `NoneStranded`: while somebody sleeps, the free tellers are no more than the
clients about to try for one or to signal. It is inductive with `MutexInv` (who is
between lock and unlock, and that a client in a hurry never sleeps), which keeps a
client from falling asleep with a teller free.

`Mod11_proofs`. Of the stack: `OneSideSleeps` is not inductive either. `SleepBound`
counts: each pop since a pusher fell asleep has woken a pusher, so that `index` is at
least `StackSize` less the pushers awake, and dually for poppers. With at most
`StackSize + 1` threads the two bounds exclude each other, which is also what makes
them inductive: while one side sleeps alone, every signal goes to it. Of the others:

* `TellersServed` and `ReportOwn` take the bank's lemmas over; a report is the client's
  own number because the mutex is held from the call to the report.
* `StackUndisturbed`, `TellersUndisturbed`, `WritersAlone` and the counter's half of
  `CountsKept` are about `SharedArea`. Each invariant has the same three parts: what
  holds always (a process at work while another sets the area up makes `early` true),
  what holds of the new area, and what holds unless `early`: that the area stays
  as it was made until the creator is through, and who holds the lock.
* `WritersAlone`: unless `early`, `userwlock` is the choice that each thread has read,
  so that a lock is returned to the kind it came from.
* `CountsKept`, of `parallel.c`: the slices of the threads are disjoint, and `core`,
  which is read and written without a lock, may fall back but is never ahead of the
  threads that have counted, so that no thread starts beyond the last slice.
* `ResourcesConserved`, of the movers: what the running jobs have taken is a sum, to
  which a `semop` adds and from which another takes away. Of the exercises: `Owed` is
  the sum of the rounds still to be done. With a lock count and rounds always make up
  the same (`StateExact`); without, never more (`StateMost`), and the count never falls
  below what the last round leaves (`StateLeast`).

`ShellJobs_proofs`. `NoneForgotten` and `StatusKept` are inductive with `TypeOK`. For
sessions `SessionInv` says which builtin `this` names while one runs (`LineKept`), what
a child that is left over is there for (`ChildrenKept`), and that before `sh8` `SIGCHLD`
is of no consequence (`SignalsKept`).

`ShellPipeline_proofs`, about all four versions (`SpecEarlier`), for lines of any
length, where the run stops at five tokens.

* `EndsInv` says what each process has open in each of its phases: a process holds
  both ends of its pipe between the fork and its `close`s, its child holds both and
  also the input it inherited, and a process that has yet to fork is the last one.
  `OnlyOwnEnds` follows.
* `LineInv` says that before the first fork the line is as long as the vector, the
  redirections made and the `&` together (`Counted`), that input and output are never
  redirected to one token (`Apart`), and what a vector has when it comes to be
  executed (`Executed`). `CommandsHaveNames` follows.
* `TokenInv` says that the vectors, one behind the other, are tokens of the line in
  order (`InOrder`), how many are left for the forks, redirections and `&` there were
  (`Balanced`), that a token which is gone has been used for one of these
  (`Accounted`), and for `sh6`, where the last does not hold, exactly what its two
  calls make of the line (`Six`). `NoTokensLost` follows.

`Library_proofs`. The library's sum over a set is a recursion over subsets, and
`FlattenSeq` one over the number of sequences that are joined. These lemmas show that
the recursions have solutions, that the sum over a set with one element more is one
term more, that sequences joined one by one from the left are joined, and what is left
of them behind each one.

Where a proof needs induction over data (sums, joined sequences), the induction
theorems of the library cannot be used, because they take a predicate as a parameter.
The proofs take a least counterexample instead, from the library's theorem that the
natural numbers are well-ordered.

Every invariant of the runs that pass is proved. Only model-checked is all liveness
(`AllFinish`, `PromptsComeBack`, `PipelineEnds`, and the fairness half of the two
`Implements` and of `MemoryImplements`), which is out of the prover's reach. The
claims of the six runs that end in a violation do not hold.

## 5. What could follow

* The shell as a whole: `ShellJobs` composed with `ShellPipeline`. They meet in one
  place only: the first stage is the child that the shell waits for, and the prompt
  comes back with the others still running.
* `UdpLookup` as an implementation of `LookupService` whose calls may stay open.
