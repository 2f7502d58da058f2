# Models of linux_c_homeworks

The repository is a collection of small programs written for two courses:
`linux_c_development` (user space: threads, System V IPC, pipes, sockets, file
locks, algorithms) and `linux_kernel_development` (kernel modules: character
devices, kernel threads, interrupts). Each `homeworkN` directory is a program or
a few that work together; there is no program that holds them all. What they
share is concurrency, written by hand each time: turn taking in six forms, a
gate in front of a device copied four times, a registration sequence copied four
times. The models follow that: what the copies have in common is one module,
each program is a small module that uses it with its own parameters, and
programs of one kind are put together in a module that runs one of them.

`PROJECT.json` lists components, runs, mutants, hazards, theorems, and for every
definition the lines of the source it stands for. Paths below are relative to
`src/`; `C/` is `linux_c_development/` and `K/` is `linux_kernel_development/`.

## 1. The system

| Part | State | Operations | Hard behaviour | Correct means |
|---|---|---|---|---|
| Turn taking in user space: `C/homework11/tic_tac`, `1_2_3` | `turn`, `mtx`, `cond` | `fn_threadN`: lock, test turn, wait, print, pass the turn, notify, unlock; `main` creates and joins | one condition variable for several conditions, spurious wake-ups | lines in cyclic order, `COUNT_TIMES` each, no lost wake-up, main ends |
| Turn taking in the kernel: `K/homework10/tic_tac.c` | `turn`, `tic_tac_mtx`, two kthreads | init, two thread functions, exit with `kthread_stop` | `turn` tested outside the mutex; threads stopped before they ran | same order; exit returns; mutex unused once destroyed |
| Counting with two mutexes: `C/homework11/mutex/mutex3.c` | `count`, `count_mutex`, `condition_mutex`, `condition_cond` | `functionCount1`, `functionCount2` | tests of `count` outside its mutex, `if` around the wait | the schedule of the comment at lines 33-37; both threads end |
| Device gate: `node_open`/`node_release` of four drivers (`K/homework6`, `9` twice, `12`) | `already_opened`, `WaitQ` | open (O_NONBLOCK or waiting, interruptible), release | test and set without a lock; signals that are not seen | one opener unless two tasks run in the kernel at once; no lost wake-up; open returns |
| Registration: init/exit of those drivers | `/proc` entry, device numbers, class, device, cdev, interrupt | the chain of registrations, its unwinding, exit | a failure in the middle; load and unload in any order; interrupts meanwhile | all or nothing; no node without its module |
| `module_device` and `module_interface` (`K/homework9`) | `rand_nums_amount`, `nums_array`, `rand_nums_amount_mutex`, `w_buffer` | generating thread, `node_write`, `node_read` of the other module, init, exit | a number stored before it is checked; amount and array change at different times; allocation failures | the thread generates an accepted amount into an array of that size; the array is freed once; readers read the array |
| Philosophers: `K/homework11/philosophers` | `sticks[]`, `thread_start_counter`, kthreads | start barrier, take and put sticks, exit | unlocked counter; trylock result read the wrong way round; mutexes destroyed one by one | nobody reaches for an uninitialised or destroyed stick; exit returns; somebody eats |
| Shared memory chat, Peterson: `C/homework6/example3/shmem*` | `turn`, two locks, `readlast`, `string` | the two loops | store buffers; spinning | mutual exclusion; strict alternation; `q` ends both |
| Shared memory chat, semaphores: `C/homework6/example3/sem*`, and random numbers: `C/homework7/random_numbers` | two semaphores with SEM_UNDO, a block | the two loops, set-up, removal | a client killed or finished gives operations back; unchecked `semop` | the sum of turns; one at a time in the block; the server sees `q` |
| Chat over a message queue: `C/homework6/chat` | a queue, type 1 both ways | send, receive any | a process takes its own message | messages under way match the processes waiting; the server sees `quit` |
| Broadcast chat: `C/homework10/async_chat` | `clients_num`, `sockets[]`, a thread per client | accept, register, broadcast, leave | nothing is locked; descriptors come back | present clients hear everything; nobody hears himself |
| Sorting: `C/homework1` (and copies) | an array | `sort_array` | bounds of nested loops | sorted, same elements, empty array refused |
| File locks: `C/homework4` | record locks per region, the records, one `struct flock` per process | `testlocks.c` (waits), `testlocks_original.c` (does not) | F_GETLK overwrites the request of the next attempt | a record stays while its process holds the region, unless the retry was made with F_UNLCK |
| Pipes and FIFO: `C/homework5/pipes` | a pipe with the ends each process holds; the name of the FIFO and the files behind it | three programs with a pipe; `typeserver`, `typeclient` | forgotten copies of an end, failing forks, SIGPIPE; both sides remove the name, either may be killed and started again | every text is shown once; readers see the end; the first server keeps the name |
| Signals: `C/homework9` | the handler, the mask, the pid in a pipe or known to the user | `sig_fork`, `sig_receiver`, `sig_sender` | the pid is known before or after the handler is there; either side dies | whoever knows the pid meets the handler; both end |
| Chat over one connection: `C/homework8/chat` | a byte stream, `buf` | read, compare, type, write | reads cut and join messages; the boundary of `buf` | printed in order; only "quit", alone in a read, ends it |
| Message queue examples: `C/homework6/example3/msg*`, `polymsg*` | a queue with types | text, answer, confirmation, removal | a second client; a confirmation that is too big | one is answered, nobody waits for ever |
| Array from a file: `C/homework3/array`; sum by two threads: `C/homework10/array_sum` | `nums`, `num_index`; `array_sum` | the reading loop; `+=` of two threads | uninitialised index, empty fields, too many numbers; lost updates | the numbers of the file in order; the sum, or less when an update was lost |
| Thread that stops: `K/homework8` | a task pointer | `kthread_run`, counting, `kthread_stop` | a thread that has returned; ERR_PTR | a live thread is stopped and exit returns |
| Radio: `K/homework4/radio` with `K/homework5` | `radio_count` | open, release under a program that reads and writes | test and increment without a lock; a call that fails with the file open | one file at a time, and the count says so, unless two processes were in the driver at once |
| Reads and writes of text: `K/homework6`, `12` | `r_buffer`, `rand_nums_amount`, offsets | `node_write` of several, `node_read` by cat | overwriting in place while it is read; a refused text that stays | cat shows a whole text once; the number is that of the text |
| Sum of an array in the kernel: `K/homework3` | `m_array`, the limits, `product_sum` | insmod with parameters, limits set later | the order of the parameters, limits the wrong way round, wrap-around | the sum is that of the array; each number is multiplied by one between the limits |
| Not modelled | | first modules, drawing and reading files, kernel files and memory, generated `*.mod.c` | straight-line code, see section 8 | |

How parts interact: `module_interface` reads the variables that `module_device`
exports, under the mutex that it exports too; every driver puts the gate in front
of what it registers; the program of `K/homework5` runs on the driver of
`K/homework4`, and `rand_num.c` gives the sums of `K/homework3` their factors; the
chats interact through the kernel's objects (block, semaphore set, queue, socket,
pipe, locked region), which the models contain as far as the programs use them.

## 2. Modules

| Module | Models | State and actions |
|---|---|---|
| `RoundRobin` | what turn taking promises | `size`, `next`, `printed`; `PutLine(w)` |
| `TurnCond` | one waiting thread of `1_2_3.c`, which `tic_tac.c` has too | `pc[t]` is the statement a thread is at; `mtx`, `waiting`, `turn`, `count`; `Lock`, `SeeTurn`, `CondWait`, `Spurious`, `Relock`, `Printf`, `PassTurn`, `Notify`, `Unlock`; `Create`, `Join` for main |
| `TurnSpin` | `K/homework10/tic_tac.c` | the two spinning threads, `tictac_init`, `tictac_cleanup`, and `kthread` for the kernel's side of starting and stopping |
| `CountHalt` | `mutex3.c` | one action per statement of the two functions; `count` is loaded and stored in two steps |
| `OpenGate` | `node_open`, `node_release` of the four drivers | one action per test of the flag, with `wait_event_interruptible` unfolded into enqueue, test again and sleep; `cpu` holds the tasks that run in the kernel, and the history variable `preempted` tells whether two ever did at once. Calls are not counted: a task opens and closes the node as often as it likes |
| `ModuleDevice`, `MC_Device` | `module_device` and `node_read` of `module_interface` | a section between `mutex_lock` and `mutex_unlock` is one action; `leaked` tells that the mutex was never unlocked, `early` that an amount was set between the first allocation and the thread's first line. A reader asks for `length` bytes; `node_read` copies a text of its own length (`ReadArray`), may fail to (`ReadFault`), and returns `length` all the same: `cat` holds what the reader was given (`numbers`), what it was told (`claimed`), and whether more than `tmp_buffer` or its own buffer was copied (`stack`, "overrun") |
| `CharDev` | init and exit of the four drivers of `K/homework6`, `9` (both modules) and `12`; which one is chosen at the start | one step per registration (`Steps`: a /proc entry before the device, an interrupt or an array and a thread after it); each may fail, and then `Unwound` is what the driver undoes; `Teardown` is its exit; `kb_int` is the keyboard interrupt |
| `Driver` | a driver's node and its module together | every task's step of `OpenGate` joined with what it does to the module's use count in `CharDev`; `Load` gives a new flag and wait queue; a step into a module that is gone is the state `Crashed` |
| `Philosophers` | `philosophers.c` | init and exit per philosopher, `Load`/`Store` of the counter, `Barrier`, the two trylocks, putting back |
| `ShmemTurns` | `shmemserv.c`, `shmemcli.c` | one action per load and store; `buffer[p]` holds stores that the others do not see yet, `Flush(p)`; `room`, chosen at the start, is how many stores can wait |
| `SemTurns`; `SemChat`, `RandPingPong` | the two programs with semaphores | `Take`, `Signal`, `Kill`, exit with `undo`; the programs add set-up, text and removal |
| `Pipes` | `pipes.c`, `printns.c`, `makelog.c` | `ends[p]`, what each process holds of the pipe; forks that succeed and fail, closing, `Write`, `Read` |
| `Fifo` | `typeserver.c`, `typeclient.c` | `name` is the file the path leads to, `file[p]` what p has open: opening waits for the other side; `Unlink` by both, `Kill`, `Start` again |
| `Signals` | `sig_fork.c`; `sig_receiver.c` with `sig_sender.c` | `Mask`, `Install`, `Publish` of the pid, `KillReceiver`, and the user's own signals |
| `FileLocks` | `testlocks.c`, `testlocks_original.c` | `locks`, `record`, and `l_type`, `l_start` of each process's request: `SetLock`, `SetFails`, `GetLock`, `Write`, `Unlock` |
| `IpcPrograms` | one of the above four or of the two with semaphores | |
| `MsgChat` | `msgserver.c`, `msgclient.c` | the queue, those asleep in `msgrcv`, and one action per call |
| `MsgExamples` | `msgserv.c`, `msgcli.c`, `polymsgserv.c`, `polymsgcli.c` | one action per call; `tooBig` tells the pair whose confirmation does not fit |
| `AsyncChat` | `async_server.c` | main: `Listen`, `Accept`, `MallocFails`, `PthreadCreate`, `CreateFails`, `Count`, `DetachFreed`; each thread: `Register`, `Read`, per slot `LoopTest`, the three loads of `sockets[i]` (`TestUsed`, `TestOther`, `Load`) and `Write`, each a step; `Leave`, `Clear` |
| `SocketChat` | `socket_server.c` against any client | `sent`, `stream`, `printed` in parts of messages that a read can tell apart; `FORM_MSG` takes a typed line of any length |
| `ChatPrograms`, `MC_Sockets` | one of the above four; `Systems` names those that a run chooses from | |
| `SelectionSort` | `sort.c` | the two loops, statement by statement |
| `ArrayFile` | `C/homework3/array/main.c` | one action per branch of the reading loop, the last number, showing |
| `SummingThreads` | `array_sum.c` | `Load` and `Store` of `array_sum`, main's `Create`, `Join` |
| `ProcessPrograms` | one program in one process: one with `TurnCond`, `mutex3`, or one of the above three; `Systems` names those that a run chooses from | `tic_tac`: two threads with `pthread_cond_signal`; `one_two_three`: three with `pthread_cond_broadcast`; `mutex3`; `SumProgram`, `SortProgram`, `FileProgram` |
| `StopKthread` | `stop_kthread.c` | the thread, init, exit, and `Free`, the kernel's |
| `Radio` | `radio_or.c` under `K/homework5/main.c` | `Test`, `Increment`, `Opened`, `Use`, `Decrement`, `Released` |
| `NodeText` | `rand_write.c`, `rand_read.c`, `keyboard_irq_read.c` | a character at a time; `kstrtol` reads and stores in two steps |
| `KernelSum` | `array_sum_rand`, `array_sum_changeable`, `rand_num.c` | `GiveArray`, `param_set_*_limit`, `array_sum_rand_init`, all of which may calculate |
| `KernelModules` | one of the above four, or `TurnSpin` | |
| `*Proofs` | the theorems about the module of that name; `ProcessProofs` has those of `TurnCond`, `CountHalt`, `SummingThreads`, `SelectionSort` and `ArrayFile`, `DriverProofs` those of `OpenGate` and `CharDev`, `KernelModulesProofs` those of the five kernel modules it runs, `IpcProofs` and `ChatProofs` those of the programs of `IpcPrograms` and `ChatPrograms` | |

Conventions: `pc[p]` is the statement that p executes next, so that an action is
one statement, or several that nobody else can observe between; variables have
the names of the code. A module that puts programs together extends one of them,
instantiates the others, and has a variable `program`, chosen at the start, that
says whose steps are taken: the programs do not share state, and a property of
one holds trivially while another runs. `Exited`, `Ended`, `Stopped`
and the `Idle` of `AsyncChat` are self-loops of final states, so that the deadlock
check stays on in every run. The programs of `IpcPrograms` and `ChatPrograms`
may also rest where all wait for each other or for a user (`Idle`,
`Silent`); that nobody waits so who should not is a matter of their
liveness properties. Operators whose comment begins with "A broken X" are variants
of the definition X as a plausible mistake would leave it; nothing uses them, and
`PROJECT.json` names for each property one that it must detect.

## 3. Abstractions that apply to several modules

* Texts are reduced to what the code branches on ("q" or not, a number or not);
  `ModuleDevice!Text` keeps the loss of the last character (`*(p - 1) = '\0'`).
  A typed line, or what a command prints at once, is one unit in a pipe or FIFO;
  a message on a TCP stream is one or two parts. Other random numbers and time are
  left out.
* A variable that has no value yet holds any of a few (`ArrayFile!Garbage`), and
  where a program writes or reads what is not its own, it goes to a state
  ("undefined", "oops", `Crashed`) of which nothing more is claimed; the properties
  say when that can happen.
* Integers of the kernel sums go up to `MAX` and wrap around. The random
  numbers there are every number that `rand_num_get` can return.
* Kernel services are modelled by what the code relies on. Registration calls
  fail with the value the code tests for (NULL or -1). The kernel often uses
  other values, which the code does not see; only `StopKthread` has such a
  failure, the ERR_PTR of `kthread_run`.
* `kthread_stop` of a thread that has not run yet ends it without calling its
  function, as in `kernel/kthread.c`.
* A write to a connection whose peer has gone ends the broadcast server
  (SIGPIPE); a write to a closed descriptor has no effect.
* User programs are built with plain `gcc`, without optimisation: each C access
  of a shared variable is one load or store.

## 4. Runs

Every run checks deadlock as well. A module's `IInv` is the conjunction of its type
invariant and its named safety invariants (`NoLostWakeup`, `ExclusiveOpen`,
`HeapBalance`, `DestroyedUnused`, `MutualExclusion`, `DeviceAllOrNothing` and so
on, each stated with its own comment), and runs check the conjunction. In the same
way `TurnsHandedOut`, `EverythingArrives`, `RecordsKept`, `EverybodyEnds`,
`HeardOnce`, `MessagesCounted`, `TextShown`, `SortInvariant`, `ReadsNumbers` and
`SumOfParts` stand for the parts that their definitions name. Which program runs, how many threads it has, or which
driver it is, is chosen in the initial state.

| Run | Shows | Bounds |
|---|---|---|
| `threads` | `tic_tac.c` and `1_2_3.c`: the invariant of the proof, `NoLostWakeup`, the order of the lines, the refinement of `RoundRobin` with its progress. `mutex3.c`: no number skipped or repeated, nobody left waiting, the schedule of the comment up to the first spurious wake-up. main exits, spurious wake-ups or not | 2 threads with a signal, 3 with a broadcast, and `COUNT_TIMES` 5, halts at 2 and 5 and 10 as the end, all as in the code |
| `kernel_modules` | `tic_tac`: the refinement although `turn` is tested outside the mutex, and exit returns unless tic was stopped before it ran. `stop_kthread`: exit returns; when it reaches for a task that is gone. The radio: one open file, and its count. Texts: cat shows a whole text, once, and the number stored is that of the text, unless writes overlapped. The kernel sums: what becomes of the numbers as limits are set in any order | `COUNT_TIMES` 10 and `STEPS` 100 as in the code; 2 users of the radio's three devices; 2 writers and 2 writes to a buffer of 4, cat reading 2 characters, 2 interrupts; integers from -4 to 3, arrays of 1 or 2 numbers, 2 parameters set after insmod |
| `array_stays` (expects a violation) | the array of `array_sum_rand` can be changed after insmod | as `kernel_modules` |
| `driver` | four drivers whose node is opened, closed and interrupted by signals while the module is loaded, fails to load and is unloaded: the gate's invariant, exclusive open and O_NONBLOCK while no two tasks were in the kernel at once, what a failed load leaves and whom it locks out, nothing left by a load that succeeded, the interrupt handler only where there is a module, every open returns unless the other task takes the node again and again, and the whole implements `OpenGate` | 2 tasks, one with O_NONBLOCK, with any number of opens and signals; 2 failures, 3 loads, 1 interrupt |
| `device` | one array at most, freed once; a mutex that stays locked means no array and no thread; the thread stays inside its array unless a write came early; what lies behind the array shows only between a write and the reallocation; `cat` is given every number of an array that fits once, if no number is shorter as text than it is in the array, and is told that they fill its whole buffer; when what lies behind `tmp_buffer` or the reader's buffer is touched; a new amount reaches the array; writes return | 2 writers; amounts -1 (refused, no kmalloc takes it), 5 and 600, and 60, which is 600 without its last character; numbers of 11 characters, so that 5 and 60 fit into `tmp_buffer` and 600 do not; readers that ask for 100 bytes, less than the text of 60 numbers, or as cat does for 131072; 2 reads |
| `philosophers` | nobody reaches for a stick too early or, stick 1 excepted, too late; the counter is never too high; exit returns unless the barrier lost an increment; somebody eats | 3 philosophers: a first, a middle and the last, whose right stick is the odd one |
| `phil_fork` (expects a violation) | `take_left_stick` reports as not taken a stick that was taken | 3 philosophers |
| `shmem` | where no store waits: the two locks and who reads next, mutual exclusion, whole messages and the end by `q`; with store buffers too, the two read in turns | buffers of 0 or 3 stores, 2 lines besides `q` |
| `ipc` | semaphores: turns are counted through kills and exits, mutual exclusion, the server prints what a client wrote, `q` ends the server unless the client's exit took the signal back. Pipes: every text is shown once, nobody is killed by SIGPIPE unless a fork or the log failed, readers see the end. FIFO: the first server keeps its name, clients end when their server has. Signals: a receiver whose pid is known ends by its handler, both end. Locks: whose record is overwritten, everybody gets a region or ends | 3 clients one after the other and 3 lines; 3 texts of a command; 3 FIFO clients, 2 runs of the server with 3 lines each; 3 processes on 3 regions, 2 failures of F_SETLKW |
| `queues` | the chat: messages under way match the processes waiting, somebody can always talk, and while there is one client its `quit` ends the server. The examples: one client is answered; a second may be taken for the confirmation; everybody ends | 3 clients; 1 message each and `quit` in the chat |
| `sockets` | the broadcast chat: slots are distinct, present clients hear everything, nobody hears himself, and whoever gets a message through a slot not his own has the descriptor of somebody who left while it was sent. The chat with one client: printed in order, when "quit" is seen, when `FORM_MSG` writes behind its buffer | 3 clients, which are alike (symmetry; the run checks invariants only), 3 slots, 1 message each, 1 failure of `malloc` or `pthread_create`; up to 5 parts sent, reads of up to 3, lines of up to 5 characters for a buffer of 4 |
| `arrays` | sorted, the same elements, and the loop invariant; the numbers of a file are read in order, whatever the index started at; what the unlocked sum can be | all arrays of up to 5 elements over 4 values; all files of up to 5 characters (a digit, a minus, a comma, anything else) for an array of 2, a loop of 3 and numbers of 2 characters, index 0, 1 or 3 at the start; 8 elements added by 2 threads |

The bounds let each protocol go through its cases several times: two or three
actors are enough for every race of two with a bystander, and the counters start
over (a slot, a descriptor, a turn, a load of the module, the name of a FIFO) at
least once; where the code has limits (an array of 7, a loop of 10, 32-bit
integers, a buffer), the model has the same limits in the same order, made small. What
does not depend on small numbers is proved (section 5).

### Fairness

Weak fairness of a program's next statement says that a runnable thread or
process is scheduled; it is assumed of all threads and of none of the choices of
users (opening, typing, pressing a key, rmmod), except where a comment beside
`Fairness` or `Spec` says that a user answers. Strong fairness is assumed only
for taking a pthread mutex (`ProcessPrograms`): a thread that is let try
again and again gets it in the end, as the futex of glibc and the scheduler
provide; spinning and trylock have no such assumption. The kernel's mutex in
`ModuleDevice` hands itself to waiters in turn, which makes weak fairness enough.
In `IpcPrograms` every process runs, whoever holds a record lock has its key
pressed, and whoever types for the FIFO server stops after `LINES` lines; nobody
has to be started or killed. Of the queue programs a client need not be started nor its
line typed, and in `KernelModules` nobody has to call rmmod, but an exit once begun
goes on; the radio, texts and sums are not asked to make progress.
`OpensReturnHere` assumes that a task in the kernel goes on, and so that the
kernel preempts or has a second CPU: an open with a signal that `is_sig` does not
see would spin for ever on one CPU that is never taken from it. It claims nothing for
a task while others set the flag infinitely often: `wake_up` hands the node to
nobody, and who is woken competes with whoever calls open() then, so that no fairness
of the scheduler keeps a task that opens and closes without end from being there first
each time. That this is needed can be seen by dropping the last disjunct: TLC shows the
other task overtaking for ever.

## 5. Proofs

TLAPS checks these for every value of the constants, from the named assumptions
of the modules and nothing else. Each rests on an inductive invariant (`IInv` of
the module) that the run of the component also checks, and is proved one action
at a time. Where a property was not inductive by itself, the argument names the
definition that had to be added to it.

| Theorem | Says | Argument |
|---|---|---|
| `ProcessProofs!InvariantHolds`; `TurnsInvariant` | `IInv`, lost wake-ups included, for any number of threads, where two signal and more broadcast | `mtx` is held by one thread past its lock; only the thread whose turn it is prints; whoever sleeps with the turn has its wake-up still to come. With a signal and two threads, only the other one can be asleep |
| `ProcessProofs!OutputInStep`, `ImplementsRoundRobin`; `TurnsImplementRoundRobin` | lines are printed in cyclic order; every step is a `PutLine` or a stutter of `RoundRobin` | the abstract turn moves on at `Printf`, before the code's `turn` does; `IInv` says who is between the two |
| `ProcessProofs!NumbersAlwaysCounted`, `NoIncrementLost`, `ScheduleKept` | for any halts: no number is skipped or repeated; until a spurious wake-up, who prints what is as the comment says | which tests can have been passed with which `count`, per place in the code |
| `ProcessProofs!AlwaysSorts` | arrays of integers of any length: sorted, the same elements as often, an empty one refused | `Prefix`, `Minimum`: the loop invariants. `Exchange`: swapping two elements is a bijection between the indices of a value before and after |
| `ProcessProofs!AlwaysReadsNumbers` | any file, array size, limit, length of a number and start value of `num_index`: which number is shown where, and when main writes outside the array or reads an unset index | `Stored`: as many elements as commas read, each with its field's number; `UnderWay`: the text so far is that of the field under way, or of the last that was not empty. What a field says (`TextTo`) is the characters of a rank among its own, so that one more character adds one more rank (`NthAdded`), and not a fold |
| `ProcessProofs!SumAlwaysBounded` | any even length from 8 on: no more than the sum, the sum unless a store undid another, and no less than one thread's first element and the other's last | `AtMost`: what is loaded is no more than what has been added since. `AtLeast` says by which thread the sum was stored last and what it can have loaded at worst. With fewer than 8 elements the first half alone can be less than the bound |
| `KernelModulesProofs!InvariantHolds`, `ImplementsRoundRobin`; `TurnsInvariant`, `TurnsImplementRoundRobin` | `TurnSpin` alone and as one of the five modules: the turn seen outside the mutex is still there inside; the refinement | only the owner of the turn changes it, and it does so inside the mutex. `OneRuns`: a step of the five is a step of one of them and a stutter of the others |
| `KernelModulesProofs!ThreadIsLive` | any number of rounds: for which tasks `kthread_stop` is called | the task is freed only after the thread function has returned, which needs all rounds or the stop itself |
| `KernelModulesProofs!OpenFilesCounted` | any number of processes: one open file, and the count | `Alone`: until two race, one process is in the driver, what it has read is still there, and past the test nobody holds the radio |
| `KernelModulesProofs!SumsKept` | any width of int, size and order of parameters: the sum, the zeros after inverted limits, one factor between the limits, and when the range is 0 | `Untouched`: what is not multiplied is as given; `LimitsNatural`: `array_sum_changeable` takes no limit below 0. `RandBetween`: a number of `rand_num_get` is between its limits although the sum in it wraps around |
| `KernelModulesProofs!TextsShown` | any buffer, writers, writes and interrupts: cat shows a text written alone whole and once; the number is that of the text | `Showing`: what is shown is the beginning of what the buffer holds; `OneWriter`: a writer that is alone finds the number it has read; the text always ends inside the buffer |
| `DriverProofs!GateInvariant`, `OpenIsExclusive`, `NonblockReturns` | for any tasks and signals: no stuck flag, no lost wake-up; and unless two tasks were in the kernel at once, exclusive open and no sleeping O_NONBLOCK open | the flag is cleared before the queue is woken and tested after enqueueing; between test and set nobody else is in the kernel |
| `DriverProofs!ModuleInvariantHolds`, `ExitLeavesNothing` | any number of loads, failures, users, interrupts: which driver leaves what behind, and what it locks out; only a failed init leaves something | that no node outlives its module is not inductive by itself: `Progress` says what is registered at each step of init and exit, and which drivers never leave their `cdev`; `Passed` that init is past free names only. `Orders` and `LastSteps` are what the two orders of a driver have to do with each other |
| `DriverProofs!DriverIsGate`, `DriverGateInvariant` | every driver, loaded and unloaded at will, implements `OpenGate`, and has its invariant | nobody is inside when a module is loaded or leaves, by `Progress`, and so the new flag and queue of `Load` are those that were there |
| `ModuleDeviceProofs!DeviceInvariant`, `HeapBalanced`, `ThreadStaysInside` | for any writers, amounts and allocation failures: every array is freed once; unless a write came early, the thread never fills in more numbers than its array has room for | `nums_array` and `current` change together; until the thread has copied the amount, only an early write can part them |
| `ModuleDeviceProofs!CatShowsAll`, `OutsideShows` | any amounts, widths and lengths asked for: an undisturbed reader is given each number once, and told that they fill its buffer; only a text longer than `tmp_buffer`, or than what was asked for, is copied from behind the one or to behind the other; when a read passes the end of the array | `ArrayLives`: while the node is there the array is, or the mutex is lost; `CatCounts`: an undisturbed reader has read nothing or, in one call, all, as one `tmp_buffer` takes all the numbers (`room` in `Lines`) |
| `PhilosophersProofs!InvariantHolds`, `BarrierHolds`, `ExitIsOrderly` | the barrier and the order of exit, for any number of philosophers, lost increments or not | the counter never exceeds the number of those that have arrived; when it is N, all sticks are initialised. Stopping in order means users of a destroyed stick other than 1 are gone |
| `ShmemTurnsProofs!LocksHold`, `Exclusion` | mutual exclusion of the two chat programs, for any number of lines, where no store waits | a process past its wait is there because the other does not compete or has yielded; this holds also for one that goes round with its lock set |
| `ShmemTurnsProofs!TurnsToRead` | the two read in turns for store buffers of any length; whole messages where no store waits | `Alternating`: the last reader's store to `readlast` is in memory or is its only one under way, and only the other can take the string; `Talking`: what the string is at each place of the two |
| `IpcProofs!RecordsKeptAlways` | any processes, regions, failures of F_SETLKW: whose record is overwritten, and by whom | `OwnersAlone`: a lock asked for as F_WRLCK is its holder's alone, whatever others unlock; `Intruded`: only a process without a lock writes into its region; `InLine`: without failures all wait in the first region |
| `IpcProofs!TurnsAreHandedOut` | any clients, lines, kills: one turn, and one more for each signal taken from a client that has ended; exclusion and whole messages while there is one | `Balance`: what the kernel would undo is what the client took and has not given, and what it gave is there or taken by the server |
| `IpcProofs!EverythingArrivesAlways` | any texts, lines and clients of the pipes, the FIFO and the signals | pipes: `Places`, who can be where with and without a child, and `SomeoneReads`; FIFO: `NoneBeyond`, no client reaches the end of its file while the first server has its own open; signals: `Prepared`, mask before handler before pid |
| `ChatProofs!MessagesAlwaysCounted` | any number of clients and messages. The chat: as many turns to talk, in the queue or with a process, as clients have come. The examples: one answer, to one client; who is answered when the queue goes | chat: `Holders` and `Came` are sets that grow and shrink with the queue; `Sleeping`, who is among the receivers sleeps, and once, so that a message that wakes one gives its turn to somebody without one. Examples: `OneAnswer`, the answer is to come, in the queue or read; `TextsSent`, a second text is a second client's, and `OneLess`, what taking one message out of the middle leaves |
| `ChatProofs!SlotsAlwaysDistinct`, `AlwaysHeardOnce` | any clients, slots and messages of the broadcast chat: whose slot is whose, who hears what, when a descriptor is in two slots | `Slotted`: clients that are not main's newcomer are below `clients_num`, and the newcomer's slot is that number. `Connected`: open descriptors and served clients are in bijection, so that `accept` finds a free one (a pigeonhole argument) and a hit in the loop over the slots is the client meant. `Departures` and `InHand`: the descriptor a thread has loaded is that of a client who still has it or who has closed it since the message was read, whatever came between the loads, and never its own. `Owed`: whoever is still to get a message has a slot that the loop has yet to come to, or the descriptor in hand |
| `ChatProofs!AlwaysReadInOrder` | any size of buf, messages and typed lines of the chat with one client | `Unended`: a "quit" read as one message has ended the chat at once; `Rest`: what is left of a line is not longer than it was. `LastPart`: what two sequences put together end with |

Only model-checked: everything about liveness and `ENABLED` (no prover for it), and
what `atoi` computes, a fold over the digits of a number (induction over data): the
proof of `ReadsNumbers` says which text it is given, and not what it makes of it.

## 6. What the models show of the code

Two runs show a disagreement between the code and what it says.
`phil_fork`: `philosophers.c:66` takes the 1 of a successful `mutex_trylock` for a
failure, prints "failed to take LEFT stick" and leaves that stick locked.
`array_stays`: `array_sum_rand.c:24` says that the mode 0660 keeps the array from being
changed after the module is loaded; it lets root do so, and the sum stays the old one.

The others are conditions of properties that hold; each is a state or a history
variable that one can drop from the property to see the counterexample:

* `CountHalt!Schedule`: `mutex3.c:49` tests with `if`, so that the schedule of the
  comment holds only until a spurious wake-up (`AsCommented` without `spurious`).
* `ModuleDevice!GeneratesInside`: `module_device_main.c:114` copies the amount when
  the thread first runs; a write before that makes it fill an array too small.
* `ModuleDevice!LeakMeansNoArray` and `WritesTakeEffect`:
  `module_device_main.c:127` leaves the loop with the mutex locked when an
  allocation has failed; after that no write returns. The amount that fails may be
  a refused one, for `module_device_write.c:41` stores it before it is tested.
* `ModuleDevice!OutsideOnlyInWindow` and `CatShowsArray`: `module_interface_read.c:23`
  takes the bound from the amount and not from the array, and every read begins
  with the first number, so that an array longer than `tmp_buffer` is printed from
  its beginning again. Line 53 returns the length asked for and not what was copied, so
  that `cat` prints the rest of its own buffer after the numbers and is at the end after
  one read; a text longer than `tmp_buffer` (600 numbers) or than the reader's buffer is
  copied all the same (line 31). The offset counts characters and the end is counted in
  numbers, so that texts shorter than a number would be printed again, too.
* `OpenGate!ExclusiveOpen`: the flag is tested and set without a lock, which is
  enough only where no two tasks are in the kernel at once. `OpensReturnHere`:
  `rand_or.c:38` and its copies wake the waiters and keep the node for none of them.
* `CharDev`: after a failed load the driver's left-overs (`left`) keep it from being
  loaded again. A failed `request_irq` or `kmalloc` leaves the node of a module that
  is gone (`NoNodeWithoutModule` is claimed of the other two drivers only).
* `ExitsReturn`: tac is waited for in vain if tic was stopped before it ran;
  `Philosophers!CleanupReturns`: lost increments of the start counter;
  `DestroyedUnused`: stick 1 is destroyed while the last philosopher may take it.
* `StopsLiveThread`: nobody holds a reference to the task of `stop_kthread.c:39`, so
  that the exit on line 52 may stop a task that has counted to `STEPS` and is freed,
  or an ERR_PTR.
* `RadioCounted`: `radio_or.c:7` tests and increments without a lock; two opens at
  once both succeed, and a lost update can leave the device open for good. What is checked is that
  nothing else makes the count wrong; after a race (`raced`) nothing is claimed.
* `TextShown`: `rand_write.c:25` overwrites the text in place, and after a refused
  text the number of the one before stays.
* `SumKept`: `array_sum_changeable/array_sum_rand.c:60` multiplies on every limit that
  is set, in the order of the command line; limits that are the wrong way round for a
  moment give factors 0, and the array is 0 from then on. Neither module tests its
  limits against each other, although their descriptions (line 41 there) ask for
  0 <= low < high;
  in `array_sum_rand` the two extreme limits make `rand_num.c` divide by 0.
* `ShmemTurns`: with store buffers mutual exclusion, whole messages and the end of
  both programs are lost; that they read in turns (`ReadInTurns`) is not, for
  `readlast` alone sees to that.
* `IpcPrograms!QuitEndsServer`: SEM_UNDO takes back the client's last signal if the
  server has not taken it when the client exits; `TurnsAreCounted`: a client that
  ends after the server has answered leaves one turn too many.
* `MsgChat`: every `msgrcv` asks for any type, so that a client can print its own
  message as the server's (`msgclient.c:36`); with two clients, one of them may
  take the `quit` of the other.
* `AsyncChat`: `clients_num` is not lowered when a client leaves
  (`async_server.c:69`); slots are distinct only until a `pthread_create` fails.
  `ThroughOwnSlot`: lines 63-64 load `sockets[i]` three times before the write; whoever
  closes, and whoever is accepted with the same descriptor between, makes a newcomer
  get the message by a slot that is not his, and perhaps again by his own
  (`departed`). Line 143 reads `client_data` although the thread may have freed it
  (`DetachFreed`).
* `MsgExamples`: `msgserv.c:22` takes the text of a second client for the
  confirmation, and that client prints its own buffer as the server's answer.
* `SocketChat`: `socket_server.c:74` sees "quit" only at the beginning of what a read
  returns; `:20` puts the NUL of a long line behind the buffer.
* `FileLocks`: F_GETLK leaves F_UNLCK in the request of a region that has become free
  (`testlocks.c:36`), and the next attempt then "locks" with it: the record is written
  without a lock. In `testlocks.c` that takes a failing F_SETLKW; in
  `testlocks_original.c` any refusal can do it.
* `Fifo!FirstKeepsName`: `typeclient.c:21` removes the FIFO by its name. That of a
  second server may be taken away by a client of the first; `fopen` then makes a
  regular file, or a client and a server wait on two FIFOs.
* `Pipes!ShownOnce`: when fork fails the parent goes on as the child; in `printns.c` it
  then holds the only end for reading, closes it and is killed by SIGPIPE.
* `Signals!SaysGoodbye` holds because the pid is sent after `sigaction`.
* `ArrayFile!ReadsNumbers`: `array/main.c:19` leaves `num_index` and `char_idx` without
  a value, the loop takes 10 numbers for 7 elements, and an empty field repeats the
  number before it.
* `SumOfParts`: without a lock (`array_sum.c:14`) the sum may be as low as one thread's
  first element and the other's last.

## 7. Plan

Done, in this order: turn taking (abstract ring, two implementations, proofs);
`mutex3.c`; the device gate; `module_device`; philosophers; registration and its
composition with the gate, for four drivers; the chats; sorting; then, each as a
further program of a run: arrays and sums, the small kernel modules, the queue
examples, the second socket chat, pipes, FIFO, signals and record locks.

Proofs, in this order: the turns, the halts, the gate, the array of `module_device`,
the philosophers and Peterson's locks; then registration and the drivers as an
implementation of the gate, the five kernel modules, the programs of `IpcPrograms`,
of the shared memory who reads next, the programs on a message queue and those over
TCP; the sort, the sum of two threads and the numbers of a file.

Every safety property that a passing run checks is stated by a theorem now. Next: which
of the liveness properties have a safety part worth a theorem of its own (that whoever
waits has somebody who will wake it), and the parts of the components listed as partly
modelled.

## 8. Not modelled, and why

Not at all: first modules (`K/homework1`, `K/homework2`), which print or return one
value; `C/homework3/img` and the programs beside it, `K/homework1/file` and
`K/homework7`, which open, read or draw and end: one process, no state between
calls, no order to get wrong; `*.mod.c`, which the kernel build generates.

Inside modelled parts: a client that attaches to shared memory before the server
has initialised it, and the removal of the block; two clients of one semaphore set
at a time, and a killed server there; two servers on the FIFO at a time; an F_GETLK
that fails; undefined behaviour of a write of length 0 to `module_device`;
registration of the radio, which is like the four others, and the text written to
it; ERR_PTR and negative numbers other than -1 as failures of a registration;
eating times. `PROJECT.json` has these as notes of the components.
