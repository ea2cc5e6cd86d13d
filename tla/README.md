# A verification project for Linux_API_Pratise

The repository is a collection of Linux programs in C: a thread pool, a small HTTP server, echo
servers around `select`, `poll` and `epoll`, producers and consumers, programs that reap their
children, programs that exchange data through pipes, mappings, named pipes and datagrams, and
many short exercises of one system call each. This directory holds TLA+ models of
the ones that have a logic of their own, the TLC configurations that check them, and proofs for
TLAPS.

    tlc -workers 2 -config ThreadPool_fixed.cfg MCThreadPool.tla      # any run of the table below
    tlapm ThreadPoolProofs.tla                                        # any *Proofs module

`PROJECT.json` lists the runs, the mutants that show that each property can fail, the source
lines of each definition, the hazards of the code and the theorems.

## 1. Inventory

| component | source (under `src/`) | state | operations | behaviour that is hard | what makes it correct |
|---|---|---|---|---|---|
| Thread pool | `pthread_test/threadpool.c`, `threadpool.h` | three counters, a ring of tasks, an array of thread ids, `shutdown`, two mutexes, two condition variables | `threadpool_create`, `_add`, `_destroy`, `_free`; threads `threadpool_thread`, `adjust_thread` | workers, manager, callers and destroyer interleave; some writes are made without the lock; decisions are taken on counts read earlier; signals go to whoever waits | counters mean what they say, the ring is a queue, no wakeup is lost, the pool is freed when nobody uses it |
| Condition-variable queue | `pthread_test/cond_product_consumer.c` | a list, a mutex, a condition variable | `producer`, `consumer` | the signal is sent after the mutex is released | one owner per message, no lost wakeup |
| Semaphore ring | `pthread_test/semaphore_producer_consumer.c` | a ring, two semaphores, two private indices | `producer`, `consumer` | no mutex at all | the two never meet in a cell; the ring is a first-in first-out queue |
| Child reaping | `IPC_test/catch_child.c`, `IPC_test/sig_wait.cpp` | signal mask, handler, one pending bit, the children | `main`, `catch_child`, exits | children die before the handler is there, or while it runs; signals merge | every dead child is recycled |
| HTTP server | `http_server/tinyhttp.c` | the epoll set, the connection at hand, the line being read | `epoll_run`, `do_accept`, `do_read`, `get_line`, `http_request`, `send_respond`, `send_file`, `send_error`, `disconnect` | edge-triggered events, requests in pieces, clients that leave, files that vanish, full send buffers | every request is answered, and about what was asked; what is sent is accounted for; nobody is forgotten or thrown out |
| Socket wrappers | `socket_test/wrap.c`, `wrap.h` | none of their own (descriptors) | `Accept`, `Read`, `Write`, `Close`, ... | which errors end the process | a failed call either ends the process or is seen by its caller |
| select echo servers | `socket_test/select_sever.c`, `select_effective.c` | `allset`, `rset`, `maxfd`, `client[]`, `maxi` | one loop: select, accept, read, write | what was reported is acted upon after an accept and after closes; descriptors and slots are used again | no read blocks; the tables and the open connections are the same; every client gets its echo |
| poll echo server | `socket_test/server_poll.c` | `client[]` with `revents`, `maxi` | likewise | `revents` of a fresh entry was written by nobody | likewise |
| epoll echo server | `socket_test/epoll_server.c` | the epoll set, `ep[]` | likewise | an event behind an accept that used its descriptor again | likewise |
| Thread-per-connection server | `socket_test/mul_pthread_sever.c` | `ts[256]`, its index, a thread for each connection | accept, `do_work` | entries are used once, descriptors again; a signal raised by one thread ends all | each connection has one thread and each thread a connection |
| libevent echo server | `libevent_test/ev_server.c` | bufferevents with their output buffers, the events to be handled | `cb_listener`, `read_cb`, `write_cb`, `event_cb` | callbacks free and create what events still to be handled are about | likewise |
| Simple client and server | `socket_test/server.c`, `client.c` | one connection | accept once, read, write | the end of the stream is not looked at | the one client is served |
| Pipes | `IPC_test/pipe.c`, `ls-wc-l.c`, `pipe_bro.c` | who holds which end, what is in the pipe | fork, close, dup2, exec, wait, read, write | the end of the stream comes when the last writing end is closed; fork and exec may fail while others wait | all that is written is read; every process ends; SIGPIPE only where nobody reads |
| Shared mappings | `IPC_test/mmap_w.c`, `mmap_r.c`, `mmap.c` | the file, the record in it | copy, print | nothing synchronises; a restarted writer truncates the file | what is printed is a record that was written; SIGBUS only where the file was truncated |
| Named pipe with libevent | `libevent_test/read_fifo.c`, `write_fifo.c` | the fifo with the name, the one each process has open | `read_cb`, `write_cb` | a restarted reader makes a new fifo, a writer keeps the old one | a reader gets what was written after its start, and gets it |
| UDP client and server | `socket_test/udp_client.c`, `udp_server.c` | `client_addr`, its length, datagrams on their way | send a line, answer it | datagrams are lost, nothing is sent again, the first address is half unset | an answer belongs to its question; a client waits for ever only for a reason |
| Directory walk and renaming | `io_function_test/ls-R.c`, `mymv.c` | the directories being read, the names | opendir, readdir, stat, print; link, unlink | names come and go between readdir and stat; a result nobody looks at | a file keeps a name; what stays is shown once; the walk ends |
| Process exercises | `processAPI_test/` | children | fork, exec, wait, waitpid | order of deaths | children end and are waited for (`fork_exec.c`, `wait_test.c`; the others only print) |
| Daemon, session and signal exercises; other file and directory exercises; `libevent_test/ev_client.c` | `IPC_test/daemon.c`, `session_test.c`, `sigaction.c`, `sigfunc.cpp`; the rest of `io_function_test/` | none that outlives a call | one call each | none | not modelled: nothing interleaves |

How they interact: the echo servers of `socket_test` call `wrap.c`; the `main` at the end of
`threadpool.c` creates a pool, adds 20 tasks, sleeps and destroys it; a client and a server
share a connection; the writers and the readers of a pipe, of `test_map`, of `myfifo`, of a UDP
port and of a directory share that; everything else is a process of its own.

## 2. The modules

    TaskQueue  <--refined by--  ThreadPool   <-- MCThreadPool,  ThreadPoolProofs
               <--refined by--  SemRing      <-- MCSemRing,     SemRingProofs
                                CondQueue    <-- MCCondQueue,   CondQueueProofs
                                ChildReaper  <-- MCChildReaper, ChildReaperProofs
                                TinyHttp     <-- MCTinyHttp,    TinyHttpProofs
    EchoNet <-- SelectEcho, PollEcho, EpollEcho,
                ThreadEcho, EventEcho, OneEcho          <-- EchoServers <-- MCEchoServers,
                                                                            EchoServersProofs
                Pipes, SharedMap, Fifo,
                Datagrams, FileTree                     <-- Exchanges   <-- MCExchanges,
                                                                            ExchangesProofs
    QueueLemmas  <-- ThreadPoolProofs, SemRingProofs

Definitions have the names of the source where it has one: variables are the fields of
`threadpool_t`, the locals of `main` and the like. Operators whose comment begins with "Mutant"
are plausible slips in the code; `Spec` uses none of them.

**TaskQueue** is abstract: tasks wait in arrival order in a bounded queue, are started from its
head once each, and are finished. It is what `threadpool.h` promises and what the semaphore ring
is for.

**ThreadPool.** `worker[s]` says where the thread is whose id is in `threads[s]`; `adder[a]`,
`manager` and `destroyer` do the same for the callers of `threadpool_add`, for `adjust_thread`
and for the caller of `threadpool_destroy`; `m` and `d` are the locals of the last two. A
section under `pool->lock` is one step, except where somebody can act in its middle without the
lock: between a worker's test of its loop condition and its wait (`prewait`), and in the loop
that creates threads. `pthread_cond_signal` wakes any one waiter, waits may end spuriously,
`pthread_create` may fail if `CreateMayFail`, and `is_thread_alive` may give either answer where
glibc leaves it open. `AddersFirst` says that `threadpool_destroy` is called after the last
`threadpool_add` has returned, as `main` does.

| code | action |
|---|---|
| `threadpool_add` up to a wait or its return; again after the wait | `AddCall`, `AddRetry` (`AddWaits`, `AddDrops`, `AddEnqueues`) |
| `threadpool_thread`: head of the loop, wait, after the wait | `WorkerStart`, `CondWait`, `WorkerWakes` (`PrepareWait`, `Leave`, `Dequeue`) |
| the rest of its body, thread end | `BusyInc`, `Execute`, `BusyDec`, `EndThread` |
| `adjust_thread` | `ManagerLoop`, `ReadPool`, `ReadBusy`, `LockToGrow`, `CreateThread`, `SkipSlot`, `StopGrowing`, `Shrink`, `NoShrink`, `SignalIdle`, `SignalledAll` |
| `threadpool_destroy`, `threadpool_free` | `DestroyCall`, `JoinManager`, `BroadcastTurn`, `JoinTurn`, `Free` |

**CondQueue.** `list` is the list behind `head`; messages are the blocks of `malloc`, which
hands out only blocks nobody has. The signal is a step of its own, after the unlock.

**SemRing.** Each semaphore operation and each access to a cell is a step. Products are numbered
in the order in which they are made, so that a loss or a swap shows; the code draws them at
random, and never 0, which marks a blank cell.

**ChildReaper** is both programs; `BlockFirst` tells them apart. The kernel's part: one pending
bit, set by an exit if the signal is blocked or handled, discarded otherwise.

**TinyHttp.** Each `recv`, `stat`, `open` and `send` is a step; clients, network and file system
act in between. What a client sends, `Stream`, is its requests one behind the other as a sequence
of five kinds of token. `Cuts[c]` says after which of them the client may pause or the network
cut; what arrives between two cuts arrives at once, so that a client may have sent its second
request before the server has begun with the first. A file is some blocks of what `send_file`
reads at once; `lost` counts the blocks that `send` refused or took in part. `open` may fail for
whatever reason, and `epoll_ctl` as well. Three histories serve the properties: `torn` are the
clients a line of whom ended because nothing more had arrived, `left` those of whom there was
more to be read behind the blank line at which `do_read` stopped, `answered` counts answers.

| code | action |
|---|---|
| `epoll_run` | `EpollWait`, `EventsDone` |
| `do_accept` | `Accept` |
| `do_read` and `get_line` | `DoRead`, `RecvToken`, `Peek`, `RecvNothing` (with `RequestLine`, `HeaderLine`, `Disconnect`) |
| `do_read` after the headers, `http_request`, `send_respond`, `send_error` | `Stat`, `HttpRequest`, `SendError` |
| `send_file` | `OpenFile`, `SendBlock`, `FileSent` |
| clients, network, files (external) | `Connect`, `Send`, `Close`, `ResetArrives`, `FileVanishes` |

**EchoNet** holds the wrappers the servers use (`Accept`, `Read`, `Write`, `Close`, and what their
errors do) and TCP with its clients: they send, shut, close or abort, and connect again;
descriptors are handed out lowest first (`LowestFd`). **SelectEcho** (both programs; `Effective`
tells them apart), **PollEcho** and **EpollEcho** have one action for each call the loop makes and
take skipping over descriptors that are not ready as part of the step before. In `EpollEcho` an
`epoll_ctl` that does not add the connection ends the process, with the connection accepted and
not watched.

**ThreadEcho** is `mul_pthread_sever.c`: `ts` is the array as far as it is filled, and each entry
also says where its thread is. `accept` takes its descriptor before it waits (`AcceptCall`), as
Linux does, so that a descriptor is spoken for while other threads close theirs (`AcceptReturns`).
A store behind `TsSize` entries may do nothing or end the process. **EventEcho** is `ev_server.c`:
the events libevent has activated are handled in any order, each by the callback of the code with
what libevent does around it (external). **OneEcho** is `server.c`, which at the end of the stream
writes the 0 bytes it has read, and so may meet SIGPIPE there, too (`ReadBytes`, `WriteBack`).
**EchoServers** starts one of the seven programs and asks the same questions of each.

**Pipes** gives each process a script, the calls of its branch of `main` in their order, and one
action for each kind of call; `wc` and `ls`, which exec turns a process into, are external.
**SharedMap**: a copy takes two steps, the fields of the record in either order, and so does
printing; `OpenWriter` truncates, `MapWriter` extends, `Stop` is the user, `Bus` is SIGBUS.
**Fifo**: `myfifo` is the fifo that has the name now, `opened` the one each process has; unlink,
mkfifo and open are steps of their own. **Datagrams**: `SenderAddress` is what `recvfrom` leaves
in `client_addr` when it is given the wrong length first. **FileTree**: `frames` is the recursion
of `read_dir`, with what each `readdir` still has to return, may return and has returned. The
steps of `mymv` change that for the directories at hand (`Changes`): a name that comes or goes may
be returned, or not, and once more if it was returned before, all of which POSIX leaves open.
`stat` may fail for a file that is there. **Exchanges** starts one of these groups of programs and
asks the same questions of each.

| code | action |
|---|---|
| `mul_pthread_sever.c`: `main`; `do_work` | `AcceptCall`, `AcceptReturns`; `ReadEnd`, `ReadError`, `ReadData`, `WriteBack` |
| `ev_server.c`: `cb_listener`, `read_cb`, `event_cb` (called from `ReadEvent`, `WriteEvent`) | the same names |
| `pipe.c`, `ls-wc-l.c`, `pipe_bro.c`, `fork_exec.c`, `wait_test.c` | `Fork`, `CloseEnd`, `Dup2`, `Exec`, `Wait`, `Write`, `ReadOnce`, `Exit` |
| `mmap_w.c`; `mmap_r.c` | `OpenWriter`, `MapWriter`, `CopyPart`, `CopyAll`; `OpenReader`, `LoadId`, `Show` |
| `read_fifo.c`; `write_fifo.c` | `UnlinkFifo`, `MakeFifo`, `OpenReader`, `read_cb`; `OpenWriter`, `write_cb` |
| `udp_server.c`; `udp_client.c` | `StartServer`, `Receive`, `SendAnswer`; `Ask`, `PrintAnswer`, `EndClient` |
| `ls-R.c`; `mymv.c` | `StartWalk`, `ReadName`, `isFile`, `LeaveDir` (with `Enter`); `StartMove`, `Link`, `Unlink` |

## 3. The runs

Runs marked V find a violation of what the source says, the others hold.

| run | cfg | what it shows | size |
|---|---|---|---|
| elastic | `ThreadPool_elastic` | a pool that grows and shrinks and is destroyed at any time: exact counters, limits kept although the manager acts on stale counts, a consistent ring, and `TaskQueue` implemented | 1 to 2 workers, ring of 2, 1 caller, 3 tasks |
| fixed | `ThreadPool_fixed` | a pool of fixed size destroyed after the last add: no lost wakeup, tasks served, callers released, nothing accepted vanishes, no use after free, destroy waits for sleepers only | 2 workers, ring of 1, 2 callers, 3 tasks |
| lost_wakeup V | `ThreadPool_lost_wakeup` | `TaskServed` fails in an elastic pool | 1 to 2 workers, 2 tasks |
| freed_early V | `ThreadPool_freed_early` | `NoUseAfterFree` fails in an elastic pool | 1 to 2 workers, 2 tasks |
| condqueue | `CondQueue` | one owner per message, no lost wakeup, messages are taken | 2 producers, 2 consumers, 3 blocks |
| semring | `SemRing` | the cells are accounted for, no clash, first-in first-out, all consumed | the 5 cells of the code, 12 products |
| catch_child | `ChildReaper_catch_child` | every child is recycled, whenever it dies | the 5 children of the code |
| http_serve | `TinyHttp_serve` | a request that is read is read to its end and answered, about what was asked; what a complete answer lacks is what `send` refused; no client that stays is disconnected, no event is lost but behind a blank line, the process dies only for the reasons the code has | 2 clients, one with 2 requests that may arrive at once, cuts inside the second's request line and between CR and LF; clients that leave, full buffers, vanishing files, failing calls |
| http_length V | `TinyHttp_length` | `LengthExact` fails | 1 client, a file of 2 blocks |
| http_spin V | `TinyHttp_spin` | `ReadErrorEnds` fails | 1 client that closes |
| echo_servers | `EchoServers` | the seven servers: no read blocks, tables exact, ends only for a reason, no echo cut short, everybody is served | 3 clients, 2 descriptors, tables of 2, up to 2 segments |
| exchanges | `Exchanges` | pipes, mapping, named pipe, datagrams, directories: what is read is what was written or is there, killed only for a reason, nobody waits for ever | 3 processes at a pipe, 2 lines; 2 writers and a reader; 3 messages; 2 UDP clients with 2 questions; 4 starts; 2 directories, 3 names, 2 moves |

Why these bounds are enough. Three tasks in a ring of two cells fill it, empty it and make it
wrap; with one cell in `fixed` both callers block. Two workers are the fewest of which one can
retire or take another's signal. `DEFAULT_THREAD_VARY` of 2 lets the manager ask for more
retirements than there are idle workers, so that the request outlives its occasion. In `CondQueue`
two of each kind are the fewest that race, and `malloc` gives blocks out again. `SemRing` goes
round its ring twice. In `TinyHttp` one client has two requests, so that there is a request to be
left behind the first one, and to meet what the first one left; the other one is the client that
is served, or not, meanwhile. The cuts are where a decision depends on them: between lines,
between CR and LF, between the requests, inside the request line of the second; a file of one
block is cut short or not. The deepest run is `http_serve` with 440,497 states. Three clients on
two descriptors make the table and the descriptors run out and be used again; one client may end
its connection in every way and send twice, as it takes to write to a connection that was reset;
the other two have one way each and send once or never (`MayEnd`, `MaySend`). `TsSize` of 2 is
passed by the third accept, whose descriptor has been used before. In `Exchanges` a pipe of one
line makes `ls` wait for `wc`; four starts are enough for two writers, a reader and one of them
again, or for a reader and a writer that are both started twice; one place for a datagram makes
the second client's be lost; two moves over three names meet a name that is taken, a file that has
gone, and a `mymv` that is stopped and started again. No run uses symmetry. TLC's bounds are the
`CONSTANTS` called bound in each module (`NumTasks`, `Nodes`, `NumItems`, `MaxSize`,
`MaxSegments`, `MaxCalls`, `PipeSize`, `MaxId`, `MaxStarts`, `MaxMessages`, `MaxQuestions`,
`BufferSize`, `Depth`, `MaxMoves`).

`CHECK_DEADLOCK FALSE` stands where the system really stops: all calls made, the pool destroyed,
all products made, all children recycled, all clients gone, or the process dead. `CondQueue`
never stops and is checked for deadlock. In `exchanges` a system may stop because the user starts
nothing more; that its processes do not wait for one another is `NobodyWaitsForEver`.

**Fairness.** Runnable threads and processes are scheduled, sleeps end, callbacks return and
children exit: weak fairness for a process that runs alone, strong fairness for threads that
compete for a mutex (it is free again and again, and a POSIX mutex is not fair, but the sections
are short and the threads sleep between them). Nothing is assumed of spurious wakeups, of new
calls, of clients connecting, sending a first segment or leaving, or of the user starting or
stopping a program. In `EchoServers` the process as a whole is scheduled; no thread of
`mul_pthread_sever.c` can keep another from its turn for ever, since each waits in `read` as soon
as it has echoed what its client sent. In `Exchanges` each process is. In `TinyHttp` a client that
has begun a request and not ended its connection goes on with it to the end of a request: the
server has no timeout, and without that nothing could be said.

## 4. What disagrees with the source

1. `lost_wakeup` (`threadpool.c:153`, `:181`). `threadpool_add` signals to wake a thread for the
   task. The worker it wakes may find `wait_exit_thr_num > 0`, left from an earlier request to
   shrink, and retire without looking at the queue or passing the signal on. The task stays
   while other workers sleep, until something else wakes one.
2. `freed_early` (`threadpool.c:300`, `threadpool.h:28`). `threadpool_destroy` joins slots 0 ..
   `live_thr_num`-1, but a live worker may be in a higher slot once a lower one has retired; it
   is not joined and the pool is freed under it.
3. `http_spin` (`tinyhttp.c:212`). `len == -1` is meant to leave the header loop on a read
   error; `get_line` never returns -1, so a client that leaves inside its headers keeps the
   process for ever.
4. `http_length` (`tinyhttp.c:58`, `:118`). The comment on `send_respond` says that the
   `Content-Length` must be exact if it is written. `send_file` does not look at what `send`
   returned but for errors, and after EAGAIN, which a connection that is `O_NONBLOCK` gives when its
   buffer is full, it goes on with the next block: the answer is complete for the server and has
   less than its header says. That nothing else is missing is `LengthAccounted`.

Further configurations, run by hand, each of one property that fails:

- `ThreadPool_destroy_hangs` (`DestroyReturns`): `shutdown` is set and broadcast without the
  lock; a worker between its test and its wait misses both and is joined for ever. `fixed` shows
  that nothing else holds destroy up.
- `ThreadPool_joins_null` (`JoinsOnlyThreads`): a worker that leaves because of `shutdown` is
  still counted; the manager, if it is growing the pool just then, finds it dead and puts a new
  thread into its slot. `live_thr_num` then exceeds the slots in use, and a slot with id 0 is
  joined.
- `ThreadPool_dropped_task` (`ReturnedIsKept`): a `threadpool_add` that meets `shutdown` returns
  0, as if it had added.
- `ThreadPool_create_fails` (`LiveMeansAlive`): a failed `pthread_create` is counted as a live
  thread.
- `TinyHttp_blank_line` (`BlankLineIsTheEnd`): if the network cuts between CR and LF, the stray
  LF is read as the blank line. `TinyHttp_name` (`AnswersWhatWasAsked`): if it cuts inside the
  request line, the name is taken from what has arrived. The properties that hold,
  `BlankLineUnlessTorn` and `NameUnlessTorn`, are of the same requests cut up in the same way: it
  takes a line that was read faster than it arrived (`torn`) to break them, and only for the client
  that sent it.
- `ChildReaper_sig_wait` (`AllReaped`): the comment at `sig_wait.cpp:42` asks what to do about
  children that die before the handler is registered; the block meant for them (`:48`) comes
  after the forks.
- `Exchanges_first_answer` (`SentBack`): `udp_server.c:52` says that the answer goes straight
  back to the client; `client_addr_len` starts as the size of a length (`:33`), so the host of the
  first sender is not stored and its answer goes wherever the stack said.

Further observations, of which no comment says otherwise:

- `ev_server.c` frees a connection at the end of its stream, with the answers that wait in its
  output buffer; `NothingCutShort` leaves it out.
- `server.c` reads on for ever at the end of the stream, and serves one client only.
- `read_fifo.c` prints the first of several messages that one read returned; either program goes
  on with a descriptor of -1 if its open fails, and then waits for ever.
- `session_test.c` tests `pid = fork()<0`, which is always 0 where fork succeeds: the parent, too,
  takes the branch of the child. `waitpid_test.c` tests `i==5` inside its loop, where it never is.
  `copy_test.c` writes each block twice. `mymv.c` unlinks the old name also if link failed: the
  only way in which `KeepsAName` lets a file go.
- `ls-R.c` passes over `.` and `..` against endless recursion (line 27), but `stat` follows
  symbolic links, and a link to a directory above is walked until the system refuses the path.
- `mmap.c` writes 12 bytes into a file of 10, and truncates the `test_map` that
  `mmap_w.c` and `mmap_r.c` use.

One more observation on `tinyhttp.c`, of which no comment says otherwise: connections are
edge-triggered and one event makes `do_read` read one request, so a second request that is
already there, or the end of a connection right behind a request, raises no event of its own and
waits for something else to arrive. The model has such clients; `NothingForgotten` and
`RequestAnswered` exempt what lies behind the blank line at which `do_read` stopped (`left`), and
nothing else: whatever arrives later, or stands in front of it, is not forgotten.

## 5. The proofs

All are of `Spec`, for every value of the constants that the named `ASSUME` of the module allows
(`PoolAssumption`, `QueueAssumption`, `RingAssumption`, `ReaperAssumption`, `HttpAssumption`,
`ClientsAssumption`, `EchoAssumption`, `ServersAssumption`, `ExchangesAssumption`). Further
hypotheses of a theorem stand in its statement.

**ThreadPoolProofs.** `CoreInv` = `TypeOK` and `LiveWithinLimits` and `RingConsistent` and
`TasksHeld` is inductive; the last two conjuncts are what makes the first inductive: a cell
between the pointers holds a task, and so does a worker that is about to run one. It gives
`TypeCorrect`, `LimitsKept` and `RingKept`. The ring's arithmetic is in the lemmas `RingGrows`
and `RingShrinks`. `BusyCountKept` adds the cardinality lemmas `OneMore` and `OneLess`.
`LiveCountKept` needs `NobodyLeft`: before shutdown no worker is on its way out because of it,
so a slot that may be found dead is one that is no longer counted. `NoWakeupLost` is for a pool
with `FixedSize` (minimum equal to maximum, positive, no failing creation; elastic pools are
finding 1). `NoStrandedTask` is not inductive: it needs `LockHeld`, that whoever is in `prewait`
holds the lock and has found the queue empty, and `AllAtWork`, that before shutdown no worker
has gone. `NoUseAfterFreeFixed` assumes only that minimum and maximum are equal and
`AddersFirst`, and rests on `DestroyProgress`, that all slots below the joining index have
ended: by `LiveWithinLimits`, `live_thr_num` is then the number of slots.
`NoTaskLost` is `[]ReturnedIsKept` under `AddersFirst`: `AddsComeFirst` says that no add is under
way once the pool is being shut down, so that no add returns without having queued its task
(without it: `ThreadPool_dropped_task`).

`Implementation` is the refinement `ImplementsPromise`, for pools of every size. The tasks of
`TaskQueue` are mapped to the ring between its pointers, to the workers that hold one, and to
`done`; a step that adds, takes or finishes is shown to be that step of the queue, all others to
leave it alone. That needs `PlaceInv`: who holds a task is told by where it is (`Placed`), what is
yet to be submitted is nowhere (`Numbered`), and a task is in one place once (`Once`, `Apart`),
because otherwise a queue that stores sets of started tasks would not change. What both
refinements need of rings and sequences is in **QueueLemmas**.

**CondQueueProofs.** `Inv` = `TypeOK`, `NodesHeld`, `MutexHeld`, `NoStrandedMessage`. That the
signal comes after the unlock is harmless because the mutex is held from a consumer's test to
its wait, and a producer that has pushed but not signalled counts as "about to". `OneOwnerKept`
follows step by step from where each block is.

**SemRingProofs.** `Inv` = `TypeOK`, `SeenHeld`, `CellsAccounted`, `RingConsistent`, for any
`NUM` above 0. The count of the cells bounds the semaphores; together with the positions of the
two indices it shows that the producer's cell is blank and the consumer's full (`NoClash`).
`Implementation` is the refinement `ImplementsQueue`. It needs `Numbered` besides: a product that
is yet to be made is in no cell, and only between its read and its clearing does the consumer hold
one, which is also still in its cell; the mapping skips that cell (`Skip`).

**ChildReaperProofs.** `TypeCorrect` for both programs; `NoZombieForgotten` for `BlockFirst`, by
`Watched`: from the first fork on the signal is blocked, handled, or its handler runs, so that a
zombie implies a pending signal or a handler at work.

**TinyHttpProofs.** For any finite set of clients, any `Stream`, with any number of requests in
it, any cuts, any sizes, short sends, closes and vanishing files. `TypeInv` is `TypeOK` in three
parts (`ServerTypes`, `ClientTypes`, `AnswerTypes`) and `Within`: the blocks an answer has got
and lost are bounded only by what `send_file` has read. `LengthIsAccounted` goes by `UnderWay`: an
answer under way has the size `stat` saw and accounts for as many blocks as `send_file` is at; a
file that has gone since is noticed by `open`. `EpInv` says that a socket is in
`all_events` at most once and never while it is handled, and that what `epoll_wait` reported of
it still holds when its turn comes; from it `StartInv`, that `do_read` finds an empty line only
of a client that has closed, which is `NoHastyDisconnect`. `DiesForAReasonOnly` needs besides that
no more connections are open than there are descriptors. `NothingIsForgotten` is `HeedInv`: what
can be read of a client has raised an edge, or its event is still to be handled, or it is being
read, or lies behind a blank line (`left`); `do_read` leaves its loops nowhere else while there is
something to be read. None of these has a hypothesis.

`BlankLineEndsRequests` and `AnswersTheQuestion` are for `WellFormed` streams: every CR is
followed by LF, every LF preceded by CR, and each request begins with its method and its path.
They are no assumption on the network. Their invariant is `LinesInv`: what is unread of
a client is the piece of the stream between what was taken and what was sent (`InboxInv`), so that
a place in the parse is a place in the stream; as long as no line of the client was torn,
`RequestLineInv` and `HeaderInv` say where in a request `do_read` is, `StartsInv` that it is
between two requests otherwise.

**EchoServersProofs.** One invariant for the connections and one for each program; `Inv` is the
conjunction, of which only the part of the program that runs says anything. `NetInv`: a client has
at most one descriptor, is at most once in the queue of connections, never both; one that has
neither has nothing sent, unread or echoed left over. `Owes(fd, x)` says of a connection
that what was echoed, what is unread and the `x` segments the server holds are what its client
sent (`Fits`); so a server that closes at the end of the stream has echoed all, which is
`NothingIsCutShort`. Clients can only make a readable connection stay readable and an owed
segment stay owed (`NetKeeps`). The programs differ in what they have still to look at:

- select (`SelectPending`): the descriptors in `rset` from where the scan is are open and
  readable. A connection accepted in this turn is not in `rset`, and one closed in it is behind.
- poll (`PollPending`): some set of entries (`PollLeft`) is what poll reported and is not yet
  handled; their number and the listening entry's are `nready`. An entry that was taken in this
  turn may have a `revents`
  nobody wrote; it lies behind all that are left, so that `nready` is used up before the scan
  comes to it. That the free entry `main` takes is the lowest one does not give this by itself: it
  may be below some that are left, but then it was free when poll ran, which cleared its `revents`.
- epoll (`EpollPending`): no descriptor is twice among the events, the events to come are of open
  and readable connections, and a closed one's is always the one in hand. That goes on to hold when
  an event has been handled (`EpollHandled`), also by the exit behind a connection that could not be
  added.
- threads (`ThreadPending`): an open descriptor has exactly one thread that has not ended, and the
  descriptor `accept` has taken beforehand is not among the open ones.
- libevent (`EventPending`): an event still to be handled is of a connection that is open, as the
  callbacks that free one take its other event with it.
- server.c (`OneInv`): the one descriptor.

`WatchedIsOpen` and `EndsOnlyForAReason` are conjuncts of these; `ReadsNeverBlock` is read off
the `Pending` parts.

**ExchangesProofs.** One invariant for each of the five groups of programs; `Inv` says that the one
of the group that runs holds. It gives `TypeCorrect`, `WhatIsReadWasWritten` and
`KilledOnlyForAReason`, for any number of lines, copies, messages, questions, starts and moves, any
sets of writers and clients, and any tree.

- `PipeInv` tells for each step of each script which ends its process holds (`OnePipe`,
  `WcRole`, `LsRole`). `wc` shows its count when nobody holds a writing end, and a process that has
  none never gets one: only those that have one fork, and by then they have forked all they will.
  So what is shown is all there will ever be (`Counted`). If `ls` was run it did not leave before its
  last line but by SIGPIPE, and that comes only when `wc` has ended, that is, could not be run: a
  `wc` that ends otherwise has seen that no writing end is left.
- `MapInv`: once a writer has copied its record whole, later copies put one whole record in place of
  another in whatever order their fields are written, until a truncation (`whole`). Whoever has the
  file mapped while it is empty is `disturbed`.
- `FifoInv`: the fifo a reader has open was made after its start and is not the one that a writer
  may still have from before, so what is in it is newer than the reader (`since`). Data is only in
  fifos somebody has open.
- `DatagramInv`: a client has at most one datagram on its way, counting questions, the one the
  server has in hand and answers, and if it waits that one is its latest (`OnItsWay`, `InHand`).
  An answer says nothing of its question; that a client asks only after it was answered, and a
  lost datagram leaves it waiting, is what keeps the two together.
- `TreeInv`: `Moving` says that after a `link` that succeeded and until the `unlink` both names are
  those of one file, which only `mymv` could take; so a `mymv` that is stopped in between leaves the
  file with two names, never with none. `Stack` says that the directories being read lie one in the
  other, each but the innermost having returned the next one's name. `ShownOnce` and `StaysShown`
  divide the names into those whose directory has not returned them (not shown), those it has
  returned (shown if they stay) and those below (shown if `InnerDone`, else not yet); the one
  `isFile` is called with is on its way from the first to the second. A directory is left only when
  all it must return has been returned, and a name that stays is never taken out of what must be
  returned (`Changed`).

**Only model-checked**: liveness (`TaskServed`, `AdderReleased`, `DestroyWaitsOnlyForSleepers`,
`MessagesTaken`, `AllConsumed`, `AllReaped`, `RequestAnswered`, `Echoed`, `NobodyWaitsForEver`),
which needs ENABLED and fairness and is out of the prover's reach, as are induction over data and
RECURSIVE operators (none is used). Every other property of a run that holds is stated by a theorem.

## 6. What is left out

- `threadpool_create`'s failure path, which frees pointers that were never set and of which
  therefore nothing can be promised; `threadpool_all_threadnum` and
  `threadpool_busy_threadnum`.
- `tinyhttp.c`: `get_file_type` and logging, which change no state; lines longer than its
  buffer; the arguments of `main`; a file that is truncated while it is sent; more than
  `MAXSIZE` events at once; a header or an error page that `send` refuses (only blocks of a file
  are `lost`).
- `FD_SET` of a descriptor of `FD_SETSIZE` or more (`select_sever.c:54`, `select_effective.c:67`),
  which writes behind the set. The usual limit of 1024 descriptors keeps the programs from it;
  they do not check.
- Behind a reset of a client that had closed before, `ReadResult` of `EchoNet` is an error, as POSIX
  allows, where Linux reports the end of the stream: the model has more behaviours than Linux, and
  it is the case in which `server_poll.c` exits.
- `wrap.c`: `Socket`, `Bind`, `Listen`, `Connect`, which end the process on failure before the
  loop begins.
- `mul_pthread_sever.c`: a `pthread_create` that fails, whose result is ignored.
- `client.c`, which behaves as some of `EchoNet`'s clients do; `ev_client.c`, which never enables
  reading; the clients of `EchoNet` stand for it as well.
- `pipe()`, `mmap` and `mkfifo` that fail at the start: the program ends, or goes on with
  nothing.
- `ls-R.c`: symbolic links, names too long for `path`, its argument; `mymv.c` run twice at once.
- Echo servers: the letters that `toupper` changes (a segment is a number), and writes that
  block because a client does not read.
- Durations: a sleep ends at some time.
- The components of section 1 marked as not modelled.

## 7. Plan

Done, in this order, the most important first: `TaskQueue` and `ThreadPool` with its proofs;
`CondQueue`, `SemRing`, `ChildReaper` with theirs; `TinyHttp`; the echo servers, the threads and
the callbacks among them; `Exchanges` with its five parts.

Proved since: both refinements of `TaskQueue`, `ReturnedIsKept`, the safety of `TinyHttp`, of the
echo servers and of `Exchanges`. With these, every safety property of a run is a theorem; what the
theorems assume beyond the constants is said in section 5.

Left: the liveness properties, which stay with TLC, and the parts of section 6. Runs are merged
where they ask the same question, as the echo servers and the exchanges are, rather than added.
