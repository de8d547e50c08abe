# emCORE in TLA+

emCORE (`src/emcore`) is the kernel of freemyipod: a preemptive single-core
kernel for iPods with threads, mutexes and wakeups, a USB device stack with a
debugging monitor, a flash translation layer and a FAT file system, and a
library loader.  Applications (`src/apps`) and libraries (`src/libs`) run on
top of it.  This directory holds a TLA+ model of the parts of it where order
matters, TLC configurations that check the model on small instances, and proofs
of some of its properties for instances of any size.

## 1. The system

| component | source | state | operations | talks to |
|---|---|---|---|---|
| scheduler | `thread.c`, `arm/contextswitch.S`, `target/*/timer.c` | thread list, `current_thread`, `scheduler_frozen`, state / block / timeout / priority of each thread | `scheduler_switch`, `yield`, `sleep`, timer interrupt, `thread_set_priority`, `scheduler_freeze` | everything |
| mutexes | `thread.c` | owner, count, priority queue of waiters, each thread's list of owned mutexes | `mutex_lock`, `mutex_unlock` | scheduler, panics |
| wakeups | `thread.c` | one waiter, one flag | `wakeup_wait`, `wakeup_signal` (from threads and interrupts) | scheduler, all drivers |
| thread control | `thread.c`, `usb/usbdebug.c` | suspended threads | `thread_suspend`, `thread_resume`, the monitor's commands in the USB interrupt, `dbgthread` | scheduler |
| panics, aborts | `panic.c`, `contextswitch.S` | none of their own | kill the thread, kill the user threads, hang | scheduler |
| thread lifecycle | `thread.c` | thread list | create, terminate, kill level | mutexes, libraries, files, buttons, allocator |
| libraries | `library.c` | handles with their users | register, unload, get, release, release all of a thread | image loader, thread lifecycle |
| buttons | `button.c` | list of hooks | register, unregister, send events | thread lifecycle, click wheel driver |
| memory | `malloc.c`, TLSF | pool, owner tags, a mutex | malloc, free, realloc, reownalloc, free all of a thread | thread lifecycle |
| USB core | `usb/usb.c` | address, configuration, endpoint 0 transfer | bus reset, setup, transfer complete | controller driver, monitor, applications |
| USB monitor | `usb/usbdebug.c` | command state, buffer, asynchronous command | control requests, `dbgthread` | thread control, console |
| debug console | `usb/usbdebug.c`, `console.c` | two ring buffers, their wakeups | write, read, monitor's READ/WRITE CONSOLE | threads, USB interrupt |
| storage, FAT, files | `storage.c`, `disk.c`, `fat.c`, `file.c`, `dir.c` | mounted volumes, descriptors, cluster chains | open, read, write, close, mkdir, ... | flash translation layer |
| flash translation layer | `target/ipodnano2g/ftl.c`, `nand.c` | block map, scattered page blocks, erase counters, context | read, write, sync, mount | storage |
| disk mode | `apps/diskmode/ums.c` | transport state, LBA and count of a transfer | commands and data of USB mass storage | USB core, storage |

What is hard here:

* **Interleaving.** Interrupt handlers run between any two instructions outside
  a critical section; several functions go on after a `yield` with state they
  do not own any more (`mutex_lock`, `wakeup_wait`).
* **Links.** Queues and owned-lists are hand-made linked lists, whose removal
  loops read through NULL in some positions.
* **Failure.** A thread can die while it owns mutexes (panic, data abort, stack
  overflow), and user threads can be suspended under everyone's feet.
* **Outside control.** The monitor's commands run in the USB interrupt and
  change the state of the thread they interrupted.
* **Loss of power.** A write to the flash is a dozen erases and programs; what
  is left when they stop half-way must still make sense to the next mount.
* **Time.** Every wait may have a timeout that races with the event.

Per component, what makes it correct:

* *mutexes*: one holder, recursion count right, hand-over to exactly one waiter
  that really waited, no waiter lost or left in two places;
* *wakeups*: a signal is not lost whenever it comes; the waiter returns;
* *scheduler*: one thread runs, blocked threads are where they say they are
  blocked, timed waits end, freeze stops every thread;
* *thread control*: a resumed thread waits again for what it waited for;
* *lifecycle*: what a thread owned is released once, and nothing else is;
* *libraries*: unloaded only when unused, always unloadable when unused;
* *disk mode*: a READ returns what was last written, an acknowledged WRITE is kept
  or its failure is reported, every command is answered;
* *files*: what a call returns is what earlier calls wrote, whatever is cached;
  chains are sound; what was synced survives a loss of power;
* *console, monitor, USB*: bytes and answers arrive in order, once; every request
  is answered or stalled;
* *flash translation layer*: a read returns the last write, whatever was moved
  meanwhile; no block leaks; after a loss of power the flash can be mounted and
  holds what was acknowledged.

## 2. Modules

| module | what it is |
|---|---|
| `Threads` | the kernel core: scheduler, mutexes, wakeups, sleep, panics of a thread |
| `RecursiveMutex` | what the mutexes promise, as an abstract specification |
| `ThreadControl` | `Threads` plus suspend, resume, freeze, stack overflow, monitor commands |
| `ThreadLife` | `ThreadControl` plus creation, termination, kill level |
| `Ftl` | the flash translation layer: reads, writes, sync, mount and repair, loss of power |
| `Fat` | the FAT32 driver as operators on a volume |
| `Files` | the calls of `file.c` and `dir.c` over `Fat`, with loss of power |
| `FileStore` | what the file API promises, as an abstract specification |
| `DiskMode` | the mass storage application: USB interrupt, main thread, storage, host |
| `UsbCore` | endpoint 0 and the standard requests, as operators |
| `Console` | the two rings of the debug console, as operators |
| `UsbMonitor` | the monitor over both, with a host, `dbgthread` and the threads that use the console |
| `MCThreads`, `MCThreadControl`, `MCThreadLife`, `MCFtl`, `MCUsbMonitor` | instances for TLC |
| `ThreadsProofs` | `TypeOK`, mutual exclusion, queues, wakeups and lists of `Threads`, and that it implements `RecursiveMutex` |
| `ControlProofs` | what of this survives suspension, freezing and stack overflows, for `ThreadControl` |
| `LifeProofs` | what a terminated thread leaves behind, and what the others keep, for `ThreadLife` |
| `DiskProofs` | who has the next step in `DiskMode`; its buffers, its errors |
| `DiskDataProofs` | the data of `DiskMode`: reads and acknowledged writes |
| `UsbProofs` | every answer of the monitor is that of its command, for `UsbMonitor` |
| `FoldProofs` | lemmas about loops that are folds |
| `ConsoleProofs` | the debug console loses and repeats nothing silently, for `UsbMonitor` |

### Threads

One action is what runs between `enter_critical_section` and
`leave_critical_section`, or between two points where an interrupt can come.
`pc[t]` says where in a call thread `t` is; every thread is a most general
client (it may call anything at any time, with or without a timeout), so every
driver and application is an instance of it.  `state`, `block`, `priority`,
`owned`, `owner`, `count`, `waiter` and `signalled` are the fields of the C
structures.  A mutex queue is the set `waiters[m]` and for each queued thread
the set `ahead[t]` of those in front of it, which is the order that `queue_next`
gives.

| code | action |
|---|---|
| `mutex_lock`, free or recursive | `mutex_lock` |
| `mutex_lock`, to its `yield` / after it | `mutex_lock_block` / `mutex_lock_return` |
| `mutex_unlock`, panics and nested unlock / last unlock | `mutex_unlock` / `mutex_unlock_last` |
| `mutex_unlock_internal` that walks through NULL | `mutex_unlock_abort` |
| `wakeup_wait`, at once / to its `yield` / after it | `wakeup_wait` / `wakeup_wait_block` / `wakeup_wait_return` (three steps) |
| `wakeup_signal`, on the idle thread | `wakeup_signal`, `wakeup_signal_idle` |
| `yield`, `sleep`, `thread_set_priority`, timer interrupt | actions of the same name, `tick` |
| `scheduler_switch` | `scheduler_switch`, a part of the actions that call it |

Abstractions: time (a wait is timed or not; any set of timed waits may be
overdue when the scheduler looks), the score computed from CPU time (any ready
thread other than the one that yields may be chosen), the CPU load statistics,
priorities other than those in `Prios`.  NULL walks: memory at address 0 is the
exception vectors, so the outcome of a read through NULL (end of the list, or an
abort) is a free choice.  A data abort inside `scheduler_switch` is in IRQ mode
and hangs the machine (`hung`).

### RecursiveMutex

Holder, depth and waiting threads of each mutex.  `Release` with waiters makes
one of them the holder in the same step: nobody can barge in.  `Abandon` is the
thread that dies inside an unlock.  `ImplementsMutex` in `Threads` states that
the kernel's mutexes implement it, where a mutex with `count` 0 is free whatever
its stale owner pointer says.

### ThreadControl

Adds what acts on threads from outside.  `thread_suspend_interrupted` is the
monitor suspending the thread it has interrupted, after which that thread's
context is lost; `dbgthread_find` / `dbgthread_ack` are two steps because the
report in between may block.  Assumed: nobody suspends a defunct thread, nobody
resumes a thread that a panic suspended inside a mutex queue.

### ThreadLife

`thread_terminate` has two critical sections, and the model has a step for each
(`thread_terminate`, `terminate_end`); in between libraries, files and button
hooks are taken from the victim under mutexes that may block the caller, so anything may
happen there, to the victim too.  `thread_exit` is a termination of oneself, after which the
thread's own freed stack may look like an overflow (`leave_thread`; the allocator's link lies over the
canary).  `thread_killlevel` is a loop over the threads with a termination each.

What the code does and the model follows:

* terminating a thread that waits for a mutex reads the mutex from a local that was never
  set: the thread is dequeued, stays in the queue, or the CPU faults (`Unqueued`);
* a thread that is inside `wakeup_wait` but ready or suspended stays the waiter;
* the loop over the owned mutexes goes on with the list of the thread that was handed one,
  and unlocks that thread's mutexes (`strayed`);
* between the critical sections the victim can be resumed, and another thread can terminate
  it too, after which the memory may belong to a new thread (`resumed`, `reused`);
* a thread that was suspended in a mutex queue by a stack overflow stays there.

`fate` remembers which of these a thread met.  `KilledIsForgotten` says that a thread that
met none of them leaves no reference behind, `LivingUnharmed` that no other thread loses a
mutex, a place in a queue or its wait by somebody else's end.  The model ends (`Sound`) where
freed memory is referred to or where the loop has strayed, as nothing can be said after it.

### Ftl

Every exposed function of `ftl.c` holds `ftl_mtx` while it works on the state,
so a call is one step: `Write`, `Sync` and `Mount` apply the operators
`ftl_write`, `ftl_sync` and `ftl_init` to the FTL's state `f`.  `f` is a record
of the flash (`fl`, and `vcb`, the list of control blocks kept by the VFL) and
the RAM (`map` is `ftl_map`, `ec` is `ftl_erasectr`, `dirt` is
`ftl_erasectr_dirt`, `log` is `ftl_log`, `c` is `ftl_cxt`).  The operators bear
the names of the C functions and pass the state along as the functions change
it; parts of a long function have names of their own.  A loop of the code is
`For`, a function folded over the loop's index.

| code | definition |
|---|---|
| allocation and release of pool blocks | `ftl_allocate_pool_block`, `ftl_release_pool_block` |
| control block ring, commit of the context | `ftl_next_ctrl_pool_page`, `ftl_commit_cxt`, `ftl_save_erasectr_page` |
| `ftl_remove_scattered_block(NULL)` / `(entry)` | `RemoveOldest` / `RemoveEntry` |
| full block / chunk branch of the loop of `ftl_write` | `WriteBlock` / `WriteChunk` |
| dirty mark, swap and erase counters in `ftl_write` | `MarkDirty`, `SwapAfterWrite`, `SaveWear` |
| `ftl_open`: choice of the control block, last page, checks | `NewestCtrlBlock`, `LastPage`, `Mountable` |
| `ftl_repair`: scan, merge, allotment, new context | `ScanBlock`, `MergeBlock`, `Allot`, `RepairedContext` |

*Loss of power.*  Each operator also appends the erases, programs and stores of
the control block list it does to `trace`.  `WriteCut`, `SyncCut` and `MountCut`
keep any prefix of them (`CutStates`), and with `tearing` the operation after
the prefix may leave its page, or its whole block, unreadable.  RAM is lost.
`PowerOff` is a loss of power between two calls.

*Data.*  A sector's contents are the number of the write that put them there.
`stored` is what was acknowledged, `flight` what a cut write was writing; both
are history, as are `wasClean`, `repaired` and `misled`, and in `f` the fields
`newest`, `unmarked` and `twice`.

*Constants.*  The code's 0x11 log entries, 20 pool blocks (three more than log
entries), 64 to 512 pages per block (all banks), chunks of 32 pages, swaps at 300 and 20 minus 20,
a minimal spread of 5 and 100 erases before counters are saved are `Logs`,
`PoolSize`, `Ppb`, `Chunk`, `SwapWrite`, `SwapSync`, `SwapStep`, `MinSpread` and
`DirtMax`, scaled down in the runs.

*Left out.*  One bank, one page of the block map and one of erase counters.  The
VFL (bad blocks, remapping, its context ring) does what it is asked and its
commit is atomic.  No NAND errors but the pages and blocks that a loss of power
leaves unreadable; so the retries and the read-back checks after writes are not
there.  A page that became unreadable stays so until its block is erased, and
pages reach the flash in the order the code writes them.  An error return that
nothing recovers from is treated like the panics (`Panic`).  Usn arithmetic does
not wrap.  As a call is one step, `ftl_sync`'s look at `clean_flag` before it
takes the mutex is not told apart from one after it.

*`misled`.*  The model shows that a loss of power may cost acknowledged data in
the cases below.  `misled` remembers that a mount met one of them; `KeepsData`
says that every other one keeps the data, so a reader knows that this list is
complete within the bounds.

1. `Misplaced`: a block with pages out of place is marked as a whole one (line
   2134 of `ftl.c` decides with the `issequential` of before the chunk).  The
   run `ftl_misplaced` shows the shortest case.
2. `Outdated`: a mount takes an older control block, as all have the same usn
   (line 1591 is practically never reached).  If the older one ends in a clean
   context it is mounted without a repair; otherwise there is a repair that was
   not needed, which `ftl_synced` shows.
3. `Undated`: a repaired block whose last page was never written has usn 0 and
   is dropped by the next repair (lines 2308 and 2497).
4. `unmarked`: the dirty mark was cut short, the next mount takes the clean
   context before it and puts its own mark on the same, unreadable page.
5. A repair that is cut short (`MountCut`): it erases a scattered block and
   writes it anew in place (line 2483).

### Fat, Files, FileStore

`Fat` has the functions of `fat.c` as operators on a volume `v`: the table with its cache of
`FatCache` sectors, allocation, chains, `fat_readwrite` and `fat_seek` with the driver's own
position, directory entries.  `v.log` has what the disk held after each sector that a call
wrote.  `Files` has one action for each call of `file.c` and `dir.c` with everything the call
does to the descriptor, its sector cache, the list of open files and the volume; the actions
that lose power (mode `"cut"`) keep a member of `v.log`.  After a panic, or an `mkdir` that met the full disk,
nothing goes on (mode `"dead"`).

| code | definition |
|---|---|
| `open`/`creat`, `close`, `fsync`, `ftruncate`, `lseek`, `read`, `write` | `call_open`, `call_close`, `call_sync`, `call_truncate`, `call_seek`, `call_read`, `call_write` |
| `remove`, `rename`, `mkdir`, `rmdir`, `close_all_of_process` | `call_remove`, `call_rename`, `call_mkdir`, `call_rmdir`, `call_kill` |
| `readwrite`: bytes before the first sector border, whole sectors, the rest | `HeadBytes`, `Unaligned`; `WholeSectors`; `TailBytes` |
| `find_free_cluster`, `update_fat_entry`, `flush_fat`, `next_write_cluster`, `transfer`, `fat_readwrite`, `fat_seek`, `fat_truncate`, `fat_closewrite`, `add_dir_entry`, `update_short_entry`, `fat_create_dir`, ... | operators of `Fat` of the same name |

`FileStore` is what callers see: files by path, open files with a position and a thread, and
in `op` the last call with its results.  `ImplementsStore` says that every step of `Files` is a
step of the store or a loss of power.  `seen` is the refinement mapping held in a variable, as it is
needed in two places per step.  The store says where the code gives less than it seems to: the contents of a file are
`Unknown` after a write that found the disk full, after a thread was killed with the file
open for writing, and after a truncation that moved the driver away from the position.

What the code does and the model follows: `close_all_of_process` syncs the descriptor behind
the one it closes; a truncation leaves the driver's position at the new end, and an `fsync`
of an emptied file leaves it before the first sector, where a write of whole sectors panics
("Write before data"); a full disk leaves the two positions apart and may leak clusters; a
rename into a directory that has to grow may lose both names in a power cut.

Assumed: calls do not overlap (nothing in the code keeps two calls apart but the locks of
sector buffers: two threads that write can be given the same cluster), a file is open once
and neither renamed nor removed meanwhile, a truncation is not behind the position.

### DiskMode

The USB interrupt (`ums_xfer_complete`, `usb.c`) is one step: `host_*`
actions are the host's side of a transfer together with the interrupt it causes.  The main
thread, `worker_*`, can be interrupted between any two of its steps; `worker.pc` says where
it is in `ums_handle_async`.  The statics of `ums.c`, the two bulk endpoints and the
thread's wakeup are the record `u`; C functions are operators on it.  Kinds of commands with
the same control flow are one kind (`Kinds`).  Every access to the storage may fail.

`ghost` remembers where the code goes wrong in a way that the properties have to except:
a completion that comes before the thread has noted what it started (`overtaken`, line 240 of
`ums.c`), a block that was dropped (`dropped`, 792), a buffer whose end wrapped after a read
error of sector 0 (`wrapped`, 285), a halt cleared with the status on its way (`relistened`).

### UsbCore, Console, UsbMonitor

The statics of `usb.c` and `usbdebug.c` are one record `s`, and the C functions operators on
it.  `host_*` are the stages of a control transfer on the host's side, each with the
interrupt that its packet causes (assumed: the interrupt is served before the host's next
packet).  A command is a control write (`host_sends` runs `usbdebug_handle_data`), its answer
the control read that follows (`host_setup` runs `usbdebug_handle_setup`, `host_receives` the
callbacks).  A host may give up at any stage (`host_gives_up`) and go on with another request.
What a SETUP packet and a reset do to transfers and stalls is the hardware's and the driver's
(`SetupReceived`, `usb_handle_bus_reset`).

| code | definition |
|---|---|
| `usb_handle_ep0_setup`: its requests, and `size` = 0, > 0, -1 and -2 | `StandardSetup`, `Acknowledge`, `Send`, `Refuse` |
| `usbdebug_handle_data` by `dbgstate` | `Command` (a case per command), `WriteMemoryData`, `WriteConsoleData` |
| `usbdebug_handle_setup`: an answer in `RESPOND`, in `READ_CONSOLE` | `AnswerCommand`, `AnswerConsole` |
| `dbgthread`: its wait, two critical sections and the command between | `worker_wakes`, `worker_checks`, `worker_runs`, `worker_finishes` |
| `dbgconsole_write_internal` and `dbgconsole_makespace` | `makespace_*`, `write_copies`, `write_advances` |
| `dbgconsole_swrite`; `dbgconsole_read` and `_getc` | `panic_writes`; `thread_reads` |

Data are counted in units of sixteen bytes, the size of a header; each carries the request it
was made for and its number, so an answer tells whose it is.  A byte of the console is its
number in the order of writing.  Of the sixty commands, those with the same control flow are one
kind: `info` and `bad` stand for all that the interrupt runs and answers with a header, `async`, `i2c`
(with data) and `cwrite` for those of the worker.

What the code does and the model follows, with what the properties except for it:

* the worker acknowledges its command if `dbgstate` is still `ASYNC`, which a standard
  request in between does not change: that request gets the acknowledgement (`s.late`);
* a command refused because the worker is busy, and FLUSH CACHE, write their result to the
  packet received instead of to `dbgbuf`: their answer has an earlier command's header (`s.refused`);
* SET_INTERFACE is done and then refused;
* READ CONSOLE reads beyond the write index when the text wraps around the ring's end, as a negative
  distance is never seen in an unsigned variable; so does an answer in several packets when
  the ring overflows meanwhile; a writer drops text of a ring that was read since it looked; a
  panic writes in the middle of a write.  From then on nothing is known of the text (`s.void`).

`AnswersMatch` says that every other answer is that of its command, whatever was given up,
overtaken or reset before; `ConsoleInOrder` that until `s.void` all text arrives in order, with the
whole overflow message wherever some is missing; `EveryRequestEnds` that no
request is left without a packet, a stall or a status.

## 3. Runs

| run | instance | shows |
|---|---|---|
| `threads` | 3 threads, 2 mutexes, 1 wakeup, priorities 0 and 1, recursion 2, symmetric | queue order, queue = blocked threads, hand-over, no lost wakeup, mutual exclusion, owned lists, NULL walk, refinement of `RecursiveMutex` |
| `threads_live` | 2 threads, 1 mutex, 1 wakeup | timed waits end, signalled and handed threads return |
| `thread_control` | 2 threads, one a user thread that may overflow, the other the monitor's worker | what survives suspend, resume, freeze, panics |
| `thread_resume` | the same | *violated*: a thread suspended in a sleep is never resumed |
| `thread_life` | 3 threads, 2 mutexes, 1 wakeup, 3 creations, terminations, suspensions or resumptions | a killed thread is forgotten, the living are unharmed |
| `ftl` | 3 blocks of 4 pages, 2 log entries; 9 kinds of writes and 4 writes, or 4 kinds, 3 writes and 2 losses of power with torn pages, or a loss while mounting | reads, partition of the blocks, no page programmed twice, no panic, a synced flash is complete; always mounts; keeps the data but for the cases above |
| `ftl_misplaced` | 2 writes, 1 loss of power | *violated*: a repair brings back older contents |
| `ftl_synced` | 2 writes, 2 restarts | *violated*: a mount after a sync needs a repair |
| `disk_mode` | 3 sectors, buffers of 2, 3 units of work, every kind of command | reads, buffers, acknowledged writes, errors, answers |
| `disk_mode_loses` | 3 sectors, buffers of 1, READ and WRITE | *violated*: an acknowledged block is never stored |
| `files` | 5 clusters of 2 sectors, a directory, 2 handles, 2 threads, 5 calls on data or 4 on names | chains, what was synced survives, refinement of `FileStore` |
| `usb_monitor` | packets of 2 units, rings of 5 and 3, a message of 2; 3 requests of 25 shapes, 5 that overtake the worker, 4 on the console; a reset | answers, console text, every request ends |

Bounds.  Three threads are needed for a queue with a tail that is not the head
(the NULL walk of `mutex_remove_from_queue`) and for two waiters of different
priorities; two mutexes for an owned-list whose last element is not the first
(the NULL walk of `mutex_unlock_internal`).  `InScope` of `MCThreads` keeps these apart:
while three threads live they use one mutex; when one has died, early and with priority 0, the two that
are left use both.  Recursion is cut at `MaxCount` = 2, enough to tell nested from last unlock.
`MCThreadLife` has no sleeps, timeouts and panics, which the other runs have, and counts what
begins a thread's life, end, suspension or resumption; three of these are enough for every fate.
The runs with `CHECK_DEADLOCK FALSE` are those where the machine or the workload may really stop: `hung`, the end of
the mass storage loop, the bounds on work.

For the flash, three logical blocks and two log entries make the eviction of the
oldest entry happen with the third write, blocks of four pages with chunks of two
allow compaction (one current page), sequential and scattered commits, and ranges
over a block's end; swaps, saving of counters and changes of the control block
all occur within four writes with the scaled limits.  Two losses of power are
needed for one repair to meet what an earlier one left.  These runs have
`CHECK_DEADLOCK FALSE` as writes and losses are bounded, after which the device
is idle.  Not reached in any of them: the move of the erase counters to a new
control block (every commit writes them anew, and a block of the ring is only
replaced two blocks later); the reuse of an entry without used pages; and
compaction of an entry without current pages.

For files, five clusters are filled by a directory and two files, so that growth of a file and
of a directory, the full disk and freed clusters that are used again all occur; a table sector
has four entries and one sector is cached, so the cache is replaced within a call; a directory
fills a cluster with the fillers.  Reads and writes of 1, 3 and 8 units are less than a sector, over a
boundary, and more than a cluster.  One workload reads and writes, the other names; together
they would not fit.

For disk mode, buffers of two of three sectors give hits, misses, partial hits and reads
ahead that end at the disk's end; three units of work are two writes and a read of what they
wrote, or one failure (which counts twice) and a later command that has to report it.

For the monitor, data of none, one, three and four units take one packet, a full one and several with a
last one that is full or not.  Three requests of all shapes are a command, its answer and
one in between; five of few shapes are commands given up while the worker runs, and the answer of
a later one.  A ring of five bytes with a message of two is filled, overflows and wraps with six
bytes of text, and two commands read it.  Each workload has what its question needs, as all
together would not fit.

Fairness (`FairSpec`): the timer interrupt goes on (the scheduler arms it at each
switch); a thread that is the current one again and again gets on with its call;
a ready thread is chosen in the end, because the score is CPU time divided by
priority and a thread that does not run does not use any (priority 0 is left
out of that run, as it is never scheduled); a timeout that is looked at again
and again is over at some time.

Fairness of `DiskMode`: the main thread is scheduled (weak fairness of its steps), and the
host goes on with a command it has started; whether it starts one is open.

Fairness of `UsbMonitor`: the host goes on with a request until it gives up, `dbgthread` and the writers
are scheduled; nothing is assumed of giving up, resets, new requests or readers.

## 4. Proofs

`ThreadsProofs` proves `TypeCorrect` (`Spec => []TypeOK`) with one step per
action, from lemmas on `scheduler_switch`, `Unlink` and lists.

It also proves `MutexCorrect` and `HandOffCorrect`.  `MutualExclusion` is
not inductive: whether `owner[m] = t` means that `t` has the mutex depends on
whether `t` is still inside the `mutex_lock` that waits for it.  `MutexInvariant`
adds that a queued thread is inside that call and cannot have run on
(`QueuedWaits`), that the waiter of a wakeup is inside `wakeup_wait`, so that a
signal never makes a queued thread ready (`WaiterWaits`), that `count` is what
the owner was told, once it was told (`HeldIsCount`), and that a mutex whose
owner was not told yet has count 1 (`HandedOver`).  The theorems need only
`ThreadsAssumption`, which names the constants' types.

Its second part proves `QueueCorrect`, `FreeMutexCorrect`, `WakeupCorrect` and `MutexRefinement`
from one inductive invariant, `QueueInvariant`: `MutexInvariant` and, as `QueueParts`, that the
queued threads are the blocked ones (`QueueIsBlockedThreads`), that a free mutex has no
waiters (`NoWaiterOnFreeMutex`), that a mutex in use has an owner that is a thread
(`OwnerKnown`), that a killed thread has nothing but its yield left (`DeadStays`), that a wakeup keeps its waiter
until that thread has run on (`WaiterKept`), and that a thread blocked on a wakeup is inside `wakeup_wait` for it and
was not signalled (`BlockedWaits`).  All parts were model-checked on the instance of `threads` before.  Hand-over
needs the queue to be exactly the blocked threads, for the refinement maps a lock's return to a stutter and
the unlock to the new holder's entry.  These theorems assume `MayOverflow = {}`: a stack
overflow suspends the user threads wherever they are and the panic revives dead ones, so with overflows a
queue does hold threads that are not blocked.  What is left then is `BlockedIsQueued`, below.

Its last part proves `QueueLinear` and `OwnedLists`.  Both are inductive next to `MutexInvariant`: a thread is in one
queue at most, because it waits for one mutex, so a change of one queue leaves the links of the others alone.  Insertion is
the hard case: `StaysAhead` is an initial part of the queue although priorities change while threads wait, so
the queue need not be sorted.  An owned list holds each mutex once as `count` is 0 for a mutex before it is added.

`ControlProofs` proves `ControlledMutexes`, `BlockedStaysQueued`, `FrozenStaysIdle` and `OneThreadRuns` of `ControlSpec`, for any set of threads whose
stacks overflow, from `ControlInvariant`.  It is `MutexInvariant` weakened by what outside control leaves behind: a
thread that is suspended while it runs loses its context (`lost`), so it may be the waiter of a wakeup, or the owner of a mutex,
without ever learning of it.  In exchange the invariant says what the fields of a wait mean for as long as they are
there (`MutexBlocked`, `WakeupBlocked`), since `thread_resume` blocks a thread again by them: a thread that has gone on, or was
handed the mutex, must not have them any more.

`LifeProofs` proves `KilledForgotten` and `LivingKept` of `LifeSpec` from `LifeInvariant`.  Its core is `ControlInvariant`
again, with `HeldIsCount` and `HandedOver` claimed of the living threads only (`ControlInvariantOf(Living)`): a termination
unlocks what its victim was told it holds.  With it go the queues' order and the owned lists, without which the
loop over the owned mutexes would not find them all; that a waiter that is blocked is blocked on a wakeup, so that the
first critical section takes it out of the right one (`WaiterBlocked`); that memory without a thread looks like a suspended thread
(`FreshApart`); and that a termination knows its victim (`FreeKnows`).  The loop of `mutex_unlock_internal` has an invariant of
its own, `Loops`: the structures stay well formed, who was dequeued and made ready is exactly who was handed a
mutex, and until the loop has strayed every change is to a mutex of the victim.  One lemma is for a round that frees a mutex,
one for a round that hands it over, and `UnlockFold` goes through the rounds by `Iteration` of `FoldProofs`.  `LoopEnds` shows
that the rounds of the model are enough: each one makes the victim's list shorter, which names each mutex once
(`OnceIsShort`).  One lemma for each kind of step (`LifeKernel`, `LifeSuspend`, `LifeBegin`, `LifeLeave`, ...) shows that
the invariant is kept.  After a step that is not `Sound` only `KilledIsForgotten` is still claimed.  Besides the types of the
constants the theorems need `LifeAssumption`: there are finitely many threads and mutexes, and the monitor's wakeup exists.

`DiskProofs` proves `DiskTypes`, `BuffersApart`, `FailuresExcused` and `ErrorsReported` of `DiskMode` from `ProtocolInvariant`.  None of
the four is inductive, for the same reason: the code has no variable that says whether the interrupt or the thread
goes on with a command.  `InPhase` says it: in every state, one of thirteen phases (`Listening`, `Status`,
`SendingBlocks`, `ReadWait`, `Receiving`, `Overrun`, `NotingBlock`, ...) holds, and each fixes the transport state, both
endpoints, what the thread is asked for, the host's stage, and how `u.sector`, `u.count` and `u.pending` follow from
what the host has got.  `Filled` adds that the read buffer which the thread fills is empty and the newest one.  Nothing is claimed after
`ghost.overtaken`, as there the phases do break (line 240 of `ums.c`).  One lemma for each operator says what it changes
(`Pushes`, `Sends`, `Waits`, ...), one for each step that the phases go on.

`DiskDataProofs` proves `AckedKept` and `CurrentReads` from `ProtocolInvariant` and `DataInvariant`.  `Kept` says where the
newest content of each sector is: in the block that waits for the thread (`Late`), else in the busy block, else on the
medium or among those whose store failed; and that the medium has nothing but contents that were acknowledged once.  `Cached` says of
each cell of the two read buffers, of what the thread has just read and of what it is about to read, that it is the
newest content or that the host has written the sector since (`ghost.hit`).  `Kept` holds until a block is dropped, `Cached`
also not after an overtaking.  These proofs hold for any number of sectors, any size of the buffers and any amount of work; they need
`DiskAssumption` only.

`UsbProofs` proves `AnswersAreRight` of `UsbMonitor` from `UsbInvariant`.  `AnswersMatch` looks only at a transfer that is
complete, and the monitor does not know which command its state belongs to: `dbgstate`, `dbgbuf` and the counters stay
as the last request left them, and a host may give up a request at any point, reset the bus, or send the next command while
`dbgthread` still runs an earlier one.  The invariant therefore follows the host.  While a command comes in
(`CommandStage`), `dbgstate`, `dbgmemlen` and what was written so far say how much of it is still to come; once it is
acknowledged (`AskedReady`, `Ready`) the monitor has its answer, or was set back to IDLE, until the host asks for it or
sends the next command.  While `dbgstate` is ASYNC, `dbgthread` has the host's command, or one with an older number during a request
that is none (`LeftToWorker`): with this its check of `dbgstate` after the work is enough, although it does not look at the
command.  While data go to the host (`DataStage`, `Flow`), what it has, what is in the endpoint and what the
callback will send are consecutive pieces of the same answer, and nothing but the last packet is short; when they have all come
(`Delivered`) they are the whole.  For a console read only the amount is claimed, as what is in the ring by then is
up to the writers.  The exceptions are those of `AnswersMatch`: FLUSH CACHE, a command refused because the worker was busy
(`s.refused`), and a request in whose place `dbgthread` acknowledged its command (`s.late`).  The theorem holds for
any size of packets from two units on, any sizes of the rings above the overflow mark, and any number and kind of
requests, resets, texts and panics.  It needs `UsbAssumption`, `ConsoleAssumption` and `MonitorAssumption`: the last types
the workload, with panic messages that fit the ring beside the mark.

`ConsoleProofs` proves `ConsoleIsInOrder` from `ConsoleInvariant`.  `ConsoleInOrder` says only what the host has seen
so far; whether the next byte fits depends on the ring, on text that was taken out of it for a packet the host has not got,
and on a writer that has copied without having moved the index.  `Ordered` says what the ring holds: the last `c` bytes of
the overflow message, the text from byte `next` on, and behind the write index `p` bytes that are copied; `Follows` that this goes on from
what the host has seen, where a message that is still to come, or a request that was given up, stands for what is
missing.  `Streaming` is both, for the host as it will be with the packet on its way (`Ahead`).  This needs three more things: that
one thread writes and dbgthread waits while it does (`OneWriter`), that what a writer is about to copy has room whatever the monitor
reads meanwhile (`WriterSizes`), and that a packet of text reaches a host that asked for text, so that nothing is taken out
of the ring for a request that shows something else (`Answering`).  `Keyed` is the same for the other ring, with the room for the data that a
CONSOLE WRITE has announced.  What the host and a thread make of the bytes are folds: `SeeFold` and `ListenFold` give the
states on the way through a text, by well-founded induction on its length, which an instance of `WFMin` on a set
of numbers makes possible without the library's induction theorems.  All parts were model-checked before.  The theorem needs the
same assumptions as `AnswersAreRight`, and holds until `s.void`.

Parts of every inductive invariant were model-checked on the instances of the runs before they were proved.

Model-checked only, and why:

* liveness (`threads_live`, `EveryCommandEnds`, `EveryRequestEnds`), which TLAPS does not reason about;
* `Ftl`, `Fat` and `Files` with `ImplementsStore`: their operators are folds over pages, entries and chains.

A fold says nothing by itself for a list of any length: each of them would need an induction of its own, like
those of `ConsoleProofs` and `LifeProofs`, and that was not done.

## 5. Findings

* `thread_resume`: a thread suspended in a sleep stays suspended (`thread.c:460`).
* `ftl_misplaced`: a scattered block is taken for a whole one (`ftl.c:2134`).
* `ftl_synced`: control blocks are not ordered, a mount may take an old one (`ftl.c:1591`).
* `disk_mode_loses`: two blocks that arrive before the thread runs cost the first (`ums.c:792`).

The excepted cases of the properties (`misled`, `fate`, `ghost`, `doubtful`, `lost`, `s.late`, `s.refused`, `s.void`) are the others; each
is described above and in the hazard that it belongs to.

## 6. Not modelled

`PROJECT.json` lists every component with what is left out and why.

* Pure functions and straight-line code: the C library, TLSF, image relocation, UI and helper
  libraries, boot menus, installers, loaders.  There is nothing to interleave.
* Register level drivers (NAND, ATA, USB controller, LCD, I2C...): what they do to shared state is take a mutex and
  wait for a wakeup, for which every thread of `Threads` is a most general client.
* The library table and the button hooks: lists guarded by one mutex each, of which only the release at the
  end of a thread meets other components.
* The FTL stub of the boot loader, FAT16 (not compiled in), several volumes and hot swap, the second FAT, long
  names of several slots, overlapping file calls, NAND errors and the VFL's bad blocks.
* The monitor's bulk endpoints (memory transfers that run along with the commands), requests to an endpoint, starting and
  stopping the USB device (`usbglue.c`), an interrupt that is served after the host's next packet.
* The library table's growth (`library.c:235` clears only the first of sixteen new slots): sequential code, for a unit test.
* Host tools: the client side of the monitor, quoted for what it promises.
