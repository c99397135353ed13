# A model of JOS (TP 4) in TLA+

`src/TP 4` is a small multiprocessor operating system in the style of JOS: an
exokernel-like kernel (`kern/`), a user library that builds fork, pipes, file
descriptors and RPC out of a few system calls (`lib/`), and a file server that
is an ordinary environment (`fs/`). `TP 1` to `TP 3` are earlier stages of the
same kernel. This directory holds TLA+ specifications of it, translated from the
C code, the TLC configurations that check them on small instances, and
machine-checked proofs of the main safety properties for every instance.

Paths below are relative to `src/TP 4`.

## The system

| Part | State it keeps | Operations | Talks to |
|---|---|---|---|
| big kernel lock, `kern/spinlock.c` | `kernel_lock.locked`, `.cpu` | `spin_lock`, `spin_unlock` | every kernel entry and exit |
| environments, `kern/env.c` | `envs[]` (status, id, parent, type, trap frame, page directory, IPC fields), `env_free_list`, `curenv` per processor | `env_alloc`, `env_free`, `env_destroy`, `env_run`, `envid2env` | scheduler, memory, system calls |
| scheduler, `kern/sched.c` | none of its own; `cpu_status` | `sched_yield`, `sched_halt` | `envs[]`, the lock, the monitor |
| traps, `kern/trap.c`, `kern/lapic.c` | the IDT, `cpu_status` | `trap`, `trap_dispatch`, `page_fault_handler` | all of the above |
| system calls, `kern/syscall.c` | none | 14 calls | environments, memory |
| memory, `kern/pmap.c` | `pages[]`, `page_free_list`, page directories | `page_alloc`, `page_free`, `page_insert`, `page_remove`, `page_lookup`, `tlb_invalidate` | `env_free`, page system calls, IPC |
| messages, `lib/ipc.c` and `syscall.c:290-398` | `env_ipc_*` | `ipc_send`, `ipc_recv` | file server, user programs |
| fork and user page faults, `lib/fork.c`, `lib/pgfault.c`, `trap.c:364` | `env_pgfault_upcall`, copy-on-write bits | `fork`, `duppage`, `pgfault` | memory, environments |
| descriptors and pipes, `lib/fd.c`, `lib/pipe.c` | shared pages found by their reference counts | `dup`, `close`, `read`, `write`, `pipeisclosed` | fork, memory, file server |
| file server, `fs/serv.c` | `opentab[]`, one shared page per open file | `serve_*` | messages, file system |
| file system, `fs/fs.c`, `fs/bc.c` | block bitmap, super block, block cache in memory, the disk | `alloc_block`, `free_block`, `file_*`, `bc_pgfault`, `flush_block` | disk |
| start, `kern/init.c`, `kern/mpentry.S` | `mpentry_kstack`, `cpu_status` | `boot_aps`, `mp_main` | lock, scheduler |
| programs started by programs, `lib/spawn.c`, `lib/args.c`, `user/sh.c` | the stack and segments of the child | `spawn`, `init_stack`, `map_segment`, `argnext`, `runcmd` | file server, system calls |
| memory at the start, `mem_init()` of `kern/pmap.c` | `nextfree`, `kern_pgdir` | `boot_alloc`, `page_init`, `boot_map_region` | memory |
| console, `kern/console.c`, `lib/console.c`, `lib/readline.c` | `cons` (a ring), the static `shift` of the keyboard, the screen | `cons_intr`, `cons_getc`, `kbd_proc_data`, `cga_putc`, `readline` | the shell, every program that reads |
| registers, `kern/trapentry.S`, `env_pop_tf()` | `env_tf` | `trap`, `env_run` | environments, system calls |

What is hard in it:

* **Processors.** They share `envs[]` and nothing but one lock orders them.
  Three things happen outside the lock: the exchange of `cpu_status` at the head
  of `trap()`, the test of `panicstr`, and the `iret` after `unlock_kernel()`.
* **Dying elsewhere.** An environment destroyed from another processor cannot be
  freed; it becomes a zombie and its own next trap frees it.
* **Reuse.** Slots of `envs[]` are reused, and permission is the equality of two
  identifiers whose generation wraps around.
* **Scheduling.** Progress depends on a periodic timer, on the scan of
  `sched_yield()`, and on nothing else.
* **User-level protocols** over shared pages (pipes, open files), where one
  side reads two counters at different moments while others fork, dup or exit.
* **The disk**, written block by block, with a cache in front of it, by every request and by
  every start of the server.
* **The monitor.** Whoever enters it keeps the kernel lock for ever, and every panic of a
  program does: one program that gives up stops the machine.
* **Boundaries.** Pages, sectors, a ring, a line, an argument array: what begins or ends
  in the middle of one of them.

What makes each part correct: the lock is exclusive and its checks never fire by
mistake; the status of an environment says exactly whether a processor runs it;
the free list is exact; only the family of an environment destroys it; zombies
are collected; runnable environments run; the kernel panics for nothing but the interrupt of a device; a page is
free exactly when nothing refers to it, page tables are private, no processor
translates with an entry that is gone, write access is only inherited; each
processor starts on its own stack and alone; a send and a receive meet exactly
once; memories are private but for the pages that are shared on purpose; a pipe is
a bounded FIFO whose other end is not taken for closed while it is open; an
open file stays open, with its offset, until nobody holds it; on the disk a block
belongs to one file, whenever the machine stops, and a name that was flushed stays in its
directory (with exceptions that the properties state); `mem_init()` hands out nothing that is in use and stores to nothing that
is not mapped yet; a program finds the bytes of its file, then zeros, and the words
of its command line; an environment computes as if it were alone; characters of the
console come once and in order, as the keys meant them, and the screen shows the line.

`PROJECT.json` lists every part with what is modelled of it, every hazard of the
code at its line with the properties that cover it, and the source lines of
every definition.

## The modules

| Module | What it is |
|---|---|
| `BigKernelLock` | what `lock_kernel()`/`unlock_kernel()` promise: a mutual exclusion lock |
| `SpinLock` | `kern/spinlock.c`, one step per memory access another processor can see |
| `Boot` | the start of the processors, composed with `SpinLock` |
| `Kernel` | environments, scheduler, traps, system calls on environments |
| `KernelProofs` | theorems about `Kernel` and `MemInit` |
| `AddressSpaces` | what the page system calls promise: maps from addresses to pages |
| `PMap` | reference counts, free pages, page tables, page system calls, cached translations |
| `PMapProofs` | theorems about `PMap`, among them that it implements `AddressSpaces` |
| `PagePool`, `PageList` | the free list as a set, and as the linked list it is |
| `MachineProofs` | theorems about `SpinLock`, among them that it implements `BigKernelLock`, about `Boot`, about `PageList`, which implements `PagePool`, about `Console`, which implements `ConsoleInput`, and about `Keyboard` |
| `Rendezvous` | what `ipc_send()` and `ipc_recv()` keep: each send meets one receive, and where its page goes |
| `Ipc` | the two system calls of messages, the fields of `struct Env`, the loops of `lib/ipc.c` |
| `IpcProofs` | theorems about `Ipc`, among them that it implements `Rendezvous` |
| `PrivateMemories` | what `fork()` and `spawn()` promise of memory |
| `Fork` | copy-on-write, page faults of user programs, `fork()` and `spawn()` call by call |
| `ByteStream` | what a pipe promises of its bytes |
| `Pipe` | `lib/pipe.c` with the operations of `lib/fd.c` on its ends |
| `PipeProofs` | theorems about `Pipe`, among them that it implements `ByteStream` |
| `OpenFiles` | what the file server promises of open files |
| `FileServer` | `fs/serv.c` with its clients, `lib/file.c` and `lib/fd.c` |
| `UserProofs` | theorems about `Fork` and `FileServer`, among them that they implement `PrivateMemories` and `OpenFiles` |
| `Fs` | `fs/fs.c` and `fs/bc.c` over a disk that outlives the machine |
| `Directory` | the root directory: names, growth, holes, and the order of its writes |
| `FsProofs` | theorems about `Fs` and its disk, and about the names of `Directory` |
| `MemInit` | `mem_init()`: from the page table of `entry.S` to the kernel's own |
| `Computations` | what an environment may rely on of its registers |
| `Registers` | traps, system calls and `env_run()` as far as they move registers |
| `ProgramProofs` | theorems about `Registers`, which implements `Computations`, and `Segments` |
| `Segments` | `load_icode()`, `map_segment()` of `spawn()`, `readseg()` of the boot loader |
| `Arguments` | the shell's parser, `init_stack()`, `argnext()` and `argnextvalue()` |
| `ConsoleInput` | what the console promises of its input: a queue |
| `Console` | two devices, `cons_intr()` and `cons_getc()`, `readline()`, the screen |
| `Keyboard` | `kbd_proc_data()` behind a keyboard |
| `MCKernel`, `MCPMap`, `MCIpc`, `MCFork`, `MCPipe`, `MCFileServer` | instances for TLC, of one module each |
| `MCStart` | `Boot`, `MemInit` and `PageList` side by side |
| `MCFiles` | `Fs` and `Directory` side by side |
| `MCConsole` | `Console` and `Keyboard` side by side |
| `MCProgram` | `Segments`, `Arguments` and `Registers` side by side |

*Side by side* means that the initial state says (`part`) which of the modules the
behaviour is about; it takes the steps of that one, while the variables of the
others stay as they begin. The modules share a subject and not their state, and each is
explored in full as if alone.

The layers fit together through their abstract forms. `Boot` runs on the steps of
`SpinLock`; a kernel entry of `Kernel` and `PMap` is one step because of what
`SpinLock` guarantees; a system call of `Ipc`, `Fork` and `Pipe` is one step for the
same reason, and that an environment which can run gets a processor
is what `Kernel` shows. `MemInit` ends with the list that `PageList` begins with, and
`Registers` opens the one step of `Kernel` that is more than one in the code: `env_run()`
loads registers after it has released the lock. A message of `FileServer` is a meeting of `Rendezvous`, which
`Ipc` implements; what its files contain is in `Fs`.

`PMap` and `Kernel` are two views of the same kernel entries, each with the state it
needs. `PMap` takes from `Kernel` what is proved there, that an environment runs on one
processor at most and that a destroyed one which runs elsewhere stays until its
next trap, and leaves open which environment is scheduled next.

### SpinLock

`locked` and `lockCpu` are the two fields of `struct spinlock`; `pc` says where
each processor is. With `DEBUG_SPINLOCK` (defined in `spinlock.h`) both functions
call `holding()`, which reads the two fields one after the other without the
lock, while the owner writes them one after the other. So `spin_lock` is
`LockReadLocked`, `LockReadCpu`, `LockXchg` (the spin), `LockRecord`, and
`spin_unlock` is `UnlockReadLocked`, `UnlockReadCpu`, `UnlockClear`,
`UnlockRelease`. A failed check is `panic()`, the point `"dead"`. Accesses take
effect in program order: the loads of `holding()` come before a locked exchange,
and on x86 neither exchange is reordered with the stores around it.

### Boot

The boot processor takes the kernel lock and starts the others one by one; each finds
its stack in `mpentry_kstack` and does its first work in the kernel, `lapic_init()` with
its `mmio_map_region()` above all, *without* the lock. `at` is where each processor is in
`i386_init()`, `boot_aps()`, `mpentry.S` and `mp_main()`, `up` are those whose `cpu_status` is
`CPU_STARTED`, `kstack` is `mpentry_kstack`, `regions` is the static variable `base` of
`mmio_map_region()`, read and stored in two steps (`MapRead`, `MapStore`). `LockStep` is
a step of `SpinLock`, of a processor on its way through `lock_kernel()` or one that is
running: every `BootSpec` behaviour is one of `SpinLock!Spec`, so what is stated
and proved of the lock holds during the start as well. `Kernel` begins where `Boot` ends.

### Kernel

A processor holds the lock from its entry into the kernel to its return to user
mode or its halt, so **one kernel entry is one action**. `SpinLock` is what
justifies it: `owner` changes only by `Acquire` and `Release`.

| Variable | Code |
|---|---|
| `env_status`, `env_parent_id`, `env_ipc_recving` | the fields of `struct Env` |
| `env_gen` | the upper bits of `env_id` (`inc/env.h:12-30`); `EnvId(e)` is `<<generation, slot>>`, `NoId` is 0 |
| `env_if` | `FL_IF` of `env_tf`, or of the processor while it runs the environment |
| `env_free_list` | the list through `env_link`, as a sequence |
| `curenv`, `cpu_status` | the fields of `struct CpuInfo` |
| `cpuAt` | waiting to schedule for the first time, in user mode, halted, in the monitor |
| `kernel_lock` | who keeps the lock *between* two actions: the boot processor before the first `sched_yield()`, and for ever the one in the monitor, which it has entered from `sched_halt()`, at a breakpoint or with a panic |
| `panicstr` | the kernel has panicked; the others stop at their next trap |

The helpers that return to user mode take the status table as the handler leaves
it: `EnvRun`, `SchedHalt`, `SchedYield`, and `Resume` for the end of `trap()`.
Every handler ends in one of them, as in the code. `TrapFromUser` and `Enter` are
the head of `trap()`. The handlers are the actions `FirstSchedule`, `WakeUp`,
`TimerInterrupt`, `Reap`, `UserFault`, `SysYield`, `SysExofork`,
`SysEnvDestroy`, `SysEnvSetStatus`, `SysEnvSetTrapframe`, `SysIpcRecv`, `SysIpcTrySend`,
`Breakpoint` and `DeviceInterrupt`. A call that only returns an error leaves through `Resume` with
nothing changed and has no action of its own; `sys_ipc_recv()` with a bad address
does change something, and is the same as a good one here. A spurious interrupt,
a page fault with an upcall and the page calls change no variable of this module.

A breakpoint enters the monitor (`trap.c:247`), and the monitor has no command that leaves it
(`monitor.c:149-154`), so the lock is never free again (`StayInMonitor`). A program comes there by
itself or by a panic, since `_panic()` of `lib/panic.c:22-24` ends in `int3`. Every module whose programs
panic (`Ipc`, `Fork`, `FileServer`) says what this means to the others.

The interrupts of the keyboard and of the serial line are unmasked (`console.c:107`, `383`) and reach
the boot processor, but `trap_init()` makes a gate for the timer's only (`trap.c:132`). Such an interrupt is
a protection fault: it destroys the environment that runs (`trap.c:298`), or, when it
finds the processor halted, it panics (`trap.c:295`). That is `DeviceInterrupt`, at any time.

The module starts after the `ENV_CREATE`s of `i386_init()`, with the boot
processor holding the lock and the others on their way to `lock_kernel()` in
`mp_main()`.

**What programs ask.** `Spec` makes the calls that the programs and libraries of
the repository make:

* `StartChild`: `sys_env_set_status` is called by `lib/fork.c:66` and `251`,
  `lib/spawn.c:146` and `user/dumbfork.c:75`, always on the child just made and with
  `ENV_RUNNABLE`. In the guard that is a child that is not runnable and waits
  for no message.
* `SetChildTrapframe`: `sys_env_set_trapframe` is only called at `lib/spawn.c:143`, on
  such a child, with a copy of its own frame.
* `Kill`: `lib/exit.c:8` and a few programs; none destroys a child twice, so the target is
  no zombie.
* `Send`: `ipc_send()` to an environment that calls `ipc_recv()`.

### PMap

A page is referred to by *words*: the entry of an address in a page table, the
entry of a page table in a page directory, and `env_pgdir`. `Words` names them by
environment and entry, and `pp_ref[p]` should be the number of words that hold `p`.

| Variable | Code |
|---|---|
| `pp_ref` | `pages[].pp_ref`, modulo `RefLimit` |
| `page_free_list` | the set of pages on that list, of which `page_alloc()` takes any, see `PageList` |
| `entry` | the page each word refers to: `entry[e, va]`, `entry[e, PDX[va]]`, `entry[e, Root]` |
| `writable` | the addresses whose entry has `PTE_W` |
| `parent`, `dying` | the family and the zombies, as in `Kernel` |
| `cr3` | the environment whose directory a processor has loaded, `NoEnv` for `kern_pgdir` |
| `tlb` | the translations a processor keeps; `Touch` adds one, `lcr3()` drops all |

The functions of `pmap.c` call one another, so their translations work on a memory
`m`, a record of the first three variables, and give the memory they leave:
`PgdirWalk` (the set of results is empty when there is no page for the table),
`PageInsert`, `PageRemove`, `PageDecref`, and `EnvFree`. The system calls are
`SysPageAlloc`, `SysPageMap`, `SysPageUnmap`, `SysIpcTrySend` (the page of a message),
`SysExofork` (`env_setup_vm()`); the ends of an environment are `DestroyChild`,
`Exit` and `Reap`. Each returns to user mode through `lcr3()`, as `env_run()` does. A
call that fails for want of memory leaves everything as it was: `sys_page_alloc()`
gives its page back. `invlpg` needs no action: its processor reloads `cr3`
before a program runs there.

**What programs ask.** `Alloc`, `Share`, `Send` and `Unmap` are the calls the
programs make: for themselves and for children they have not started (`lib/fork.c`,
`lib/spawn.c`, `user/dumbfork.c`), sharing what they have (`fork()`, `dup()` and `pipe()`
look in `uvpt` first), and unmapping where a page table exists: every
`sys_page_unmap` of `lib/`, `fs/` and `user/` is at an address that was mapped, or, in
the error path of `dup()` (`fd.c:198`), next to one, as descriptors and their
data share one page table.

### PageList and PagePool

`page_free()` walks the list as if it were in descending order. It is not: in
`check_page_free_list(1)` `mem_init()` moves the pages of the first 4 MB to the front, and nothing
moves them back, so the walk stops where it may. `PageList` has that list and the
walk: `Stops(p, i)` says that it ends after `i` pages, `Before` and `After` are the two parts and `Linked`
what the stores make of them. It implements `PagePool`, a set of
which some page is taken, and that is the form `PMap` uses.

### MemInit

The boot processor comes from the page table of `entry.S`, which maps the low 4 MB only, to the kernel's own
directory. Memory and addresses are counted in pages. One action per call of `boot_alloc()`,
per turn of the loops of `page_init()` and of `check_page_free_list(1)`, and per entry that `boot_map_region()` stores,
with the page table taken from the list when there is none (`MapWithTable`).
`stored` are the pages the last step has stored to (those of `pages[]` only while the list is made: later
links and counts are in the same place): `Mapped` says that the
table in force maps them, which before `lcr3()` is so because
`check_page_free_list(1)` has moved the low pages to the front of the list (`halves` are its two lists
while `TakeApart` fills them). `call` and `turn` say which region is being mapped and how far. The `check_*()`
functions take pages and give them back in an order of their own; they are modelled by what they leave of the
list, and a failed assertion is `Panic`. `check_page_installed_pgdir()` fails that way, on a machine
that is in order, when exactly three low pages are left.

### Registers and Computations

A kernel visit is one step: the trap saves the frame in `env_tf`, the call stores its result there or
in the frame of another environment, and `Resume` or `SchedYield` pick who goes on. `env_pop_tf()` comes *after*
`unlock_kernel()` and is two steps more (`Popal`, `Iret`): another processor may be in the kernel between them.
Which environment is next is open here, `Kernel` says it. The frames have a result, one register, a
place (an instruction of the program, one that makes a system call, or the page fault handler) and `FL_IF`.
`sys_env_set_trapframe()` tests for permission only, so a parent may load a child that runs: what is stored between
`Popal` and `Iret` is taken in half, and what is stored later is lost at the next trap.

`Computations` says what a program may rely on. Its registers change in three ways and no other: by an instruction of its own,
while it executes (`runs`; `Work` changes a register, `Ask` comes to a call and puts the number of it in `eax`); when the
call that *it* made returns (`Asked`, `Answer`), with the result the call defines; and by a frame that it or
its parent loads (`Load`), in full if the program is on no processor, and otherwise perhaps in part or not at all
(`LoadLost`). Timer interrupts, page faults and moves between processors (`Interrupt`, `Enter`) change none of them.
The mapping (`Regs`, `Runs`, `Placed`) shows that the kernel keeps to that. A trap that saved nothing, and a
result that is not stored in the frame of the caller, are the mutants of it.

### Segments

`load_icode()` (`RegionAlloc`, `Copy`), `map_segment()` (`MapPage`, one page a step, with its failures)
and `readseg()` with the clearing of the kernel's data (`ReadSect`, `ClearBss`). Byte `k` of the
file is the number `k + 1`, so that every misplaced byte is seen; a fresh page of `load_icode()` holds
`Old`, whatever was there, since `page_alloc()` is called without `ALLOC_ZERO` in `region_alloc()`.
Programs are what the linker makes: segments in ascending order, no two in one page,
address and file offset equal modulo the page.

### Arguments

A line of characters goes through `gettoken()`, which has read one token ahead and writes zeros into the
line that all tokens point to; `runcmd()` collects words, redirections and the two sides of a pipe
(`part` counts the bars passed); `init_stack()` copies the words to a page of the child, strings from
the top, then the pointers; the program takes flags and values with `argnext()` and `argnextvalue()` in any order.
Only one command of a pipe is followed, any one.

### Ipc and Rendezvous

There is no queue of messages. A receiver blocks in `sys_ipc_recv()`; a sender calls
`sys_ipc_try_send()` again and again until it finds the receiver blocked, and then leaves
the message in fields of the receiver's `struct Env`, which `ipc_recv()` reads one after the
other once it runs again (`ReadFrom`, `ReadPerm`, `ReadValue`). `gen` is the generation in
`env_id`: slots are used again, the fields keep what they held (`env_alloc()` clears
`env_ipc_recving` only), and senders may know identifiers of environments that
have gone. `Die` takes an environment at any point of a call. A try that finds the receiver
not blocked changes nothing and is no action. `where` is the address at which the page
of the message is mapped; it is a variable of the page table, kept to
compare it with what the call asked for (`pg`). A receive that asks for no page passes an address at `UTOP`, and
`sys_ipc_recv()` then leaves `env_ipc_dstva` as it was (`Dstva`): an earlier receive of the slot has set it, perhaps of an
environment that has gone. `sys_ipc_try_send()` maps the page there (`Landing`), and stores the
permission whether it has mapped one or not. `monitor` says that somebody has panicked: from then on nobody gets into the
kernel.

`Rendezvous` knows names that are never used again, offers and messages, the homes (slots) of names with the
`place` that was asked for last in each, and `stopped`. The mapping
shows that every delivery is the meeting of one send and one receive, of this
incarnation of the receiver, that what is returned is one message as a whole
although its parts are read at different times, and where its page is then.

### Fork and PrivateMemories

One action per system call or memory access of `fork()`, `duppage()`, `pgfault()`, the upcall
of `pfentry.S` and `spawn()`. `map` has a page and a permission per environment and address:
`"w"`, `"ro"`, `"share"` (`PTE_SHARE`) or `"cow"` (`PTE_COW`). `write` is the address an
instruction wants to write; while it is set, the environment does nothing but finish the
write, with a page fault first when the page is copy-on-write. `faults` is the stack of page faults
being handled: the upcall stores on the stack that faulted, which can be
copy-on-write itself (`ReturnFaults`), and then the handler is entered on top of
itself. The parent writes on its stack (`BeginWrite` with `Stack`) between any two calls of
`fork()`, on a page it is about to copy, is copying or has copied. `duppage()` decides by the
entry it read (`job.seen`), and maps the page that is there later. `handled` says
what of an environment's fault handling is in place. `Panic` stops
the machine, since a panic of a program enters the monitor with the kernel lock.

`PrivateMemories` gives each environment a memory of its own. A child under
construction has the contents of an address once nobody else can write to the page
(`Settled`): the two calls of `duppage()` are one step there, taken at the second.

### Pipe and ByteStream

`fds` and `data` count, per environment, the mappings of the fd page of each end and of
the data page, so `pageref()` is the number of pairs of an environment and one of its mappings
(`FdRefs`, `DataRefs`). The loops of `devpipe_read()` and
`devpipe_write()` are cut at every access to the shared page: test, copy, advance. `_pipeisclosed()`
is `ReadFdRef` and `ReadDataRef`; `same` says whether `env_runs` is what it was when it was first
read, and `Dispatch`, which is `env_run()`, makes it false. `close()` and `dup()` are two
system calls each, `fork()` (and `spawn()`) one per page of a descriptor, fd pages before data pages.
`NCPU` is the number of processors: with one, somebody else runs only between a
`Dispatch` and the next, and then `env_runs` tells; with two it does not (see
*Disagreements*). Environments fork while nobody else has the ends they have open, as the programs
do; what happens otherwise is a hazard of its own (`lib/spawn.c:326`).

### FileServer and OpenFiles

An open file is an entry of `opentab[]` and a page. `maps` counts the descriptors of each
client that map the page of each entry; `pageref` adds the server's own mapping.
`opens[i]` is `o_fileid \div MAXOPEN`: the identifier changes each time the entry is given out.
A request is a record (`args` at the client, `req` at the server); `spc` is the point in `serve()`:
`Scan` is a turn of `openfile_alloc()`, `Fill` the rest of `serve_open()`, `Lookup` is
`openfile_lookup()`, `Act` a handler, `Reply` the answer, with the page when it is one of
`open()`. `Wait` is the client's `sys_ipc_recv()`: before it the server tries in vain. Clients
die anywhere, also while they are served: then `ipc_send()` panics (`Panic`), because the slot
of the client is free or has another environment, and that keeps the kernel lock: what clients do after it in the model is more than they can. A request that fails leaves the
entry it had taken without an owner, as in the code, to be found by the next `open()`.

`OpenFiles` has open files by identifiers that are not used again, each with a file and an
offset shared by all its descriptors. The mapping uses the entry that has the
identifier now: that no client has a descriptor of an earlier one is what the counts ensure.

### Fs

One action per write of a block to the disk: the variables without `d` are what the file
server has in memory, those with `d` what is on the disk. `used` is the bitmap, `ptr` and `ind` the
pointers of each `struct File` (all in one directory block, so one `flush_block()` writes all of
them), `dirty` the data blocks that differ from the disk. `Crash` throws away memory
between any two writes, and the server starts with what is on the disk. `alloc_block()` flushes the
bitmap, `free_block()` does not; a new indirect block is on the disk as used and,
until `FlushCleared`, with what it held before.

Each start writes to the disk before it serves, and may be stopped between two writes; `phase` says how far it is. `check_bc()` writes
`OOPS!` over the super block on the disk and restores it from its backup, twice (`Smash`, `Restore`;
`bc.c:98-154`). A stop in between leaves a bad super block (`oops`): every later start makes *that* its backup, and
`check_super()` panics (`CheckSuper`), so the disk is never served again, though no file on it is changed. `fs_test()` takes
a block that nobody gives back (`TestAlloc`, `fs/test.c:18`), so that each start leaks one (`lost`), until there is none
and it panics; it compares `/newmotd` with the message (`TestGet`, `TestCompare`), truncates it and writes it anew
(`TestTruncate`, `TestExtend`, `TestFlush`, `fs/test.c:44-66`). `FlushedSurvives` states both as exceptions: the super
block in a stop that meets it smashed, and `/newmotd` from the first write of `fs_test()` to the last.
Everything else that was flushed survives the stops of the start as well.

### Directory

`serve_open()` with `walk_path()`, `dir_lookup()`, `dir_alloc_file()` and `file_create()` in the root directory, where all
files of the repository are. `root` are its blocks in order, `Nil` for a hole: `dir_alloc_file()` makes the directory
longer before it has a block for it, so that a growth that fails leaves one, and the next
`dir_lookup()` fills it (`FillHole`). `writes` are the blocks that `file_flush()` or `fs_sync()` have still to write, in
their order; `Crash` comes between any two, and the start is the same as in `Fs`, with `fs_test()`'s two `open()`s (of a name that must not be
there, and of `newmotd`) going through the directory as all do. `known` are the names that `open()` has come back with.

A new block is not cleared, so a block that has been a file's is read as entries with what a program has written in it, and the
model goes on from there. Two history variables say what the directory has got: `stale`, a block that has held data of a
file; `foreign`, one in which the data looks like an entry *with a pointer*. While there is no `stale` block no name is twice there,
or there without a request. With one there may be names that nobody made, but those that were made stay. With a `foreign` one nothing
is claimed: the entry makes the server free or overwrite a block of another file, or of the directory itself, and panic when it
reads a block that is marked free (`ReadsFree`; a block that is still in the cache is not read, and the module allows both).

### Console, ConsoleInput and Keyboard

A key is read only when a program asks for one: `cons_getc()` polls both devices, under the kernel lock, and then takes one character of
the ring. What the key does at once is harm: its interrupt is let through and has no gate (see *Kernel*), so that `Interrupt`
destroys whoever runs on the boot processor, a reader perhaps (`gone`), with the character and the line it
had, or panics (`stopped`). `initsh` starts the shell again (`NewShell`, `user/initsh.c:18-26`); the other readers do not come back. `irq` are the devices
with an interrupt under way, which is not delivered while somebody polls. `dev` are the characters a device holds, `cons` is the ring with its two positions, `poller` who
polls and `todo` the devices still to be polled. The ring has no test for being full; `ImplementsInput` says
what a user gets while it is not lapped, which is the guard of `Type`. `line` is the buffer of `readline()`,
`crt` the screen, where rows scroll in the middle of a line. Other programs take
characters too (`Use`), and their output is left out.

`Keyboard` has scan codes with their `E0` prefix, and keys that are pressed and released in any order; the codes are
taken later, one a poll. Each code carries what the key meant when it was pressed, and
`AsMeant` compares that with the character that comes out. The one bit per modifier cannot tell two
Shift keys from one: when both were down and one is released the bit is gone (`mixed`), and nothing is
claimed until the other is released too. CapsLock does not repeat; NumLock and ScrollLock have bits that nothing reads.

## What the runs check

| Run | Instance | Shows |
|---|---|---|
| `start` | `Boot`: 4 processors; `MemInit`: 8 sizes of memory, 2 of the kernel; `PageList`: 10 pages, 5 of them low | `BootIInv` (exclusion, no false panic, own stacks, unlocked set-up by one processor at a time), refinement of `BigKernelLock`, the start ends and somebody always gets the lock; nothing in use is free, stores are mapped, the kernel's map; refinement of `PagePool` |
| `kernel` | 2 processors, 3 slots, 2 first environments, generations up to 2 of 4 | `IInv`, with breakpoints and interrupts of devices; only its family destroys an environment; zombies are collected, and what can run runs once nobody leaves any more, unless somebody has entered the monitor |
| `pmap` | 2 processors, 2 environments, 2 addresses with a page table each, 6 pages | `IInv` (counts, free pages, tables, translations), write access is inherited, refinement of `AddressSpaces` |
| `ipc` | 3 environments, the receiver's slot is used twice, 2 values, 2 addresses | `IInv` (fields, statuses and reads agree), refinement of `Rendezvous`, no send retries in vain for ever while the machine runs |
| `ipc_perm` | the same | the code against a comment: a page, or word of a page, for a receive that asked for none |
| `fork` | 2 slots, a data page, a shared page and a stack, 3 pages per address | `IInv` (writes are private, copy-on-write faults can be handled), refinement of `PrivateMemories`, every write ends |
| `pipe` | 1 processor, 2 environments, 3 descriptors each, a buffer of 2, 3 bytes | no open end is taken for closed, refinement of `ByteStream`, nobody waits in vain for ever |
| `pipe_race` | the same with 2 processors | the code against a test |
| `server` | 2 clients, 2 files, 2 entries, 2 descriptors each, 3 opens, offsets up to 1 | `ServerIInv` (no request is refused), refinement of `OpenFiles`, answers come unless the server has panicked |
| `files` | `Fs`: 2 files, one of them `newmotd`, 4 blocks, 1 direct and 1 indirect pointer, 2 stops; `Directory`: 3 names, 4 blocks with 2 entries each, 3 texts, 1 stop | no block on the disk has two owners or is marked free, what was flushed survives, also stops of the start; no name twice or from nowhere, names stay, files that exist open |
| `console` | `Console`: 2 devices, 2 readers, 3 characters; `Keyboard`: 9 keys, 3 down at once | the screen shows the line, refinement of `ConsoleInput`, all is read while there is a reader; keys give what they meant |
| `program` | `Segments`: 2 segments, 12 bytes in pages of 4; `Arguments`: lines up to 7 characters; `Registers`: 2 processors, 2 environments | images, arguments, refinement of `Computations` |

**Bounds.** `start`: with four processors one is the boot processor, one starts, one
has started and wants the lock, one is still off. With three in the kernel the lock has one inside,
one between the two reads of `holding()` and one spinning. No symmetry there: the boot processor differs.

`GenLimit` is the last generation (2^19 - 1 in the code), `GenBound`
stops the exploration: `EnvAlloc` is not taken beyond it, so in `kernel` generations do
not wrap around; the theorems cover that case. Two processors are enough for every pair of roles in these properties:
one that acts and one that runs the victim. Three slots hold a parent, a child and
a bystander; with `NBoot = 2` one slot is free at first, and each is reused.
No symmetry: the order of the slots matters to the scan.

In `pmap` two environments and two addresses are every relation a page can have:
twice in one address space, in two, as data here and a table there. Page 0 is never
free, so five pages are left, fewer than two environments with two tables each
want: every call also meets the end of memory, and pages return in every order and to
other roles. `RefLimit` is 16, more than the 10 words there are, so nothing
wraps: `pp_ref` has 16 bits and `page_insert()` increments it without a test, so the code
is exact only while a page has fewer references than that. Processors, environments and addresses (each with its table) are interchangeable: no
action or property singles one out, only the start does, and an image of the start has the
images of its behaviours. So they are a symmetry set. Pages are not, as page 0 is special.
Nothing else bounds this run.

In `start` the sizes are chosen around the boundaries: memory that ends with
the kernel's arrays or before them (`NotEnough`), that leaves too few pages for the tables (`MapFaults`) or for
the checks, that ends before or after the 29 pages of a page table and of two; `KernelEnds` shifts the kernel by a page. The kernel's own structures
have the proportions of the code, made small (`PERPAGE`, `ENVPAGES`, stacks of 2 with gaps of 2). Ten
pages of `PageList`, five low and five high, give every order in which a list that begins
in two descending runs can be taken and put back.

In `ipc` two senders compete for a receiver that may be killed at any point, between two reads
of a message for instance, and whose slot then gets another environment, to which one
of them sends and the other does not. Two values and two addresses tell messages and
requests apart, and one of them may be what an earlier receive of the slot has left. Only the receiver's slot is
used again: nobody sends to the others.

`fork` has one address of each kind that matters (data, shared, the stack) and two
environments that make one another again and again, so that a page is inherited, copied by either of
the two, inherited again and given up. Three pages per address are two in use and one
at `PFTEMP` or `UTEMP`; in every allocation memory may also run out. A read-only address behaves like a shared
page that is never written; the module has it, the instance does not. `Values` are two
contents, a new page has the first.

`pipe` needs two slots in the buffer so that it is neither always full nor always empty, and a
third byte to come around. Three descriptors are the two ends and a copy made by
`dup()`. One reader and one writer, as the code takes for granted: it has no lock.

`server`: two entries and two clients that fork one another make an entry be shared, given up by
one, by both, given out again while the other one is still shared, and run out. `MaxOpens`
bounds how often entries are given out, `MaxOffset` how far offsets go: the
properties look at one operation at a time.

`files`: in `Fs` the four blocks are as many as two files with their indirect blocks want, and each start
takes one of them for good, so every allocation also fails, that of `fs_test()` among them. The second stop is there to
come in the start that follows the first, when it has met a smashed super block or a file half written. Requests are made in one run of the server
(`MaxServed`): after a stop the server begins with what is on the disk, whatever it was, and the theorems have any number of runs. `Directory` has
three names in blocks of two entries, so that it grows, on
a disk that is too small for what is asked. A program may write three texts: none that looks like an entry, one with the name of
an entry, one with an entry that points to the directory's own block; the directory may get each of them.

`console`: the devices hold 2 characters, the ring 2 (of 3 places, as one position for both ends is
empty), a line 2, the screen is three rows of two: every line crosses a row and the screen scrolls in
the middle of it, since the cursor begins in the last row but at its start (`Cursors`). Three characters fill the line and lap
its buffer, and those of two devices lap the ring. The keys are one letter, one key of another
kind (the dot on the keypad, which the Delete key shares its code with but for the prefix), CapsLock,
and both keys of Shift and Control, with one of Alt, as both are alike. Three down at
once is Ctrl-Alt-Del.

`program`: exactly two segments, of every address and size within three pages of 4 bytes, two sectors a page, so that each end
may be at a boundary, next to it or between. Lines of up to seven characters are words, flags and
bars, lines of up to five have paths, a redirection and a symbol the shell does not take (`&`; `>` is parsed as `<` is). `MAXARGS` is 3, and the stack page of
18 bytes holds some of these commands and not others. Two environments on two
interchangeable processors (a symmetry set) are the one that acts and the one it acts on;
register contents are two values. One of them has page faults (`Faulting`), with interrupts in all frames.

**Fairness.** `SpinLock` and `Boot`: a processor inside `spin_lock`, the kernel or
`spin_unlock` keeps executing instructions, and so does one that starts; one
that runs an environment need not come back. This
gives `BootProgress` (`MachineStarts` of the run); a spin lock does not promise that *each* processor enters,
and no module claims it does. `Kernel`: the local APIC timer is `PERIODIC`
(`lapic.c:73`), so each processor that accepts interrupts is interrupted again
and again (`Tick`): from user mode with `FL_IF`, or halted after `sti`. That is
weak fairness of one disjunction per processor; no program is fair. It takes for
granted that a processor that was interrupted gets the lock in the end, which
the hardware gives in practice and the exchange alone does not. It cannot, once a processor has entered the monitor, and so both
liveness properties of `Kernel` say *or the machine has stopped* (`Stopped`). `Console`: a reader that has not been destroyed goes on, as long
as the kernel has not panicked, and a program that has read a character uses it. `EverythingRead` excepts what nobody is left to read
(`NobodyReads`): keys can destroy every reader, and not even the shell need come back, as nothing makes `initsh` run in time.

The user-level modules build on what `Kernel` shows: an environment that can run is run
again and again. `Ipc`, `Fork` and `FileServer` assume weak fairness of the steps an
environment takes once it has called something (`Continue`, `Works`, `Wait`, `Serve`); nobody
is made to call anything, and whoever makes a child need not finish it. In `Ipc` that is so only while nobody is in the monitor
(`WF_vars(~monitor /\ Continue(e))`), and `SendEnds` says no more; a panic is a state of `Fork` and `FileServer` from which their liveness
asks for nothing, for the same reason. Breakpoints and interrupts of devices, which also stop machines and kill environments at
any time, are in `Kernel` and `Console` and in no other module: the liveness of `Ipc`, `Fork`, `Pipe` and `FileServer` is that of a machine that no key and no
other program has stopped. A sender is not promised
a receiver that it has to share with others, and `SendEnds` does not claim it. In `Pipe` the
processors are part of the model, so there `Dispatch` is weakly fair and the steps of
an environment strongly: it is taken off its processor again and again. `Pipe` assumes one
thing more, that an environment which compares the counts again and again is not interrupted
between the two reads *every* time: a time slice is several orders of
magnitude longer, but nothing in the code enforces it, and without it `WaitingEnds` is false.

`RunnableRuns` has a condition: from some moment on nobody leaves (`NobodyLeaves`: no environment
exits, faults or is killed; they still fork, yield, send and receive). Without it the property is false: after an exit `curenv` is
`NULL` and the scan of `sched_yield()` starts at slot 1 instead of after the environment that
ran (`sched.c:18,32`), so environments that come and go in the first slots can starve a later one.

**Deadlock** is checked in `start`, `kernel` and `pmap`: the kernel
never stops, a processor that has nothing left stays in the monitor (`InMonitor`), as
`while (1) monitor(NULL)` and the loop of `monitor()` do. In the other runs the system really may stop: a loader is done, all environments have exited, a program or the server has panicked, the
disk is full, nobody types, or a bound is reached.

**Mutants.** For every property of a passing run `PROJECT.json` names a small bug
(the operators marked *Mutant*) that makes the same run fail: a test and set in
two accesses, a zombie freed at once, a scan that starts with the environment that runs, an `fd` page unmapped
without its data page, an indirect block that is not cleared on the disk, and so on. They are not part
of the specification.

## Disagreements between the code and what is said of it

| Run | Said | Code |
|---|---|---|
| `pipe_race` | `user/testpiperace2.c:34`: `pipeisclosed()` never returns true while both ends are open | `lib/pipe.c:82` reads two counts, and `env_runs` only tells whether *this* processor ran something else meanwhile; with a second processor the other side dups and closes in between |
| `ipc_perm` | `lib/ipc.c:10-12`: the permission is nonzero if and only if a page was transferred to `pg`; `kern/syscall.c:304`: it is 0 otherwise; `syscall.c:309-310`: a receiver that asks for no page gets none | `syscall.c:364` stores what the sender gave, whatever happened; and line 356 tests an `env_ipc_dstva` which a receive without a page (lines 389-392) leaves as it was, so that the page is mapped where an earlier receive of the slot had asked for it, over what is there now |

`pipe` shows that the first does not happen on one processor, which is what the comparison
of `env_runs` was made for. `GNUmakefile` starts the machine with as many processors as `CPUS` says.
What *is* true of the page of a message is `PageWhereAsked`, and `ipc` shows that nothing else goes wrong: `Rendezvous` has the
place where the slot has asked last.

Others were seen by reading and modelling. The first of them a machine or its programs can meet; the modules take
what the code does there and make no claim against it:

| Said | Code |
|---|---|
| `lib/pipe.c:123`: if all the writers are gone, note eof (of an empty pipe) | the pipe was found empty at line 118, before the writers were found gone at line 124; what is written in between is lost to the reader |
| `kern/console.c:417`: return the next input character, or 0 if none waiting | `console.c:411` wraps the write position onto the read position when the ring is full, and all that waits is gone |
| `fs/fs.c:201`: `-E_NOT_FOUND` if the file is not found | a directory block is not cleared when it is allocated (`fs.c:253`, `189`), so a name that nobody made can be found in old data, and with it a pointer to a block that is another file's |
| `user/sh.c:35-36`: too many arguments | the test is for the next word: after `MAXARGS` of them `argv[argc] = 0` (line 138) is stored past the array |
| `kern/kdebug.c:39-43`: `*region_left` is the entry that contains `addr` | after an exact match line 92 adds one to `addr`, so an entry one byte further is taken |
| `kern/kdebug.c:41-43`: `*region_left > *region_right` when nothing contains `addr` | line 96 tests for any match in the range only; when all are after `addr` and the range begins with other types it is not empty |
| `lib/readline.c:28-32`: a character is deleted, ignored or inserted | `0x7f` at the start of a line is neither deleted nor ignored, and becomes part of the line |
| `kern/trap.c:281-290`: the interrupts of the keyboard and the serial line are handled | `trap.c:118-132` makes no gate for them, so that these lines are dead and a key destroys the environment that runs, or panics the kernel |
| `fs/bc.c:98-99`: smash the super block and read it back | what is smashed is the super block on the disk, and a stop before it is restored makes it the backup of the next start: no later start gets past `check_super()` |
| `kern/syscall.c:126-127`: environments run with interrupts enabled | line 144 clears `IOPL` only, so that a frame without `FL_IF` is taken as it comes |

The rest are in calls the kernel accepts and no program of the repository makes, so that the
modules do not have them:

| Said | Code |
|---|---|
| `sched.c:26`: never choose an environment running on another CPU | `syscall.c:121` makes a running child runnable |
| `env.c:491`: a zombie is freed the next time it traps | `env.c:494` spares only `ENV_RUNNING`; a second destroy frees the zombie while it runs |
| `syscall.c:317`: fails unless the target is blocked in `sys_ipc_recv` | `syscall.c:338` tests the status, so a child under construction is started |
| `pmap.c:591`: the TLB must be invalidated if an entry is removed | `pmap.c:619` reaches one processor; a child that runs on another keeps the page |
| `syscall.c:227`: fails if `srcva` is not mapped | `pmap.c:579` returns page 0 for an entry that is zero, and it is mapped |
| `syscall.c:268`: silently succeeds if no page is mapped | `pmap.c:602` uses `pte`, which `page_lookup()` has not set; in `obj/kern/kernel.asm` the slot of `pte` holds a return address, `PTE_P` seems set and `page_decref(NULL)` faults |

## What is proved

With TLAPS, for every number of processors, slots, pages and generations, from the
assumptions the modules name (`NenvAssumption`, `CpusAssumption`,
`GenAssumption`, `NoEnvAssumption`, `NoCpuAssumption`: at least one slot and one
first environment, `NoEnv` is no slot, and so on).

`MachineProofs`, of the lock: `LockIsExclusive`, `LockNeverPanics` and `Implementation`, from
`Invariance`. Exclusion alone is not inductive: `LockWord` says the word is set
exactly while a processor is between its exchanges, and `Record` that `lk->cpu`
names a processor exactly while that one is between its two stores. The second is
why a stale read of `lk->cpu` can never equal the reader.

Of the start: `UsesTheLock`, every behaviour of the start is one of the lock, so that
`LockIsExclusive` gives `BootIsExclusive` and the rest carries over. `BootInvariance` is the
inductive invariant of both together: `OneStarts` says that a processor between the
startup interrupt and its report is the one the boot processor waits for with the lock, which is what makes
`mpentry_kstack` and `base` safe without it, and `Started` relates `cpu_status` to where each
processor is. From it `StacksAreOwn`, `SetupIsAlone` and `NobodyTooEarly` (nobody calls
`sched_yield()` before there is an environment). The proof of the last one is where the
lock is needed: a processor that has got it shows that the boot processor is past `boot_aps()`.

`KernelProofs`: `RunningIsExact`, `OneProcessorEach`, `FreedNeverRuns`,
`FreeListIsExact`, `PanicsOnlyForDevices`, `MonitorIsCaused`, `FamilyOnly` and
`OrphansStayOrphans`, from `Invariance`. The invariant `IInv` needs, besides the
properties themselves: `StatusExact` (`cpu_status` is `CPU_HALTED` exactly on
halted processors, without which `trap()` would take the lock twice), `LockExact`
(between actions only a processor that has not left the kernel has the lock, and one in the monitor has it),
`RealIds` (no environment has identifier 0). The proof goes through the helpers
from the inside out: `EnvRun` and `SchedHalt` establish the invariant from what
each handler leaves, `SchedYield` and `Resume` pick one of them, and then
each action has a lemma. `OrphansStayOrphans` needs one more, `ParentsAreOld` (a parent
identifier never names a generation its slot has not had), and the hypothesis
`GenBound < GenLimit`: it is false once generations wrap around, which is
why `kernel` stops before.

`KernelProofs`, of `MemInit`: `FreeListInvariance`, `StoresAreMapped` and `KernelIsMapped`, for every size of memory
and of a page table, any number of processors and wherever the kernel ends, from `LayoutAssumption` and `MemoryAssumption`
(the kernel with its arrays ends below 4 MB, memory is at most what fits above `KERNBASE`) and the hypothesis `LowPages`.
The three are one induction: what is stored to is mapped because of where the arrays are and which pages the list begins with,
and what is free depends on which pages the map has taken. `MemoryInv` has a part for each: `Arrays` and `Directory` place
what `boot_alloc()` has given and the page tables (all of them low); `Lists` says what the list
holds after each turn of `page_init()`, of the loop that takes it apart, and when it is joined; `Entries` that the part
of the regions mapped so far is there and nothing else is; `Stores` that pages stored to are in memory and,
before `lcr3()`, low. Two facts carry it. The pages that
`check_page_alloc()` and `check_page()` take and give back return to where they were, because the list is in
order (`BackAgain`, from `FreeFirst` and `FreeAfter`, which say what `page_free()` does at the head of a list and
behind it). And whenever a page table is needed a low page is free: each
table has an entry of the directory to itself, so few low pages can have been taken (`LowPages`; the code has 158 of them
before `IOPHYSMEM` and wants 73 at most). The instance of `start` does *not* satisfy `LowPages`, so that the panics and the lack of a page happen in
it; `MemoryInv` was checked on one that does (`IOPHYSMEM` 15, `EXTPHYSMEM` 17, `PTPAGES` 40) before it was proved.
`KernelIsMapped` has one twist: the stack of the first processor is mapped twice, first to `bootstack` and then to its own stack,
so `Entries` excepts the third region where the fifth has been.

Of the free list in use: `ListInvariance` (no page is in the list twice) and `ListImplementation` (it
is the set of `PagePool`), for every number of pages and whatever the order of the list. `Stops` has an
`i` for every list, because the walk ends at the first page that is not higher; the
lemmas on `Before` and `After` say what the insertion of one element between them does to the set of elements.

Of the console: `ConsoleInvariance` and `ConsoleImplementation`, for every size of the devices, the
ring, the line and the screen, as long as a line is shorter than the screen without its last row (`CRT_SIZE > BUFLEN + CRT_COLS`,
which 25 rows of 80 and a buffer of 1024 are). That the ring holds what `ConsoleInput` says is a fact
about remainders: `RingFacts` gives what `Ring` becomes when one position moves. What
is seen of a line is in front of the cursor, and so the invariant counts from there (`Shows`): a
scroll moves the cursor and what is before it by the same amount, and rows that leave the screen are older
than the line (`PutIs`, `ScrolledIs`). `Asking` says that nobody polls for the shell before its prompt is printed,
without which a character could be echoed after a line that has ended.

Of the keyboard: `KeyboardInvariance`, for any of the keys in the tables and any number of bytes that
wait. What the bits are now says little when bytes wait, so the invariant is about what they will be: the
bytes *lead* from the bits that `kbd_proc_data()` has to bits that agree with the keys which are
down (`Leads`, `Agree`), and each of them, taken in its turn, gives what was meant when it was sent (`Taken`). A
key adds one byte or two at the end of that way (`LeadsAppend`), a poll takes one from its
beginning (`LeadsTail`). That a release may clear a bit rests on `mixed`, which contains every modifier
that is held twice.

`PMapProofs`: `Invariance`, and from it `Frees`, `Tables`, `Translations`, `Rights` and
`Implementation`, for any number of processors, environments, addresses, page tables and
pages, as long as no page has as many references as `pp_ref` can count (`Below`). Without
that condition the invariant is false, and the code does not enforce it; `SmallMachines` is
the case in which it cannot be reached, the one `pmap` checks. The argument has three layers.
*Counts*: inside an operation the count of a page is not the number of its words, because
the kernel holds pages in variables; `Exact(m, A, C)` says what is true there, with `A`
the pages just allocated and `C` those counted before the word is set, and there is
one lemma for each function of `pmap.c`. *Shape*: `Tree` says a table has one word, an
address needs its table and a table its directory; it is needed because `env_free()` walks
the directory and would miss anything else. *Processors*: `Loading` is the one fact every
return to user mode needs, that the words which have changed belong to nobody running
elsewhere. The abstract steps (`Change`) come out of the same lemmas.

`IpcProofs`: `PagesWhereAsked` and `Implementation`, from `Invariance`, for any number of
environments, values, addresses and generations. `PagesWhereAsked` is about every receive that has been served, those that asked for
no page included. `BlockedIsReceiving` is not inductive alone:
`FieldsOK` says that from the moment a send is accepted until the receiver has read its last
field the fields of `struct Env` are those of one message, whose page is where `env_ipc_dstva` points or nowhere, and
`CallsOK` that what the library holds in registers is of the same one. The refinement names what `Rendezvous` sees of each
identifier (`Existing`, `Waiting`, `Offers`, `Boxes`, `Results`). A step changes what is seen
of one identifier, or of two in a delivery, and `OneStep` says that this is enough;
`OldNames` deals with identifiers whose slot has been used again, of which nothing is seen.
Then every action has a lemma that says which step it is: the call of a send, a delivery,
the last read, a panic, an exit, a new environment; the first reads are silent.

`PipeProofs`: `Implementation`, for every size of the buffer, any number of environments, and
whatever they fork, duplicate and close. `RingHolds` needs to be known together with where the two
owners are (`Owners`), what their tests still imply when they act on them (`ReaderSide`,
`WriterSide`), and that a byte is got before its place is given back. The lemma `Apart` says that
two bytes less than a buffer apart have different places, which is the only fact about the
remainder that matters.

The counts of references are the second half. `CInv` says what a `fork()` half done has given its
child (`Kids`, `Shared`, `Covers`), that nobody else has the ends it hands on (`Alone`), and that the
descriptor of a call stays open until the call closes it (`Holds`). With the two halves `Invariance`
gives `IInv`, its types included. `OneProcessor` is `ClosedIsTrue` for `NCPU = 1`: while one
environment runs, what it has read of `pageref(fd)` is what is there (`Attended`), so at the
second read the counts are equal at one moment, and `EqualCounts` turns that into *no process has
the other end*: each process with an end counts more mappings of the data page than of this end. The
hypothesis is no convenience: with two processors `pipe_race` shows the opposite.

`FsProofs`: `DiskIsSafe` and `FlushesSurvive`, from `Invariance`, for any number of files, blocks,
pointers and stops, those of the server's start included. That blocks on the disk have one owner follows from two facts: they have one
in memory (`Exclusive`, `BitmapExact`), and whatever the disk names is what memory names or
nothing, and marked (`DiskBehind`). The second has an exception while a new indirect block is not yet cleared on the disk
(`"cleared"`), and that is why it has to be cleared there before the file points to it. `SyncedClean` says what `file_flush()` leaves
behind, and which part of it holds in its middle. `FilesInv` is these; `StartInv` is what the start adds: `SuperExact` (the super block on the
disk is bad exactly between a smash and its restoration, or for ever after a stop there, and then no start comes as far as to change
a file) and `TestHasBlock` (what `fs_test()` compares with its message is a block of `newmotd`). Each step keeps one with the help of
the other.

Of the names: `NamesInvariance`, `NamesAreKept` and `OpensAreFound`, for any names, blocks, sizes of
a block, texts and stops, those of the start included. What a crash leaves depends on everything that is still to be written, so the
invariant `DInv` is about `writes`: the bitmap goes first and the super block last (`BitmapFirst`,
`SuperLast`), at most one block of the directory is behind (`OneDiffers`), each entry has reached the disk or
is on its way, and if its block is new, so is the super block (`Saved`), and no entry that is on the disk is
ever another's (`Kept`). `Shape` says that a hole is at the end, which makes `dir_lookup()` come to every
name before it. All this needs that a file owns what its entry points to, in memory and on the disk (`Owned`).

Nothing is assumed of what programs write: `Texts` is any set of contents. What the code needs and does not enforce is in
the properties: `DInv` holds until the directory has got a block in which somebody's data look like an entry with a
pointer (`foreign`), and `TInv` is that implication, which every step keeps. Before that moment blocks with *names* in
the data of a file may come to the directory as often as they like (`stale`). From that moment on `NamesStay` and
`ExistingOpens` say nothing, and must not: opening the false entry to truncate it frees a block of another file.

`ProgramProofs`: `Implementation`, for any number of processors, environments and values, and any frames that parents load, also to children that run. The registers
of a program are on a processor, in `env_tf`, half on one and half in the other, or on the exception stack while its page fault handler
runs, and `RInv` says which: `Owners` (an environment is on one processor at most, and exactly then its status says so), `Slots` (the frame of a free slot is empty,
and who receives waits) and `Upcalls` (the upcall finds what it interrupted). What `Computations` sees of an environment
(`Regs`) then changes only in steps of its own, by its own call, or by a load or the making or killing of it (`Meaning`).
`VisitRInv`, `VisitRegs` and `VisitStops` say once what every visit to the kernel has in common: it leaves `RInv`, no registers but
those it stores to, and of what executed before nobody but the caller has stopped. Each trap and each call then has a lemma that
says which step it is, `ReturnStep` the ones that only return a result. The one between `popal` and `iret` is not an
invariant: a load there is taken in half, and `SysEnvSetTrapframeStep` shows that this, too, is a `Load`.

Of `Segments`: `ImageInvariance`, for any sizes of a page, a sector, a file and the memory, as long as sectors
divide pages. That a finished image is right is not inductive; `Loading` says of an unfinished one that a loader
goes on at the start of a page or sector (`Reached`), not behind the pages of its segment, that what is below is
loaded, and that the segment before is untouched. `Layout` gives the last from the headers: the second
segment begins at or behind the end of the last page of the first. `readseg()` differs: until the
kernel clears its data, what follows the file's part of a segment are the next bytes of the file (`Loaded`), and its
sectors fall where they should because address and offset leave the same rest for a page and
so for a sector (`SameRest`). The arithmetic of rounding is in a few lemmas about multiples (`Quotient` to `SameRest`); nothing after
them looks at a product or a remainder but the count of pages of `region_alloc()` (`Pages`).

`UserProofs`, of `Fork`: `MemoryInvariance` and `MemoryImplementation`, for any number of environments,
addresses of each kind and contents. `WritesArePrivate` and `CowIsHandled` are true only because of where each
`fork()` and `spawn()` is (`ForkAt`, `SpawnAt`: below the address being copied the child has everything, above it
nothing, and the entry seen before has been given up in one direction only, from writable to copy-on-write), and
what a handler half done has (`Handling`: the page at `PFTEMP` has the contents of the page it
replaces; `Apart`: and is nobody else's). For the refinement, a child sees what is `Settled`; every step is
one write, one start of a child, one exit, or nothing that `PrivateMemories` can see (`AloneStep`).

Of `FileServer`: `ServerInvariance` and `ServerImplementation`, for any number of clients, entries and
descriptors. `DescriptorsAreOpen` is kept by what the server works on (`Working`: the entry it
fills has no descriptor, or it fails) and by what the client it serves has asked for (`Asked`: about a descriptor that it
still has, since it waits). `Refs` counts pairs of a client and a descriptor; the lemmas on it
say that the count of an entry is 1 exactly when nobody has it, which is the test of `openfile_alloc()`.

**Only model-checked.** The liveness properties (`BootProgress` in `MachineStarts`, `ZombieCollected`,
`RunnableRuns`, `SendEnds`, `WaitingEnds`, `WriteEnds`, `Answered`, `EverythingRead`), which are out of the reach of
the prover; `ClosedIsTrue` with more than one processor, where it is false; and `ArgumentsIInv`: the words
of a line and the bytes of a stack are positions and sums over sequences of every length (`FlattenSeq`, `Min` of
the places where a word may end), and what they are for every line is induction over data. The run takes every line of up to seven characters.

## Not modelled, and the plan

On purpose: printing, formatting and strings, and the serial and parallel ports as outputs (no state
the rest depends on); the kernel monitor and the search of the debug tables (they only
read); mode switches, the reading of a sector and the set-up of the interrupt controllers
(straight-line work on devices); the shell's redirections and pipelines and the example programs (clients; they
were read for which calls they make, and in which order); directories in directories, which nothing makes.
`TP 1`, `TP 2` and `TP 3` are earlier stages of the same kernel, whose files `TP 4` contains and completes: modelling
them would model the same code again in an unfinished form, which is why the modules cover a small
share of all lines of the repository. Another part of those lines are tables
(`entrypgdir.c`), headers of formats, `printfmt.c` and user programs.

Left out of modules that exist:

* Large pages: `TP1_PSE` of `boot_map_region()` is not defined in the build.
* `user_mem_check()`, which changes nothing, and the descriptor tables of `env_init_percpu()`.
* The words of nested exception frames (`pfentry.S`, `trap.c:412`); `Fork` has the nesting.
* Breakpoints, panics and interrupts of devices in the modules other than `Kernel`, `Console`, `Ipc`, `Fork` and `FileServer`: their safety
  properties hold when the machine stops or an environment goes, which are actions there (an exit, a `Crash`, a death) or nothing at all.
* The wrap of `pp_ref` in the instance of `PMap`, which its `RefLimit` excludes, and in its programs every `sys_page_unmap` and `sys_page_map` at a child
  that runs: see *Bounds*, *What programs ask* and *Disagreements*.
* That a block in the cache of the file server is not read from the disk again (`Directory` allows both).
* `sys_ipc_recv()` with a misaligned address blocks before it reports the error (`syscall.c:386`);
  a request without a page is
  never answered (`serv.c:350`); `sync()` after a `fork()` sends a page the kernel refuses (`file.c:186`);
  `fork_v0()` hands copy-on-write pages to a child without an upcall (`fork.c:60`). No program makes these calls.
* In the file system: sizes above `MAXFILESIZE` (`fs.c:463`), a file cut to a size other than 0 (`fs.c:464`),
  the eight sectors of a block (`ide.c:89`), `va_is_dirty()` of an address without a page table (`bc.c:24`).
* Hazards of the user library without a property: two holders of an end of a pipe while one of them
  forks (`spawn.c:326`), `seek()` next to a read of another holder (`fd.c:267`), senders that
  compete for one receiver without a queue (`ipc.c:63`), a child lost when `init_stack()` fails (`spawn.c:115`).
* The error paths of `pipe()` and `open()`, which undo what nobody else has seen.
* A read-only address in the instance of `Fork`: with four addresses the check of `WriteEnds` takes too long.

Next: a pipeline of the shell over `Pipe` (who hands on and closes which end, and the prompt after both commands); and the words of
nested exception frames.
