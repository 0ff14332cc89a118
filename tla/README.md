# hvos in TLA+

A verification development for hvos, a small x86_64 kernel in C: TLA+ modules that
model its parts, TLC configurations that check them on small instances, and TLAPS
proofs of what matters most for every instance. Paths are relative to the repository.

## 1. The system

hvos boots from Limine, sets up memory, devices and one processor, and runs `kmain`,
which starts `/init.elf`, waits for it and reboots. User programs enter the kernel
with `syscall`; the keyboard and the local APIC timer interrupt it.

| part | source | state | operations | interacts with |
|---|---|---|---|---|
| thread list and scheduler | `kernel/multitasking/scheduler.c`, `algorithm/*.c`, `mt.c`, `arch/x86_64/scheduler.asm` | `thread_list`, thread states, `vruntime`, `current_thread`, `next_id`, TSS stack, cr3, delta queue | `schedule`, `kernel_yield`, `get_next_thread_cfs/rr`, `idle_loop`, `kusleep`, `update_sleeping_queue` | everything that blocks or wakes |
| processes and threads | `process.c`, `thread.c`, `elf.c` | `parent`, `is_waiting`, `wait_target_pid`, `exit_code`, `cr3`, file table | `new_elf_process`, `execute_elf`, `sys_exec`, `sys_exit`, `sys_waitpid` | scheduler, memory, files |
| console input | `drivers/console.c`, `drivers/keyboard.c` | `console_read_owner`, wait channel, keyboard buffer | `console_read`, `keyboard_handler_c`, `append_to_input_buffer`, `keyboard_get_char` | scheduler, interrupts |
| interrupt delivery | `arch/x86_64/interrupt.asm`, `intr/*.c` | vector in service in the local APIC, interrupt flag | `pit_interrupt`, `keyboard_interrupt` | all |
| kernel heap | `mem/kmalloc.c`, `mem/heap.c` | block headers, free list, limit | `kmalloc`, `kfree`, `krealloc`, `heap_expand` | frames |
| physical memory and paging | `mem/pmm.c`, `mem/mem.c`, `mem/bitmap.c`, `intr/except.c` | bitmap, page tables, `heap_end` | `pmm_alloc`, `map_page`, `sys_alloc_pages`, page fault | heap, processes |
| linked list | `data/list.c` | nodes, `count` | push, pop, get, insert, remove, filter | scheduler, files |
| files | `fs/vfs.c`, `fs/ramfs.c`, `fs/tar.c`, `sys_open/read/write` | dentries, inodes, file tables | lookup, create, mkdir, open, read, write, load | processes |
| clock | `time/rtc.c` | CMOS registers | `now`, `dttots`, `tstodt`, `get_weekday` | `sys_time` |
| screen | `video.c` | cursor, buffer | `put_char`, scroll, `update_cursor` (from the timer) | console |
| keyboard and shell | `drivers/keyboard.c`, `scancode.h`, `userland/shell.c` | modifier keys, keyboard buffer, command line, history | scan code decoding, line editing | console |
| entry and exit | `arch/x86_64/syscall.asm`, `interrupt.asm`, `scheduler.asm` | stack pointers, GS bases | `syscall`, interrupt frames, `swapgs`, `sysret` | all |
| boot | `init.c`, `acpi.c`, `gdt.c`, `smp.c`, `intr/*.c` | descriptor tables, IDT, local and I/O APIC, per-CPU data | `kernel_initialize`, call by call; ACPI walks | interrupts, scheduler |
| locks | `sync.c` | | | heap, list |
| image installer | `limine-binary/limine.c` | block cache, undo journal, device | `bios-install`, `--uninstall`, `enroll-config` | run by the build |

What is hard here: handlers that yield in their middle; kmain and the idle thread
calling `schedule()` with interrupts on; a `kernel_yield` that may silently not yield;
an end-of-interrupt written by whoever runs the handler on; wake-ups that can be missed
between a test and a block; structures that are listed before they are complete; a boot
whose later half runs with interrupts on; an installer that must undo itself through the
cache that just failed.
`PROJECT.json` lists these hazards line by line, with the property that watches each.

## 2. Modules

| module | models |
|---|---|
| `Scheduler` | thread list, thread states, `get_next_thread` (CFS and RR), `schedule`, `kernel_yield`, `new_elf_process` |
| `Kernel` | the running kernel: interrupts, idle thread, system calls, console, kmain; composes `Scheduler` |
| `ProcessLife` | what process creation, exit and waiting promise; `Kernel` implements it |
| `MCKernel` | the keys TLC presses |
| `KernelInv` | inductive invariant of `Kernel`, lemmas about `kernel_yield`, frame lemmas, the steps of the interrupt handlers and of kmain |
| `KernelSyscallProofs` | program start, waiting and the system calls preserve the invariant |
| `KernelProofs` | the theorems about `Kernel`, and the invariants of its devices |
| `Heap`, `Allocator` | `kmalloc`, `kfree`, `krealloc`, `heap_expand`; what they promise |
| `Memory` | `init_bitmap`, `pmm_alloc`, `map_page`, a process's address space, SC_MMAP, SC_MUNMAP, page faults |
| `List`, `ListSpec` | `data/list.c`; the sequence it promises |
| `FileSystem` | dentry tree, archive loading, file contents, file tables, SC_OPEN, SC_READ, SC_WRITE, the reading of programs |
| `ElfLoader` | `load_elf_binary`'s copying of segments |
| `Rtc` | CMOS clock, `rtc_read_datetime`, weekday, `dttots`, `tstodt` |
| `Screen` | `put_char`, scrolling, cursor, `update_cursor` |
| `Keyboard`, `Shell` | scan code tables and modifiers; from the keys over the buffer to the shell's line and history |
| `Entry` | stack pointer and GS base through `syscall`, the timer's, the keyboard's and the page fault's entry, `int $0x20` and `kernel_yield` |
| `Boot` | `kernel_initialize` and what can interrupt it; ACPI tables, interrupt routing, reboot |
| `BootProofs` | inductive invariants of `Boot` and its theorems |
| `HeapEntryProofs` | the theorems about `Heap` and `Entry` |
| `MemoryProofs`, `FileSystemProofs` | the theorems about `Memory` and `FileSystem` |
| `PartsProofs` | the theorems about `List`, `ElfLoader`, `Screen` and `Enroll` |
| `Install`, `Enroll` | limine's `bios-install` with its undo and `--uninstall`; `enroll-config` |
| `MCHeap`, `MCMemory`, `MCFileSystem`, `MCBoot`, `MCInstall` | sets of inputs for TLC |
| `MCParts` | one run for seven parts that share no state: `Rtc`, `ElfLoader`, `Screen`, `Enroll`, `Shell`, `Entry`, `List` |

Operators named `x_...` after a definition `x` ("Mutant of", "Faulty variant") are small
faults of `x` with which a property of a run is seen to fail; no specification uses them.

### Scheduler and Kernel

A thread is its tid: 0 is kmain, 1 the idle thread, the rest are primary threads of
user processes, and a process is named by its primary thread. Since `list_push` adds at
the head and nothing is ever removed, `next_tid` determines `thread_list`.

*Steps.* System calls run with interrupts masked (SFMASK, `cli`), and handlers behind
interrupt gates, so each is one step up to its return or its next `kernel_yield`; `pc[t]`
is the place after the yield where thread `t` goes on. kmain runs with interrupts on, so
`execute_elf`, `sys_waitpid` and `kusleep` are split between the assignments a handler
can observe. A user thread may make any system call at any time.

*kernel_yield.* `schedule(old_rsp, from)` returns at once if `from` is 1, and
`kernel_yield` never sets the register of `from`. `StaleFrom` is the set of call sites at
which 1 can be left there: with the build's `-O0`, in the keyboard handler (the list index
`notify_wait_channel` stopped at) and in `sys_exit` (the user's `%rsi`). At the others the
register holds a pointer, 0, or what `printf` left.

*A key inside `schedule()`.* kmain and `idle_loop` call `kernel_yield` with interrupts
on. A key pressed between the store of `k_rsp` and the return makes the handler run
`schedule()` for the same thread, and `k_rsp` then names a frame that is popped before it
is used. `KeyInsideSchedule` takes the model to a state `"wild"` in which nothing more is
modelled; all other properties speak of behaviours up to there. A tick inside `schedule()`
only moves the accounting of one `vruntime` unit from one thread to another.

*Interrupts.* `isr` says that the local APIC has vector 0x21 in service; it then holds
back 0x20 and 0x21, which are in the same priority class. Every EOI clears it, also the
timer handler's when `SC_YIELD` enters it by `int $0x20`.

### What ProcessLife promises

A process is created once, exits once and stays dead; a process that blocked in
`sys_waitpid` returns only when the process it waits for is dead. `ImplementsProcessLife`
maps `state = DEAD` to dead and the label after `sys_waitpid`'s yield to the blocked state.

### Heap and Memory

`Heap` names a block by its header's address and keeps the headers as functions; the free
list is the sequence its `next` pointers spell. `safe_lock` makes a call one step;
`krealloc` is two, since it drops the lock between its `kmalloc` and its `kfree`. Callers
free what they hold, and `list_remove_at` frees a pointer twice in a row. `Allocator` says
that bytes handed out belong to nobody else until freed; the mapping is `live <- held`.

`Memory` computes the bitmap from a memory map as `init_bitmap` does, remainders included,
and then runs `create_elf_process`, SC_MMAP, stack growth and the kernel heap over the same
`pmm_alloc` until it returns NULL. An address space is its tables (by level and prefix),
pages and kernel stack. `sys_alloc_pages` counts its pages in 64 bits and the bytes it adds
to `heap_end` in 32 (`ByteCount`): `mmapped` remembers what it returned, and `overflowed` to
whom it gave more bytes than 32 bits count. `status` records why the machine stopped: a
panic in `map_page` or `kmalloc`, an unhandled fault, or user memory on the kernel's free
list.

### List

`list_push` has three steps, because kmain calls it with interrupts on and handlers walk
the thread list. `call` is the operation that changed the list last and its position.
`ListSpec` is the sequence that list.h promises: it says of each operation at which position it
adds or takes out an element; `ImplementsListSpec` maps the nodes reached from `head` to it.
`list_append` does not do what list.h says and is in `AllOperations` only.

### Files, programs, clock, screen

In `FileSystem` a dentry and its inode are one node and a path a sequence of names; a name
has a length and a truncation to 31 characters (`Cut`). Loading is one step per archive
member. `mode = "wild"` is where the kernel follows a null pointer (`sys_read` of a closed
slot) or takes a directory for a file (`sys_write`); nothing more is modelled there.
`ElfLoader` gives every byte of the file its offset as its value, so that memory shows
where each byte came from. `Rtc` sets the driver against a calendar that counts days.
`Screen` keeps the cursor bars that are drawn, wherever they are.

### Keyboard, Shell, Entry

`Kernel` knows of a key only how many characters it makes; `Keyboard` has the tables of
`scancode.h`, and `Shell` runs the handler over them up to the line the shell edits. A
handler may append two characters (`late` holds those that still owe the second) and reads
the shift keys again after its yield. `typed` is what the pressed keys should have made.
A key that overtakes the letter of a Ctrl-C or Ctrl-L makes the line in work one of which only
its end is promised; the reference ends when the buffer was full. The line behind the last row
of `history_buffer` overruns it, after which nothing more is modelled (`status`).

`Entry` takes `schedule()` to return any thread's frame and looks at what the assembly does
with `%rsp` and the GS bases: a thread is a level (user mode, a system call, the window
between `sti` and `sysret`, an interrupt, a C function of a kernel thread) entered from the
one under it, with the stack it is on and the words used of it. The smallest kernel stack is
the idle thread's page (`STACK` words); an entry that does not fit is pushed below the
stack, and a frame made on a user stack is popped from another process's memory once cr3 has
changed; both end the behaviour (`wild`). The kernel is built at `-O0`, so a C function's
`leave` takes back the word `kernel_yield` loses; user programs do not load `gs`.

### Boot

`pc` is the call `kernel_initialize` is at, `k` the globals and registers the calls set up,
`m` the machine: ACPI tables, processors, the loader's responses, the pin the keyboard is
wired to. The loops over the ACPI
tables take one step per entry. `init_fb` ends with `sti`, so the timer
and the keyboard may interrupt every later step once they are armed. A read through a null
or unset pointer stops the boot (`dead`): page zero is not mapped. The loader hands over
with all lines masked. An edge at a masked or misdirected entry is lost.
`reboot` starts over on the same machine.

### Install and Enroll

A device is cells, one for each field that `bios_install` reads or writes, in sectors and
blocks of 20 or 40 cells; the block cache, the journal of replaced cells and the order of I/O
are the program's. A step is one stage of `bios_install` (probe, convert, check, locate,
write, finish); every block read and write inside it is numbered, and a run says which
numbers fail, with nothing or half of the block transferred. Data files fail likewise. What `fwrite`
counted as written is taken to be on the device. A disk also says how large its logical
blocks are and where its partitions lie, for `PartitionsUntouched`: `--force` with a partition's
number gives that partition to stage 2, and the conversion of an ISO wipes its first 34 and last
33 logical blocks, which with blocks of 4096 bytes are more than the GPTs.

### How the parts meet

The other parts share no step with each other beyond calls that run to their end with
interrupts off, so they are checked one by one: `Memory` contains the frames `Heap` takes
(`HeapExpand`) and `Heap` those the rest of the system takes (`FrameTaken`).

## 3. Runs

| run | instance | shows |
|---|---|---|
| `kernel` | 2 user processes, CFS, printing keys, buffer of 2, one `kusleep` | all safety properties and ProcessLife |
| `kernel_rr` | the same with round robin, a buffer of 1, and every kind of key (none, one or two characters, NUL) | the idle thread runs only when nothing else can, also with handlers that yield twice |
| `kernel_live` | 1 user process, fairness | a typed character reaches its reader; the idle thread gives way |
| `kernel_wait` | 1 user process | **violated**: kmain can sleep on a dead child |
| `heap` | 4 sizes, 5 blocks, 0 to 5 frames | blocks tile the heap, free list exact, Allocator |
| `memory` | 8 memory maps, 2 processes | frames have one use, a kernel stack has no frame of another process, of the bitmap at most the last frame is handed out, mappings are stable |
| `list_append` | 5 nodes | **violated**: `list_append` adds nothing |
| `fs` | all archives of up to 4 members of 12 kinds; one with `/init.elf`, for 1 process with 2 more descriptors | the tree is sound, files hold what the archive says, writes touch only their bytes, programs are read whole |
| `fs_open` | the archive with `/init.elf` | **violated**: `sys_open` does not find files that exist |
| `parts` | the clock: every day of 2000 to 2099, BCD and binary, 2 times of day | weekday and `tstodt` are right; timestamps grow by a day a day |
| | programs of 2 segments, pages of 4 bytes | the image is as the headers ask |
| | a screen of 5 columns and 4 rows | one cursor bar in its place, text within the screen |
| | `enroll-config` on all files of 5 to 11 bytes over two values | the checksum goes behind the first signature, and nowhere else |
| | 6 scan codes, lines of 2 characters, a history of 2 | line and history are what the keys made, and when the history overflows |
| | 2 user threads, kmain, idle; stacks of 7 words | system calls find `cpu_data`; what can use up a stack, and when a frame is popped from foreign memory |
| | 5 nodes of the list | walks sound, also of an interrupted `list_push`; ListSpec |
| `install` | 25 disks, each with small and large blocks (50), with every value of the options; 10 of the 50 with an I/O error (a seek, half a block, two of these, or a lasting one) at each operation an undisturbed installation and removal makes | undo exact, `--uninstall` exact, stages in place, partitions untouched |
| `boot` | 21 machines: a plain one and others that lack a response, a table or a core, or have odd tables; 3 keyboard bytes | why the boot stops, what it leaves ready, that it ends |

Bounds of the kernel: `MaxThreads` threads in all, `MaxVruntime` ticks charged to one thread,
`SLEEPS` calls of `kusleep`, `SLEEP_MS` its argument, `KDB_BUFFER_SIZE` characters. Two
user processes suffice for a parent and its child, for two readers, and for a handler
suspended in one thread while another starts; the proofs cover any number. A buffer of 2
is reached full and empty. Ticks order the threads for CFS, for which 0 and 1 are enough.

Bounds of the other parts. *Heap*: `MaxBlocks` and `MaxFrames`; the sizes are one that is
split off, half a page, one whose rest is too small for a block, and one that needs a page
more for its header; with five blocks every operation meets a list of several free blocks.
*Memory*: pages of 4 bytes and tables of 8 entries; the hole in the map falls before, inside
and behind a kernel stack, and the bitmap ends on a page border and inside a page;
`MaxHeapPages` and `MaxKheap` leave room for memory to run out in every loop; `UINT32` is
16, so that 5 pages wrap the product and 17 the parameter. *List*: `MaxNodes` allocations,
enough for insertions and removals around the middle. *FileSystem*: directories of 3 entries
fill up, a first buffer of 1 byte grows twice, `MaxPos` allows writes behind a file's end,
and `MAX_FD` is one less than the table's size, as 16 and 32 are apart. *ElfLoader*: every
start in a page, every size up to two pages and a byte. *Screen*: `MaxDown` and `MaxRight`
bound how far line breaks and tabs lead off the screen. *Shell*: `MaxLate` handlers that owe
a character; a line, a buffer and a history that fill up. *Entry*: a stack with room for two
entries and a key's two yields, and `MaxTurns` yields of one level, so that a loop uses it
up, alone or below an interrupt. *Enroll*: the signature overlaps itself, so a match can
begin inside a failed one. *Install*: two MBR entries and up to three GPT entries, a stage 2
that crosses blocks; the limits of 32 and 64 bits are scaled to what TLC's integers hold.
The journal stays below `UNINSTALL_DATA_MAX` (fewer than 25 of 40), as the code's does with
about a hundred writes of 256, so that its refusal of one more is in the model but is not
reached. *Boot*: `Pins` lines, `MAX_CPU_COUNT` cores, one machine with a core more;
`MaxKeys` bytes suffice for one before, one in and one behind the window.

Deadlock is checked for `install`, whose only ends are its exits. Memory runs out, the
archive and the program end, allocation bounds are reached, a boot that stops stays so; the
kernel can come to a stop too, but `StopsOnlyWhere` lists the states in which it does. They
are: rebooted; a key inside `schedule()`; a half-built process run because a key came
between `push_new_thread` and the store of `cr3`; an exited thread spinning with interrupts
off because its `kernel_yield` returned; the idle thread halted while a suspended handler
owes the EOI.

*Fairness.* Weak for kernel code with interrupts off: the processor goes on executing it.
Strong for kmain, the idle thread and the timer: keys may interrupt them again and again,
but come slowly enough for a step in between, and a tick held back is delivered later.
None for user programs. `boot` assumes weak fairness of `Kernel`, all calls together: the
processor goes on executing, and handlers that return do not keep the boot from its next step.

### What the code does otherwise than it says

`kernel_wait`: kmain's `sys_waitpid` tests the child, then marks itself
waiting, with interrupts on. If the child exits in between, kmain prints that it "goes to
sleep while T%d is running" and is never woken.

`fs_open`: `sys_open` drops a leading slash and `vfs_lookup` refuses a path without one, so
a path with one slash is answered "No such file or directory".

`list_append`: the function that is to "Add node at the end of the list" (list.h:26) returns
before it adds anything, because its `node` is NULL; `list_insert_at` calls it for the position
behind the last element.

Two more such places are in the models' actions without a run of their own.
`sys_free_pages` (SC_MUNMAP) calls `kfree` on the user's address instead of unmapping it
(`SysFreePages` in `Memory`). `dttots` counts a day too many,
in the century that `get_weekday_from_date` stored (`TimestampAdvances` holds all
the same: it counts every day once).

Other facts that a reader of the code may not expect, each part of a model: the idle
thread's stack, a page of 512 words, loses a word at every turn of its loop (`EntrySound`
allows a loop of yields to use its stack up, and nobody else); SC_MMAP of 2^20 pages or more
moves `heap_end` by less than it mapped (`MappingStable`); the 101st line of a shell overruns
its history (`LineAsTyped`); a key between `sti` and `sysret` runs on the user's
stack (`Entry`); after Ctrl-C or Ctrl-L the letter itself begins the next line, and spaces do not
get into a line (`Shell`); `acpi_init` follows tables of revision 2 without `hhdm_offset`, the
last of several I/O APICs wins, and the responses for the RSDP, the processors and the kernel's
address are used unchecked (`Boot`); of a write that fails between two blocks the first may be
on the device, but is not in the journal (`Install`, `torn`).

Elsewhere properties are as strong as the code allows. `ramfs_read` is right for whole
files only (`ElfImageWhole`). Empty lines leave the screen (`ScreenSound`). The frame that
holds the bitmap's tail may be handed out (`BitmapOverlapOnlyTail`); the assumption
`MapAssumption` of `Memory` says that the bits of usable frames are not in that tail.
`create_elf_process` takes the frames below `kernel_stack_top` for the stack; where the map has
a hole there, some of them are no memory, or hold the bitmap, but none is another
process's (`KernelStackOwn`).

## 4. Proofs

### Kernel

`KernelProofs` shows, for every `MaxThreads >= 2`, every set of keys and every buffer size,
under the assumption `BlockingCallsYield` (the yields of `sys_waitpid` and of `console_read`
do not find 1 in `%rsi`):

| theorem | statement | also assumes |
|---|---|---|
| `TypeCorrect` | `Spec => []TypeOK` | |
| `SchedulerCorrect` | one RUNNING thread, a runnable idle thread, stack and cr3 of the current thread | |
| `ConsoleCorrect` | `Spec => []ConsoleOwnerInside` | |
| `SpaceCorrect` | `Spec => []ReadyHasSpace` | |
| `WaitCorrect` | `Spec => []NoLostWakeup` | |
| `Refinement` | `Spec => ImplementsProcessLife` | |
| `SleepCorrect` | `Spec => []SleepingQueueExact` | `SleepYields` |
| `EoiCorrect` | `Spec => []EoiOwnerCanRun` | `SleepYields`, CFS |
| `OwnerCorrect` | `Spec => []OwnerMissesKeyOnlyWithRival` | `KeysYieldNoNul` |
| `RoundRobinCorrect` | `Spec => IdleOnlyWithoutWork` | RR |

`SleepYields` says of `kusleep` what `BlockingCallsYield` says of the other two: its
`kernel_yield` does not find 1 in `%rsi`. `EoiCorrect` needs CFS, because under round robin the
idle thread is no candidate and a SLEEPING kmain can be back on the processor; the build
selects CFS. `OwnerCorrect` is about keys that make no NUL: `console_read` takes a NUL for an
empty buffer. `IdleOnlyWithoutWork` is a promise of the round robin alone.

The invariant `IInv` adds to the properties what makes them inductive: which labels each
thread can be at; that NEW threads are the unlisted and DEAD ones those past `sys_exit`;
that the thread on the processor is not one that blocked; that a thread on the console's
channel is WAITING in `console_read`; and, for `sys_waitpid`, that `is_waiting` is set only
inside the call, for the child in the frame and with the caller WAITING once it yielded,
and that whoever is no longer WAITING there has a dead child. `YieldFacts` says once what
`kernel_yield` may do to thread states; frame lemmas carry each part of the invariant over
steps that leave it alone, so that each action's proof is about what it changes.

Three smaller invariants stand on it. `SleepInv`: the delta queue has at most kmain's entry,
and a SLEEPING kmain is at a label of `kusleep` or stopped. `EoiInv`: a vector in service
belongs to a suspended handler; a user thread suspended so was in user code and can run, and
kmain can run or is about to yield. `OwnerInv`: whoever is WAITING in `console_read` is on
the channel, so that a key that does not wake the owner has woken another reader.

### Heap and Entry

`HeapEntryProofs` shows, for any set of request sizes and any numbers of blocks and frames,
`HeapTypeCorrect`, `HeapTiled` (`Spec => []BlocksTile`), `FreeListCorrect`
(`Spec => []FreeListExact`) and `HeapRefinement` (`Spec => ImplementsAllocator`).
The invariant is `Typed /\ BlocksTile /\ FreeListExact` with two additions. Every region
a caller holds is a block that is not free, large enough for it, and no two regions share a
block: with the tiling this makes regions disjoint. The pointer freed last, while nothing
was allocated since, is still a free block: this is why freeing it again changes nothing.

`EntryCorrect` (`EntrySpec => []EntrySound`) holds for any number of user threads and of
yields and for every size of a frame and of a stack that has room for two entries and the words
a key loses (`EntryAssumption`). `EntryInv` lists what a thread can be in the middle of
(`IsLevel`, `Base`, `Inner`, `Deep`: a level, an entry above it, or an interrupt in a window or a
system call above that) and bounds the words on its stack by these levels and the turns of their
loops (`Sane`); both GS bases are cpu_data, since only `swapgs` moves them. An entry that does not
fit is then one above a loop that lost too much, and an interrupt gate keeps a third entry off.

### Memory

`MemoryProofs` shows, for every memory map a boot loader may report, any number of processes
and any programs and requests, with the code's pages of 4096 bytes, bytes of 8 bits and
products of 32 (`KernelPages`):

| theorem | statement |
|---|---|
| `FramesCorrect` | `Spec => []FramesDisjoint` |
| `KernelStackCorrect` | `Spec => []KernelStackOwn` |
| `BitmapCorrect` | `Spec => []BitmapOverlapOnlyTail` |
| `MappingCorrect` | `Spec => MappingStable` |

The assumptions are `MapAssumption` (entries begin and end on page borders, usable ones do
not overlap, one has room for the bitmap, and the tail mentioned above) and
`LayoutAssumption` (the heap stays below the stack). The invariant `MInv` says that every
frame somebody holds was free at boot and has its bit set, that a frame has one holder, and
that the frames of a kernel stack ascend with only frames between them that were not free at
boot (`StackOk`), because nothing else is allocated while `create_elf_process` collects
them. For `MappingStable` it has that what SC_MMAP returned is mapped and, unless a product
wrapped, lies below `heap_end`. What `map_page` and the loops of `create_elf_process` and
`sys_alloc_pages` do is shown once (a loop takes free frames, gives each one use and leaves
the others alone, also when it breaks off), and the actions rest on these lemmas.

### Files

`FileSystemProofs` shows, for every archive, all paths, offsets and sizes and any number of
processes and descriptors: `TreeCorrect` (`Spec => []TreeSound`), `ElfImageCorrect` (`Spec
=> []ElfImageWhole`) and `WriteCorrect` (`Spec => WriteExact`). `NameAssumption` gives names
and archives their types and says that a name cut to 31 characters is not cut again;
`SizeAssumption` types the sizes. In `FInv`, every dentry but the root is listed once, by a
directory that is older than it (`Linked`), a dentry that a lookup in its parent does not
find is empty (`TreeOk`), and an open file is one that a path leads to (`TableOk`). That
lookups follow the tree is shown along the path, and that the doubled buffer of
`ramfs_write` is large enough along the doublings.

### List, programs, screen, enrolment

`PartsProofs`:

| theorem | statement | for every |
|---|---|---|
| `ListCorrect` | `ListOperations => []WalkSound` | number of nodes |
| `ListRefinement` | `ListOperations => ImplementsListSpec` | number of nodes |
| `ElfCorrect` | `ElfSpec => []ProgramLoaded` | sequence of headers of unsigned fields, pages of 4096 bytes (`ElfInput`) |
| `ScreenCorrect` | `ScreenSpec => []ScreenSound` | screen of a column and two rows or more, tabs that move (`ScreenInput`) |
| `EnrollCorrect` | `EnrollSpec => []EnrollsBehindFirstSignature` | file, signature of a byte or more and checksum size (`EnrollInput`) |

`ListInv`: there is a sequence of distinct nodes, none freed, that the links spell from `head`
on (`Spells`), and `count` is its length but in the window of `list_push`; a walk then gives
its elements (`Walk`, by its least position that would differ), and the sequence is the
refinement mapping. `ElfInv`: the bytes of a segment below the loop's offset are in place
(`Current`). `ScreenInv`: one bar, at the cursor, and a cursor that is on or above the last
row as long as no empty line was written. `EnrollInv`: the bytes matched so far are the
signature's, and it does not begin earlier (`Looking`), since a mismatch goes back to the byte
behind the one the failed match began with.

### Boot

For every set of machines, every number of pins, cores and keyboard bytes (assumptions
`MachinesAssumption`, which only gives the tables their types, and `PinsAssumption`),
`BootProofs` shows `BootReady` (`Spec => []ReadyAfterBoot`), `KeyboardAlive`
(`Spec => []KeyboardNotStuck`) and `BootStops` (`Spec => []StopsOnlyFor`).

`BInv` says for each call what the ones before it have stored (`SetUp`), where the walks
over the tables stand (`Walk`), which I/O APIC was named (`IoApicNamed`) and which pins are
programmed (`Routing`). `BootReady` needs the last two because the pin that `acpi_remap_irq`
finds depends on the entries the walk has passed. `SInv` adds to it what excludes every
other stop: on a bootable machine `cpu_count` is the number of cores among the entries
passed (`Found`, with the cardinality lemmas of the library), there is a GDT for each of
these and data for each processor the loader reports (`Sized`), and nothing can interrupt
before `local_apic_timer_init` (`Armed`).

### Recursion

`Memory`, `FileSystem` and `List` compute along sequences with recursive functions. The
library's induction theorems are of no use to the provers; a fact about such a function is
shown for all arguments by taking the least one it would fail for (`Least`, from the
well-foundedness of the naturals). That the functions exist is shown the same way.

### What stays with TLC

- Liveness (`KeyReachesReader`, `IdleGivesWay`, `BootEnds`), and `StopsOnlyWhere`, which uses
  ENABLED: neither is within the prover's reach.
- `ArchiveUnpacked` of `FileSystem` relates every path of the archive, in its order, to
  the tree after the whole load.
- `ClockRight` and `TimestampAdvances` of `Rtc` are about a finite calendar, every day of which
  TLC visits.
- `LineAsTyped` of `Shell`: the scan code tables and the history make many cases.
- The properties of `Install`: each stage is a long chain of block operations that may fail
  anywhere, over a journal of any length.

`TypeOK` of `Kernel` is proved and no longer checked by a run.

## 5. Plan

In this order:

1. `put_char` step by step, for the kernel's own output with interrupts on, against the
   timer's `update_cursor`.
2. `Kernel` with the file table and memory of a process, so that SC_EXECVE can fail in the
   middle; `Kernel`'s thread list as an instance of `List`; `Shell` on top of `Kernel`'s
   console instead of a buffer of its own.
3. Proofs: `LineAsTyped` of `Shell`, `ArchiveUnpacked` of `FileSystem`, and `UndoExact` of
   `Install`.

## 6. Not modelled

- The start of further processors: `smp_init` is commented out. Nothing calls the
  functions that send inter-processor interrupts.
- Bit layouts of descriptors and device registers, the stubs of the exceptions that only
  print and halt, and the calibration of the timer against the PIT.
- `sync.c`: with one processor and interrupts off a lock is never contended; the models
  use what a lock guarantees.
- `string_.asm`, `printf`, fonts and pixels: data without control of interest.
- limine's other subcommands, which print, and its option parsing: a run is a choice of options.
- Functions without a caller: `clone_process`, `free_thread`, `ksleep`, `switch_to`,
  `pmm_free`, `pmm_alloc_n`, `rtc_write_datetime`, `move_cursor_up` and `_down`, `task.c`,
  `user_app.c` and `src/old`.
- Integer width: sizes near 2^64 do not occur at the kernel's callers; the 32-bit product of
  `sys_alloc_pages` is in `Memory`, limine's tests for overflow are in `Install`.
- Interrupts from the PIC in `pic_init`, whose first command word clears the masks that its
  last two writes set; the second `free` of limine's `load_uninstall_data` after an error, when
  the process has failed already.
