# Anaga: a verification project in TLA+

Anaga (`src/`) is a 32-bit x86 kernel in C and assembly: it boots, scans the
PCI bus, mounts a small file system from an ATA drive and runs a shell that
can start one ELF program in ring 3. This directory holds models of its parts
that TLC checks on small instances, and theorems about them that TLAPS proves
for every value of the constants.

## 1. Inventory

| Component | State | Operations | Where |
|---|---|---|---|
| File system | `inode_array` in memory, the same table on the drive, `current_dir` | `vfs_init`, `vfs_sync`, `vfs_mkdir`, `vfs_touch`, `vfs_cd`, `vfs_write_file`, readers `vfs_ls`, `vfs_pwd`, `vfs_cat` | `fs/vfs.c`, `fs/file.c`, image by `tools/mkfs.py` |
| File descriptors | `fd_table`, size and data of inodes | `file_open/close/seek/read/write`, `vfs_read`, `vfs_read_at`, `vfs_write_file` | `fs/file.c`, `fs/vfs.c` |
| Drive | the controller's registers and status, the sectors | `drive_init`, `drive_read_sector`, `drive_write_sector` | `drivers/drive/` |
| Console | `shift_state`, command buffer and `idx`, video memory and cursor | `getchar`, `input_poll`, `kputc`, `kmain`'s loop | `drivers/keyboard/`, `io/`, `display/`, `kernel/` |
| Processor and program | flags, ring, segments, kernel stack, IDT, TSS, PIC, `timer_ticks` | boot, stubs, `exception_handler`, `syscall_handler`, `timer_handler`, `process_exec` | `boot/`, `interrupts/`, `syscall/`, `system/process.c`, `mm/tss.c` |
| Heap | list of block headers | `kmalloc`, `kfree` | `include/stdlib.h` |
| ELF loader | program memory | `elf_load` | `fs/elf.c` |
| Shell commands | none of its own | `parse`, `handle_command`, the command table | `drivers/command/` |
| PCI, network, USB | configuration space, descriptor rings | `pci_scan`, `e1000_init`, `uhci_init` | `drivers/pci`, `network`, `usb` |
| Paging | one page table, the translations the processor keeps | `paging_init`, `paging_map_page` (no caller) | `mm/paging.c` |
| Timer and power | `timer_ticks`, keyboard controller, ACPI tables | `system_wait` (no caller), `system_shutdown`, `system_reboot` | `system/system.c` |
| Formatting | none | `kprintf` and friends, `string.h` | `display/display.c`, `include/` |

How they interact. Everything is called from `kmain`: a boot sequence, then a
loop that polls the keyboard controller, edits a line and calls
`handle_command`, whose commands call the file system, which calls the drive.
`run` reads an ELF file through `vfs_read_at` and leaves the kernel's loop for
ring 3 for good. The only interrupt let through is the timer's, which touches
`timer_ticks` alone; keys are polled. Nothing is shared between threads, so the
hard behaviours are of other kinds:

- **loss of power** between any two sectors of a sync, or any two words of a
  transfer: memory is gone, the drive is half new;
- **unsigned arithmetic** of positions and lengths, with lengths that wrap;
- **hardware that runs by itself**: the disk controller, the keyboard
  controller with its small buffer, interrupts at any instruction, and
  non-maskable ones even inside a handler;
- **layout conventions** that several places must agree on: the words on the
  stack between processor, stubs and C; what the echo drew and a rubout
  erases; headers and blocks of the heap;
- **limits**: inodes, entries, descriptors, buffer, screen, heap.

What makes each correct: the tree of names survives any power loss with
nothing forgotten and no cycle (file system); descriptors behave as files of
bytes (descriptors); a read returns what was last written to that sector and
at most the last write is lost (drive); what the user sees is what the shell
gets (console); the program cannot tell that it is interrupted (processor);
no byte is given out twice and none is lost (heap); what starts is what the
file holds (loader); a wait lasts as asked, a reboot reboots and a shutdown
switches off what can be switched off (timer and power); a remapped page is
remapped for every access (paging); the log of the boot tells what machine it
is (PCI). `PROJECT.json` lists the
hazards line by line with the properties that watch them.

## 2. Modules and plan

```
DurableTree  <- Vfs  (EXTENDS InodeTable)      VfsProofs EXTENDS Vfs
FileStore    <- File                           FileProofs EXTENDS File
SectorStore  <- Ata                            AtaProofs EXTENDS Ata
Screen       -> Console (INSTANCE Shell)       ConsoleProofs EXTENDS Console
Process      <- Kernel                         KernelProofs EXTENDS Kernel
Allocator    <- Heap                           HeapProofs EXTENDS Heap
Loader       (uses what File shows of a read)  LoaderProofs EXTENDS Loader
Paging       -> System (EXTENDS Paging)        SystemProofs EXTENDS System
Printf       -> Pci (EXTENDS Printf)           SystemProofs EXTENDS Pci, too
```

`A <- B` reads: B implements the abstract specification A (`INSTANCE A WITH`,
checked as a property of B). `MCx` modules give the constants of `x` for TLC.

Order of work, most important behaviour first:

1. Vfs and its proofs, File, Ata, Console, Kernel, Heap, Loader and its proofs:
   done.
2. Shell (parsing and dispatch, checked in Console against what a line means
   to its reader), Paging and System with their proofs, Printf and Pci: done.
3. Proofs of the safety properties of Vfs, File, Ata, Console, Kernel and Heap,
   and that Vfs, File, Ata, Kernel and Heap implement their abstract
   specifications: done.
4. Proofs of the safety property of Pci, of the safety half of its liveness
   and of the printing of numbers: done.
5. A composition of File with Vfs (descriptors over a table that is lost with
   the power). It adds little: every call of the shell opens and closes within
   itself, so no descriptor outlives a call.

## 3. What each module models

### InodeTable, Vfs, DurableTree

`InodeTable` holds the record of an inode and the pure parts of `fs/file.c`:
finding a name among a directory's entries, the first free inode, creating
and overwriting an inode, copying one sector of it. `Vfs` has one action per
call. A call of the shell works on the table in memory in one step (nothing
can come between, the timer touches none of this), then `SyncSector` writes
the table sector by sector as the two loops of `vfs_sync` do. `PowerLoss` can
come between any two sectors and clears memory; `Boot` is `vfs_init` with its
test for a root directory. The drive starts blank or with the image of
`tools/mkfs.py`.

Abstractions: names are model values, and `Stored` says what a name is stored
as after `strncpy` has cut it; contents are sequences of sector-sized blocks;
a call refused with an error changes nothing and is a stuttering step, except
the over-long `vfs_write_file`, which changes memory and returns without a
sync. A sector write is durable when it returns: the one write that the drive
may still hold back (see Ata) is the same as losing power one sector earlier.
`fd_table` is not in Vfs, because every call opens and closes within itself.
`vfs_write_file` and `vfs_read` have no caller in the shell; they are
modelled as an interface.

`DurableTree` is the promise: a set of named nodes in memory and the part of
it that is durable. Creating is one step, committing a node another, and a
power loss loses exactly the nodes not committed.

### File, FileStore

The descriptors with positions and lengths modulo `Word`. `file_read` and
`file_write` compute their lengths exactly as the code does, also when the
subtraction wraps; a `memcpy` that then leaves the data array stops the
machine, and `halted` records the request. `FileStore` is the promise in terms
of byte sequences and states in what cases the machine may stop: a read that
starts past the end of the file, a write past `MAX_FILE_SIZE`, or a start and
a size that add up to 2^32. `file.h` is an interface, so any sequence of
calls is considered, more than the shell itself makes.

### Ata, SectorStore

The driver's steps are its port accesses: the two polls of the status
register, six register writes, 256 words. The controller is external: it
raises BSY in the access that gives it work, ignores register writes while
busy, works by itself, and reports no errors. `SectorStore` is the promise:
an array of sectors where a write that returned may still be on its way, and
a power loss costs at most that one.

### Screen, Shell, Console

`Screen` is `kputc` with wrap, scroll and backspace, as an operator on a
screen value. `Console` has the keyboard (two shift keys, shift codes the
keyboard sends by itself), the controller's bounded buffer, `getchar` with
`shift_state`, `input_poll` and the loop of `kmain`; a command prints or
clears the screen. `Enter` puts the line into the command buffer, with any
character that earlier lines may have left behind its zero, and hands it to
`handle_command`: module `Shell` has `parse`, which cuts that buffer in two,
`strcmp` against the table and what each command does without arguments.
`called` is what is called and with what. `RunsWhatIsShown` compares it with
the line as it stands on the screen, read by its words. The translation tables are constants; the characters 127
and 0x15 that `input_poll` compares with stand in neither table of
`keyboard.c`, so no key reaches the second. Tab and Escape enter the line
although `kputc` draws nothing for them, and the variable `unseen` marks such
a line: a later rubout then erases a cell too many. Assumed, because the real
numbers satisfy it: a full line with its prompt fits on the screen (128
characters, 80 by 25), and that the command table is an array.

### Kernel, Process

What the processor does between boot and panic. The kernel's stack is a
sequence of groups of words: the frame the processor pushes (with an error
code for some vectors, with `ss` and `esp` when it comes from ring 3), the
stub's zero and number, `pusha`, the segments; `regs_t` is read off those
positions, and `iret` pops whatever is on top. The boot is the order of
`pic_remap`, `lidt`, `sti`, `ltr` and the timer's set-up, with interrupts
pending from the start. An interrupt that may be taken is taken before the
next instruction; non-maskable interrupts may come at every step after the
boot, also inside a stub. The program's instructions are arbitrary changes of
its registers, or raise any exception that an instruction can raise
(`Exception`, `Fault`): the two kinds of stub meet every such vector.
`ISR_ERRCODE` is what `isr.asm` says of the vectors and `HasErrorCode` what
processors do; they differ at 21 and 29, which belong to features that the
kernel never switches on, so neither is raised. A `write` from a buffer that has
no NUL before memory that is not mapped runs into a page fault inside the
system call (`WriteFault`), and the panic then reads that frame. `Process` is the promise to the program: registers that only a
system call changes, and then `eax` alone.

Read, open and numbers outside `syscall_table` answer -1; `write` returns the
count it was given, even when it stopped at a NUL.

### Heap, Allocator

The list of blocks in address order, with first fit, splitting and the walk
of `kfree`. A header written above the mapped memory is a page fault.
`Allocator` is the promise: disjoint allocations inside the arena, and a
crash only when the mapped part has no hole for the request that crashes
(`faulted` keeps that request, so that the promise is about it and not about
some request). A request within 7 bytes of 2^32 wraps to an empty block, and the
promise says so. Callers keep
to the interface: they free what they hold, once.

### Paging, System

`Paging` has the page table that `paging_init` makes and `paging_map_page` in
two steps, the write of the entry and the `invlpg`; the processor keeps and
drops translations at any moment, also between the two. The entry is written
through the page that holds the table, so a caller that maps that page
elsewhere loses it. `meant` is what callers have asked for. The call for a page
above 4 MB returns without a word and is a stuttering step.

`System` is `system/system.c` on top of it. `system_wait` is its comparison and
its `hlt`, with ticks between any two instructions; a tick between the
comparison and the `hlt` does not end the `hlt`. While the loop is awake at most
one tick comes between two of its steps (`ticks`): a millisecond is many
instructions. `system_reboot` runs against a keyboard controller that may
still hold the firmware's last byte, may not take it before its answer is read,
and goes on receiving keys. `system_shutdown` writes the ports of the
hypervisors or looks for the FADT and the `_S5_` object; a machine is a record
of what its firmware has, on which pages, and what its registers do with a kind
of sleep. The kernel takes the length of the object's package for the kind of
sleep, and searches as many bytes of the DSDT as the FADT is long, less 4: from a
FADT shorter than that the unsigned length wraps, and the search ends at an object
or in a page fault (`Wraps`). `CanPowerOff` says for which machines this way is
enough, and `ShutdownStops` that it is and that the kernel stops on every other
one. The search, the write and the stop are one step: the timer's interrupt is
all that can come between, and it touches `timer_ticks` alone. A table is taken
to lie on one page.

### Printf, Pci

`Printf` is `kprintf` as an operator on directives and the 32-bit words of its
arguments; `kprint_num`, `kprint_hex` and `kprint_ulong` give sequences of
digits. `Pci` scans a machine function by function; the configuration space is
a constant of the machine, read through `pci_read_config`, which gives all ones
where nothing answers, also for the header of an absent function 0. The log is
the sequence of `kprintf` lines with what they show; `ports` is what is written
for UHCI controllers, to ports of 16 bits as `outw` takes them (`Port`). Of a
function's registers the model keeps the vendor, the device, the multi-function
flag, the kind of USB controller and the base registers BAR0, BAR1 and BAR4. The
code reads the first two. BAR4, at offset 0x20, is where a UHCI controller has its
ports, and BAR0 of such a controller reads 0: this is from the interface of the
hardware, not from the code.

`LogTellsTheBus` reads the log as a user would: the lines of a kind
(`Lines`) with their numbers read in their bases (`Read`, by `Value` of `Printf`)
are one for each function found. For a card it compares the log with where the
card's registers are (`Registers`, both words): the line on the MMIO base, which has
room for one word, shows the low one, and the last line of `e1000_init`, whose
three directives take the first three words of its arguments, shows both. The
high word is compared only where BAR0 is for ports or 64 bits wide. For a BAR0
of 32 bits of memory `pci.c:110` takes BAR1 for the upper half all the same,
which is wrong where the card uses BAR1 for something else (see section 6). Of the
lines on the rings `RingSizesShown` speaks, and it fails. `UhciReset` says that
every UHCI controller has been sent its reset and the end of it, and fails, too.
The names of `Pci`'s
specification (`PciSpec`, `PciNext`, `phase`, ...) differ from those of the other
modules because its proofs share a module with those of `System`.

### Loader

`cmd_run` and the loop of `elf_load`, one action per outcome of a read. The
drive holds what `mkfs.py` made of a host file, which it cuts at
`MAX_FILE_SIZE`; the length of a read is `vfs_read_at`'s, in words that wrap, so
a header or a segment that begins past the end of the file is not a short read
but a copy over all of memory, and the machine stops. A byte of memory is known
by the file and place it came from. The power may go at any step; a reset keeps
memory, a cold start does not, and the image may be another one afterwards.
Assumed of programs, because linkers see to it: segments are disjoint, no
larger in the file than in memory, and inside the mapped memory. What a program
writes while it runs is left out.

## 4. Runs

| Run | Question | Result |
|---|---|---|
| `vfs_names` | Does the tree survive two torn syncs, any clean power cycles, long names, full directories, and does what a sync set out to write arrive? | 9 properties hold, `SyncedInodeArrives` under fairness |
| `vfs_files` | Where may drive and memory differ, and what may a file hold, with writes that fit, fill and overflow? | 2 properties hold |
| `file_store` | Do the descriptors implement files of bytes? | 2 properties hold |
| `ata_store` | Does the polling driver implement a sector store, and does every call return? | 3 properties hold, `CallReturns` under fairness |
| `console` | Is the line on the screen, where all wraps, the line that is run, when is the shift state right, and is every Enter that got through answered? | 4 properties hold, `EnterRuns` under fairness |
| `kernel_process` | Do tables, stubs and handlers give the program a machine of its own, and does time go on? | 5 properties hold, `TimeGoesOn` under fairness |
| `heap_blocks` | Do blocks stay a tiling and keep an allocator's promise? | 3 properties hold |
| `loader` | Does a program start only as the file has it, and when is it refused? | 4 properties hold |
| `system` | Do waits last as asked and end, do remapped pages take effect, does a reboot reboot and a shutdown stop? | 5 properties hold, 3 of them under fairness |
| `pci_boot` | Does the log tell the machine, and does the scan end? | 2 properties hold, `ScanEnds` under fairness |
| `pci_rings` | Do the lines of `e1000_init` show the sizes of the rings? | violated: they show 0 |
| `pci_uhci` | Is the reset that the boot calls complete (`drivers/usb/uhci.c:18`) sent to the controller? | violated: it is sent to ports 0 and 2 |

Bounds and why they are enough:

- `vfs_names`: 4 inodes give a chain of directories and siblings; directories
  of 3 entries fill up; two sectors per inode give a torn inode; three names,
  one of which is cut to another; `MaxTorn = 2`, so a sync can tear over the
  remains of an earlier tear. Losses of power between calls are not bounded.
- `vfs_files`: 3 inodes, contents of one, two and three blocks for inodes that
  hold two.
- `file_store`: two descriptors, two files of at most two bytes, a word of 16
  values; offsets up to 3 pass the end and the largest size, the size 15
  wraps. The run says `CHECK_DEADLOCK FALSE` because the machine stops after
  a wild `memcpy`.
- `ata_store`: one-bit address registers, sectors 1, 2 and 12 that tell all four
  registers apart, sectors of two words.
- `console`: 2 by 4 cells, a buffer of four: a full line with its prompt passes
  two edges and scrolls. Both shift keys, Enter, Backspace and one letter, which
  is a space with shift, and a controller with room for two codes. Three
  characters make a name that begins another, an argument after one or two
  spaces, and a line that fills the buffer. Tab is left out of the keys: it
  multiplies the screens and all properties that it would break leave it out.
- `system`: a count that wraps at 8, waits of -1, 0, 1 and 3 ticks; three mapped
  pages of nine, one of them the table's own and asked to be remapped, with two
  kinds of flags. Nineteen machines: three known hypervisors and an unknown
  one, and firmware that is whole, lacks each of its tables in turn or has it
  on a page that is not mapped, whose FADT is a byte too short, or so short that the
  length of the search wraps, with and without an object, or whose object
  has a length that is not, or is but for higher bits, the kind of sleep.
  `CHECK_DEADLOCK FALSE`: the machine stops.
- `pci_*`: two buses of two slots with up to three functions and every
  combination of seven kinds of slot: empty, a card with 32 bits of memory in
  BAR0 and ports in BAR1, one with a 64-bit address, a bridge with a UHCI
  controller and a card with ports behind it, another USB controller, a slot without function 0, one whose header denies a function it has.
  Words of 20 bits; the bus counter wraps at 4, or at 2 in a mutant.
  `CHECK_DEADLOCK FALSE`: the scan ends.
- `kernel_process`: one register file per kind of call, among them a write past the
  NUL, one that stops just before memory that is not mapped and one that runs into
  it, a bad descriptor, a negative count and a number outside the table; a
  tick counter that wraps at 3.
- `heap_blocks`: twelve units with headers of one and rounding to two, in the
  proportions of 1 MB, 5 MB and 4 MB; sizes 1, 2, 5, 8 give exact fits, rests
  too small to split and requests that cannot be met; 31 wraps.
  `CHECK_DEADLOCK FALSE` because a page fault stops the kernel.
- `loader`: ten kinds of file on a drive that keeps twelve bytes of each: whole,
  with and without zeroed data, cut in the data of a segment, where one begins
  and before one, cut in and before the header table, with headers that point
  outside the file, too short, and without magic. Eight bytes of memory, so
  that segments of different programs overlap.

Fairness. `Vfs`: the kernel executes `Boot` and `SyncSector` while the power
is on; nothing is promised of the user or of the power. `Ata`: the driver's
loops run, and the controller finishes its work. `Console`: the loop of `kmain`
polls, and commands end. `System`: the kernel executes, the timer ticks; the
controller takes its byte if it can take it again and again (strong fairness,
since a key may fill the output buffer each time before it does). `Pci`: the
boot goes on. `Kernel`: the processor executes handlers, takes
pending interrupts, and the timer fires; the program may loop or call for
ever. All the rest is weak fairness of single steps, which a running processor
gives.

## 5. Proofs

TLC checks small instances; the theorems below hold for every value of the
constants that meets the named assumptions. Each follows from an inductive
invariant.

`VfsProofs`, for every number of inodes (at least two), entries, sectors,
names and contents:

| Theorem | Statement |
|---|---|
| `TypeCorrect` | `Spec => []TypeOK` |
| `NoOrphanOnDrive` | `Spec => []NoOrphan` |
| `TreesAcyclic` | `Spec => []Acyclic` |
| `CurrentDirValid` | `Spec => []CurrentDirIsDir` |
| `NothingForgotten` | `Spec => DriveNeverForgets` |
| `VfsIsDurableTree` | `Spec => ImplementsDurableTree` |
| `LagOnlyByCutWrites` | `Spec => []DriveLagsOnlyByCutWrites` |
| `PwdEnds` | `Spec => []PwdReachesRoot` |
| `SizesCovered` | `Spec => []SizeCoversWrittenBlocks` |
| `SiblingsDiffer` | `Spec => []SiblingNamesDiffer` |
| `LinksBounded` | `Spec => []LinkedOncePerTear` |

They rest on `InductiveInvariant`, `Spec => []IInv`. None of the properties is
inductive: what a torn sync leaves on the drive is sound only because memory
was sound and because of how far the sync has come. `IInv` therefore says: both
tables are *well formed* (allocated inodes form a lower set, parents list their
children, links point upwards); memory *extends* the drive (every inode of the
drive is in memory with the same name, type and parent and at least its
entries); and *progress* (below the cursor drive and memory agree). One lemma
per helper says what creating, overwriting and copying a sector preserve
(`AddKeepsTable`, `SectorCopiedType`, `HeaderArrives`, ...).

Each later theorem adds one invariant of its own to `IInv`: `LagInv` (the
sectors that the cursor has passed are copied, and the others differ only in
what a refused write has left in memory), `CoverInv`, `NamesInv`, `LinkInv` (a
tear may list an inode once more than before). `StepKinds` sorts the steps for
them: boot, the write of a sector, a loss of power, an inode added, a file
filled, a change of directory. For the refinement each of these is mapped to a
step of the abstract tree or to none. `PwdEnds` follows the
walk of `vfs_pwd` by induction over the table: links point upwards, so the
least inode from which the walk would not end cannot exist.

`FileProofs`, for every `Word`, every file size and number of descriptors:

| Theorem | Statement |
|---|---|
| `HolesStayZero` | `Spec => []HolesAreZero` |
| `DescriptorsAreFileStore` | `Spec => ImplementsFileStore` |

`FileInv` is the types of files and descriptors with `HolesAreZero`, which is
inductive with them; the work is in the arithmetic. `ReadFacts` and
`WriteLengthFacts` say that the wrapped length keeps a `memcpy` in the data array
exactly when the call is one that FileStore promises something about, and then
is the length that was meant. `CopiedOutIsBytesAt` and `CopiedInIsPatched` turn
the array into the sequence of bytes that FileStore has.

`AtaProofs`, for every register width, sector size and set of addresses:

| Theorem | Statement |
|---|---|
| `PortsKept` | `Spec => []PortDiscipline` |
| `DriverIsSectorStore` | `Spec => ImplementsSectorStore` |

The invariant relates the driver's program counter to what the controller is
doing: `StatusOK`, `QuietOK`, `ReadyOK` (which status each place can find),
`RegistersOK` and `CommandOK` (what has been written to the registers by then
adds up to the address asked for), `GiveOK` and `TakeOK` (the words moved so far
are the sector's first ones), `StoringOK` and `DataOK`.

`ConsoleProofs`, for every screen that holds a line, every keyboard table and
every table of commands:

| Theorem | Statement |
|---|---|
| `LineStaysOnScreen` | `Spec => []LineOnScreen` |
| `ShiftStaysInStep` | `Spec => []ShiftInStep` |
| `ShownLineRuns` | `Spec => []RunsWhatIsShown` |

`LineStands` says that the prompt and the line stand before the cursor, wrapped
where they reach the right margin, and that the screen is blank behind it; a
wrap, a scroll and a rubout are lemmas about `kputc`. `ShiftTold` says that the
last scancode of a shift key which is still on its way tells the truth about the
keys, unless it was dropped. `ShownLineRuns` needs what `parse` computes
(`FirstIs`, `StringIs`, `Rest`, `NameAndArgs`, `CallsWhatIsMeant`): the zero
that ends the line is the first one in the buffer, whatever earlier lines left
behind it.

`KernelProofs`, for every set of register files, buffers and modulus of the
tick count:

| Theorem | Statement |
|---|---|
| `TypeCorrect` | `Spec => []TypeOK` |
| `InterruptsAlwaysReturn` | `Spec => []NeverLost` |
| `StubsMatchProcessor` | `Spec => []RegsMatchFrame` |
| `RingsStayApart` | `Spec => []RingsApart` |
| `KernelIsProcess` | `Spec => ImplementsProcess` |

`KernelInv` says what lies on the kernel's stack for each place the processor
can be at: `Bare` outside of handlers, the words pushed so far in the stubs
(`AtStub`), in the handlers (`AtTimer`, `AtHandler`, `CallSaved`) and one `Frame`
below them that `iret` accepts. A fault or a non-maskable interrupt never
returns, so of its stack only the words matter that `regs_t` shows; `Depth`
bounds the nesting: a system call, the page fault that it runs into, and a
non-maskable interrupt. For the refinement, what the program sees is whether its
return address lies on the stack and the registers saved nearest to the bottom.
`SavedPushed` says that words on top change neither, `ReturnShows` that the
words of a handler which returns name one place and one register file; so every
step but six is `Unseen`, and those are `Process`'s start, computation, call (one
that is answered and one that runs into a page fault), exit and panic.

`HeapProofs`, for every size of the heap, of a header and of the alignment:

| Theorem | Statement |
|---|---|
| `HeapIsTiled` | `Spec => []Tiled` |
| `RefusalsAreFair` | `Spec => []RefusesOnlyWhenFull` |
| `HeapIsAllocator` | `Spec => ImplementsAllocator` |

`Chain` says that every block ends where the next one's header begins,
`NoTwoFree` that `kfree` leaves no two free neighbours, `Owned` that the blocks
in use are those the callers hold. `HoleInBlock` turns this into the promise: a
hole between what callers hold lies in one free block. The walk of `kfree` is
followed by induction over the list (`WalkedTo`: the blocks passed are joined,
the rest is as it was).

`LoaderProofs`, for every family of programs and all sizes:

| Theorem | Statement |
|---|---|
| `TypeCorrect` | `Spec => []TypeOK` |
| `WritesOnlySegments` | `Spec => []OnlySegmentsWritten` |
| `RunsWhatTheFileHolds` | `Spec => RunsTheFile` |
| `RefusalsAreCuts` | `Spec => RefusesOnlyCutFiles` |

`IInv` adds to the first two that the segments which the loop has passed are in
memory (`PrefixInMemory`: a later segment does not disturb them, being disjoint)
and that every load starts at header 0. The arithmetic is in three lemmas:
`Wraps` says what `% Word` makes of a sum or a difference of two words;
`ReadInFile`, that a read that does not run wild stays in the file and gives no
more than asked; `ReadComplete`, that a read which lies within the host's file is
complete unless the file was cut, and wild only when it begins past the cut.

`SystemProofs`, for every width of the count, every number of pages, every set
of machines, and every number of buses, slots and functions:

| Theorem | Statement |
|---|---|
| `RemapsTakeEffect` | `Spec => []MapTakesEffect` |
| `WaitsLastAsLongAsAsked` | `Spec => WaitsAsAsked` |
| `LogIsTheBus` | `PciSpec => []LogTellsTheBus` |
| `ScanGoesOn` | `PciSpec => [][Later /\ bus' <= MAX_PCI_BUS]_pciVars` |
| `PrintedNumbersReadBack` | a printed word read in its base is the word, an int with its sign |

`PagingInv` says that a kept translation is the table's entry, but for the page
under `invlpg`; hence the write of an entry reaches the table exactly as long
as the table's page is mapped to itself, and the table is what was asked for.
`WaitInv` says of a wait that ends before the wrap that the count is its start
plus the ticks since (it has not wrapped), and bounds these at each of the
three places of the loop (`OnTime`).

`PciInv` is two invariants. `ScanInv` says where the scan is, and that `multi`
is what the slot's header says; with it one step passes exactly one function
that a scan has to find, or none (`Found` is what it has passed, and at the end
all of `Reachable`, by `AllFound`). `LogInv` says that the log tells of `Found`
and of nothing else. It is inductive because a log made of two tells what both
told if they have no fact in common (`ShownConcat`), because places differ
(`FactsDiffer`), and because printed numbers read back: `PrintedNumbersReadBack`.
For that theorem the digit buffer and its reading are recursive functions,
whose existence is shown first (`FillsExists`, `ReadsToExists`); `DigitsRead`
takes the least number that does not read back and looks at its quotient.
`MmioIsRegisters` says which words of a card's base are right. `ScanGoesOn` is the safety half
of `ScanEnds`: each step goes on in the order of buses, slots, headers and
functions. What it leaves to TLC is that an order with finitely many places has
an end, and fairness.

The proofs assume only the named assumptions on constants, in the modules that
declare them: sizes are positive, two files fit a word, a screen holds a full
line, the command table is an array, four registers hold a sector's address,
the heap does not reach the end of the address space, program segments are
disjoint, the bus counter is wider than the number of buses, registers have 32
bits, a vendor is not the number that stands for none, and the like. Induction over the numbers is done with the least element of a set
(`WFMin` with `NatLessThanWellFounded`), because the induction theorems of the
library take an operator as a parameter.

The proofs asked for three changes of the model. `Allocator` promised that a crash
happens only when *some* request has no hole, which every state satisfies; it
and `Heap` now keep the request that crashed. `Shell` chose a command's effect
with a `CASE` whose guards overlap, which TLC resolves from the top and the
logic leaves open; it is an `IF` chain now, as in the code. The
properties of `Pci` were written with `SelectSeq` and a fold over `LAMBDA`s, which
no prover here can expand; they speak of sets of places in the log and of a
recursive function now, and `PciAssumption` names what registers hold, which
the model had left to the machines that TLC was given.

Every invariant, action property and refinement that a passing run checks is
stated by a theorem. Only model-checked are:

- liveness (`SyncedInodeArrives`, `CallReturns`, `EnterRuns`, `TimeGoesOn`,
  `WaitReturns`, `RebootResets`, `ShutdownStops`, `ScanEnds`): fairness and
  `ENABLED` are beyond the prover;
- the two runs that show what the code gets wrong, by their nature.

## 6. Findings

`drivers/pci/pci.c:40` takes BAR0 for the base of every kind of USB controller. A
UHCI controller has its ports at BAR4 and its BAR0 reads 0, so `uhci_init` writes
its three words to ports 0 and 2, which belong to the DMA controller, and says
"UHCI: Reset complete." (`pci_uhci`). With the base taken from BAR4 the same run
finds nothing: the order of the writes is right.

`drivers/network/e1000.c:26` prints the address of the receive ring with `%lx`,
for which `kprintf` takes one word, but `dev->rx_ring.base` is a `uint64_t` and
lies on the stack as two. The `%d` that follows shows the upper half of the
address, and the line ends in `size=0` instead of 128 (`pci_rings`). The lines
at 42 and 55 are shifted in the same way.

Met on the way, without a run of their own: `drivers/pci/pci.c:110` makes BAR1 the
upper half of a card's base without looking whether BAR0 is 64 bits wide, so a
card with memory in BAR0 and ports in BAR1 has its ports printed in the upper
half (nothing else uses the base); `include/stdlib.h:8` calls the heap a "4 MB
heap", but it starts at 1 MB and `paging_init` maps the first 4 MB only, so a
request that makes `kmalloc` write a header above them stops the kernel with a
page fault, as `ImplementsAllocator` allows (nothing calls `kmalloc`); `uhci_init` prints its base after
`0x` with `kprint_num`, in decimal (`drivers/usb/uhci.c:6`); a wait whose end is
the last count before the wrap may miss it and last a whole round longer
(`system/system.c:195`), which is why `WaitReturns` leaves out the last two
counts; the kernel takes a package's length for the kind of sleep
(`system/system.c:131`).

## 7. Not modelled

The descriptors that `e1000_init` clears (nothing reads them, and the card is
not told of them), `e1000_destroy` (no caller), the banner of `version.c`, the
build rules. Errors of the drive are outside the controller's model: the driver
does not look at the error bit and polls for ever. The pixel-level and textual
details (messages, help text, hex dumps of a panic) are left out, but for the
numbers in the log of the scan. Memory protection between program and kernel is
not a subject: all pages are mapped for the user. What a kernel does after it
has mapped its own page table away is not followed. Exceptions of features that
the kernel does not switch on, double faults and machine checks are not raised.
The controllers of USB are their ports alone: what they do after a reset is not
modelled, the kernel does nothing with them. The functions
of `string.h` that the modelled code does not call are left out.
