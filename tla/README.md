# JOS-vmx in TLA+

JOS-vmx is a small 32-bit teaching kernel: a boot loader, paged memory, a console
with a command monitor, traps, and a frame for running one guest under Intel VMX
(parts of which are exercises that panic as committed).  This directory models
the kernel's own logic, checks the models with TLC and proves the safety of most of
them with TLAPS: the disk image and the boot loader, boot-time memory, the page
allocator with its abstraction and its self-test, the console from scan code to screen,
traps, the VMX assembly and the guest's page table.

Paths below are relative to the repository (`kern/pmap.c` is `src/kern/pmap.c`).

## 1. Inventory

The kernel runs on one CPU and never enables interrupts.  Two functions of it
never overlap.  What does run beside it: the processor's page walker and TLB, the
keyboard and the serial port, a guest between VM entry and VM exit, and what
memory or the screen held before the kernel started.

| part | state | operations | what is hard | what makes it correct |
|---|---|---|---|---|
| page allocator and page tables (`kern/pmap.c`, `inc/queue.h`) | `pages[]`, `page_free_list`, `kern_pgdir` and its tables, the TLB | `page_alloc`, `page_free`, `page_decref`, `pgdir_walk`, `page_insert`, `page_lookup`, `page_remove`, `tlb_invalidate` | stores seen by the walker one by one; counts moved before the entries they count; an intrusive list | counts exact, no page with two owners, none leaked, no stale translation |
| boot-time memory (`kern/pmap.c`, `kern/entry.S`, `kern/kclock.c`) | `nextfree`, `npages`, the boot page tables, segment bases, CR0, CR3 | `i386_mem_detect`, `boot_alloc`, `boot_map_segment`, `boot_mem_check`, `boot_mem_init`, `page_init` | addresses change meaning three times under running code; memory that is not zero or not there | the kernel never loses its mapping; what is freed is unused |
| `page_check` (`kern/pmap.c`) | - | one long self-test | it steals the free list and edits the directory behind the allocator's back | it passes and leaves no trace |
| display (`kern/console.c`) | `crt_buf`, `crt_pos`, the 6845 | `cga_init`, `cga_putc`, `get_cursor_loc` | wrapping, scrolling, a guest on the same screen | what is shown is the end of what was written |
| keyboard (`kern/console.c`) | `shift` | `kbd_proc_data` | prefixes, releases and repeats in any order | the characters typed, no modifier stuck |
| input ring, serial port (`kern/console.c`) | `cons`, `serial_exists` | `cons_intr`, `cons_getc`, `getchar` | two devices, wrapping, a full ring | nothing lost, reordered or invented; the reader is served |
| line input, monitor, panic (`lib/readline.c`, `kern/monitor.c`, `kern/init.c`) | `buf`, `argv`, `panicstr` | `readline`, `runcmd`, `monitor`, the commands, `_panic` | limits of both buffers; monitors inside monitors | what is seen is what runs |
| backtrace (`kern/kdebug.c`, `kern/monitor.c`) | the stabs in the kernel image, the saved frame pointers | `stab_binsearch`, `debuginfo_eip`, `mon_backtrace` | a binary search with holes and duplicates, three times over; one result struct for all frames | every frame gets the place the program says |
| traps (`kern/trap.c`, `kern/trapentry.S`) | the IDT, the trap frame on the stack | `idt_init`, handlers, `_alltraps`, `trap`, `mon_exit` | frames with and without an error code; a monitor running anything on top of one | every frame has the shape `struct Trapframe` says; interrupted code goes on as if nothing had happened |
| VMX (`hvm/vt.c`, `hvm/vt_init.c`, `hvm/asm_vmop.S`, `hvm/vt_regs.c`, `hvm/vt_ept.c`) | the VMCS, `vr`, the EPT | set-up, launch, resume, exit dispatch | registers and stack across entry, exit and failure | guest and host registers kept apart and restored |
| boot loader, disk image (`boot/boot.S`, `boot/main.c`, `boot/mkbootdisk.c`) | image, memory, the A20 gate, the disk's registers | `mkbootdisk`, `seta20`, `bootmain`, `readseg`, `readsect` | rounding to sectors on both sides; controllers that answer late | every segment where its header says |
| formatted output, strings (`lib/printfmt.c`, `kern/printf.c`, `lib/string.c`) | the directive being read, the argument list, the buffer | `vprintfmt`, `printnum`, `snprintf`, `cprintf`, `memmove`, `strlcpy`, `strtol`, ... | backing up in the format, argument sizes, bounds, overlap | agreement with a reference |

How they interact: `i386_init` runs `cons_init`, `boot_mem_init`, `page_init`,
`page_check`, `idt_init` and then the monitor for ever.  The monitor reads through
`readline` -> `getchar` -> `cons_getc` -> devices and writes through
`cprintf` -> `cputchar` -> `cga_putc`.  Traps and `panic` call the monitor again.
The command `matrix` sets up VMX with pages from `page_alloc` and runs the guest.

## 2. Modules

| module | models | state and actions |
|---|---|---|
| `PageMap` | the page functions after `page_init` | the list as its pointers (`lh_first`, `le_next`, `le_prev`), `pp_ref` modulo `RefMod`, `pgdir`, the words of every physical page, the TLB. `page_alloc` and `page_free` are one action each (the walker cannot see the list). `page_insert` and `page_remove` are an entry action and one action per store the walker can see: `walk_memset`, `insert_count`, `remove_decref`, `remove_clear`, `tlb_invalidate`, `insert_write`; `pc` is the next of these, `op` the arguments. `tlb_fill` and `tlb_evict` are the processor's, at any time and from any table; `stray` is a history variable: the addresses whose cached translation was read from a table not cleared yet |
| `AddressSpace` | what the comments promise a client | a pool of pages and a map from addresses to pages: no counts, links, words or TLB |
| `PageMapRefinement` | - | the mapping that shows `PageMap` implements `AddressSpace`; says at which store each call takes effect |
| `PageMapProofs` | - | the theorems about `PageMap`, that it implements `AddressSpace`, and about `PageCheck` |
| `BootMem` | `boot_mem_init` and `page_init` from the state `entry.S` leaves | one action per statement of `boot_mem_init` and one per turn of its loops, with segment bases, GDT, CR3, paging, and a TLB for the temporary low mapping |
| `BootMemProofs` | - | the theorems about `BootMem` |
| `PageCheck` | `page_check` | a script of 24 statements over `PageMap`'s actions, with the walker still free |
| `Terminal` | a text display | an endless sheet of which the last rows are in view |
| `Cga` | `cga_init`, `cga_putc` | `crt_buf`, `crt_pos`, the cursor registers; `gone`, the cells scrolled off, is a history variable for the refinement of `Terminal` |
| `Keyboard` | `kbd_proc_data` and its tables | `shift` as a set of flags, the controller's queue, and a keyboard (external) with keys going down, repeating and up; `caps` and `typed` are history variables |
| `ConsoleInput` | `cons_intr`, `serial_intr`, `kbd_intr`, `cons_getc`, `getchar` | the ring and its positions; one action per turn of a drain loop; the UART (one byte, overrun) and the keyboard controller (external) deliver in between; `unread` is a history variable |
| `LineInput` | `readline`, `runcmd`, `monitor`, `mon_exit` | the line buffer with whatever it held before, the display (through `Cga`'s `putc`), the argument strings; `line` is a history variable |
| `CgaProofs`, `KeyboardProofs`, `ConsoleInputProofs`, `LineInputProofs` | - | the theorems about the four parts of the console |
| `StabSearch` | `stab_binsearch` | the function's locals, one action per turn of its loop |
| `DebugInfo` | `mon_backtrace`, `debuginfo_eip` (with `StabSearch`) | one action per search and one for what follows it; the table is the one a compiler would write (external) for `program`, which says what the answers should be |
| `Ept` | `hvm/vt_ept.c` | the tables allocated, `gfn`, and the arguments of the recursive call: one action per call of `ept_update_identity_table` |
| `VmxRun` | `vt_main` with `vt_init` (through `Ept`), `asm_vmop.S`, `vt_regs.c`, `has_vmx`, `_panic` | the processor's registers and control registers, the kernel stack word by word, `vr`, the VMCS fields the kernel comes back by, the rows of the screen both write to. One action per function, and in the assembly one up to the entry instruction and one from each place it is left to. `vm_entry`, `guest_run` and `vm_exit` are external; `caller`, `guest` and `left` (the row the cursor had when the guest last ran) are history variables |
| `Trap` | `idt_init`, `trapentry.S`, `trap`, `mon_exit`, composed with `VmxRun` | the frames on `VmxRun`'s stack, pushed by the processor (external), a handler and `_alltraps` and read back through `Trapframe`; `tfs`, the argument of every active monitor. Kernel code may fault at any C statement; a breakpoint is the one trap that returns. `raised` is a history variable: what each trap interrupted, the active monitors included |
| `TrapProofs` | - | the theorems about `Trap` composed with `VmxRun` and `Ept` |
| `BootDisk` | `mkbootdisk.c` | the image, `nsectors`, the argument being processed; one action per kind of argument |
| `BootLoader` | `boot.S`, `boot/main.c`, on `BootDisk`'s image | memory byte by byte, the A20 gate, the locals of `readseg`; `readsect` is two actions, before and after the second wait. The BIOS and the two controllers are external and take their time |
| `BootLoaderProofs` | - | the theorems about `BootDisk` and `BootLoader` |
| `StringOps` | `lib/string.c` | one operator per function, from a memory to a memory and a result; a turn of a loop is a turn of the recursion |
| `PrintFmt` | `lib/printfmt.c`, `kern/printf.c` | the place in the format, the directive's fields, the words left in the `va_list`, the buffer or the console; one action per case of the switch |
| `Lib` | - | one call of `PrintFmt` or `StringOps` at a time, and what it must do: a directive is rendered from its parts, a string function has a definition without loops |

`MC*` modules give constants their values.  Definitions named after another one
with a suffix and marked "Seeded fault" (for example `page_decref_early`) are
plausible bugs; `PROJECT.json` says which property each of them breaks.  No
specification uses them.

## 3. Runs

Passing runs:

| run | checks | bounds, and why they are enough |
|---|---|---|
| `pagemap` | `TypeOK`; `FreeListLinked`, `FreeListComplete` (links agree both ways, every free page is reachable, no cycle); `RefCountExact` at every store; `PagePartition`; `TLBCoherent`; `NoAccessToForeignPage`; `ImplementsAddressSpace`; `CallsComplete` | 3 usable pages, 2 x 2 addresses, `RefMod` 4: a table and two data pages or two tables and one, sharing, replacing, exhaustion, a list with a middle element; two permissions, so that re-inserting a page to change its permission differs from not doing it. 321 526 states; no symmetry because of liveness |
| `page_check` | `AssertionsHold`, `LeavesNoTrace` | 5 usable pages: the test takes three and leaves some on the stolen list; a table of three entries, the two the test uses and one it does not. 362 states |
| `boot` | `PanicsOnlyOutOfMemory` (with `boot_mem_check`'s assertions), `KernelStaysMapped`, `FreePagesUnused`, `LowMappingGone`, `FreeListHandedOver`, `BootEnds` | tables of 8 entries, 4-byte pages, zeroed or junk memory, ten memory sizes: five too small for the page tables, two that hold the tables but leave nothing to free, and three with room, of which two make the `pages` array end inside a page and at its end. 23 826 states |
| `console` | `ImplementsTerminal`; `ModifiersAsHeld`, `CharacterAsTyped`; `RingHoldsUnread`, `NextCharacterReturned`, `GetcharReturns` | display, keyboard and ring share no variable and no property speaks of two of them, so a behaviour exercises one of them while the others stay as `cons_init` left them. Display: 2 x 3 cells, any initial contents and cursor; a tab is wider than a row and scrolls by itself; two rows scrolled off. Keyboard: both Ctrl keys (one with the E0 prefix), Shift, Alt, Caps Lock, a letter, Del and keypad Del; three codes of lag, more than a prefixed key. Ring: 4 slots, two characters and "no character" from either device. 650 587 states |
| `command_line` | `LineOnScreen`, `ReturnsEditedLine`, `ArgumentsAreWords` | 3 x 3 cells, a buffer of 6, `MAXARGS` 3, two finished lines and a third being edited: a line wraps twice, scrolls, and follows a longer one |
| `debug_info` | `BacktraceRight`, `BacktraceEnds` | files of one or two functions, an assembly file, code from an included file, the directory entry before a file's own; addresses in, between and outside all of them; up to three frames, so that one answer can leak into the next. 190 602 states |
| `matrix` | `HostRestored`, `GuestUndisturbed`, `EntryLegal`, `GuestMemoryMapped`, `StopsAtGuestCursor`, `TrapFrameRight`, `InterruptedCodeResumes` | two runs of the command, the second after a run that stopped or panicked anywhere, or from the monitor of a breakpoint; up to two traps at a time, with and without an error code and one without a gate; page tables of two entries on four levels, 12 guest frames, so that every level's index matters; memory for one run (the second runs out half built) or for two; register files in which no two registers are alike; entries that fail before or after guest state is loaded. 7 558 555 states |
| `boot_loader` | `ImageAsAsked`, `KernelLoaded`, `LoaderEnds` | sectors of 3 bytes, pages of two sectors; up to three arguments of every kind; text and data segments on and off sector boundaries, in either order, with and without bss, and empty headers; both controllers answer at any time. 47 718 states |
| `lib` | `StringsAsSpecified`, `PrintsAsAsked` | words of 8 bits, so that both ends of every type are printed; every combination of flag, width, precision and size that a directive can have (but for `-` with a width that pads a number, where code and comment differ, see below), to buffers of 0, 1, 5 and 20 bytes and to the console; string functions on all memories of 4 bytes over 0, 1 and 200 (negative as a `char`), every call that stays inside. 122 050 states |

`CHECK_DEADLOCK FALSE` appears where the program ends: `boot_mem_init`,
`page_check` and a library call return, and after the last `matrix` command the
monitor waits.

Three runs must be violated, because the code and a line of the repository disagree
(the quotes are in `PROJECT.json`, "findings"):

- `remove_unmapped`, `RemoveUnmappedSilent`: `page_remove` of an unmapped address whose
  table exists uncounts page 0 instead of doing nothing.
- `raw_table`, `TLBFollowsTables`: `pgdir_walk` publishes a new table before it
  clears it.  A walk in between caches what the page held, the `memset` removes that entry
  without an `invlpg`, and `page_insert`, which finds the entry 0, issues none either.  After
  the call the TLB translates an address to a page the tables never mapped there.
- `base_memory`, `BaseMemoryFreed`: `page_init` keeps all of base memory off the list, because
  its third test starts at the kernel window's first page, which is page 0.

Other places where the code and its comments differ, visible in the definitions
but given no run of their own:

- `page_lookup` of an unmapped address whose table exists returns `&pages[0]`, not
  0 (the cause of `remove_unmapped`);
- `pp_ref` is 16 bits wide and wraps when one page is mapped 65536 times;
- `boot_alloc` does not panic when it runs out of memory; the `KADDR` that follows does.
  Nothing takes `KADDR` of the end of the `pages` array, so in a narrow range of
  memory sizes the array ends beyond memory and `page_init` frees nothing;
- `runcmd` accepts 15 arguments where its message says 16;
- `boot_pgdir_walk` does not clear the tables it allocates (`kern/pmap.c:293`), so
  if memory held junk, pages that `kern/pmap.c:135` calls "not present" are mapped
  below the kernel stack;
- a full input ring looks empty: `cons_intr` (`kern/console.c:384`) lets the write
  position meet the read position;
- `stab_binsearch` returns the next entry when two entries of a type are at
  consecutive addresses (`MinGap = 1` allows them in `DebugInfo`), against
  `kern/kdebug.c:30`: "points to the matching stab that contains 'addr'";
- `idt_init` sets no gate for vector 0, so a divide error, which cannot be delivered (a
  general protection fault on top of it), arrives as a double fault;
- the handler of alignment checks pushes an error code of its own although the
  processor pushes one (never raised in kernel mode);
- `inc/trap.h:71` names a `static_assert` in `kern/trap.c` that is not there;
- `-` pads a number with `-` characters on its left, although `lib/printfmt.c:108`
  calls it "flag to pad on the right".  `Lib` renders such a number padded on the right, with
  blanks, and `MCLib` does not ask for one: `PrintsAsAsked` fails for it;
- `%.0s` reads the 0 as a flag; `%e` of the
  smallest integer reads before `error_string`; a character above 127 printed with
  `%s` reaches `cputchar` as a negative number;
- "VM launch Success" (`hvm/vt.c:212`) is printed after the first exit, before
  `get_cursor_loc`, over what the guest may have written;
- `cprintf` returns 0 whatever it printed: `*cnt++` in `kern/printf.c:13` moves the
  pointer, not the count;
- the picture in `ept_update_identity_table` places the guest above "64MB" because
  "the max memory size of JOS is less than 64MB", but `i386_mem_detect` accepts up
  to 65535 KB above the first megabyte.

### Contracts

The specification of `PageMap` assumes what its comments ask of a client, and nothing of the processor:

- a client frees only pages it holds, and maps only pages it holds or that are
  mapped (`page_free`: "should only be called when pp->pp_ref reaches 0");
- it unmaps only mapped addresses, or addresses without a table
  (`SpecRemoveAny` lifts this);
- it keeps `pp_ref` in range.

The walker reads every table in the directory, the one being built included.
`TLBCoherent` and `NoAccessToForeignPage` speak of the translations it read from cleared
tables (`Cached`): those are what `page_insert` and `page_remove` can answer for, and `raw_table`
shows that the others are wrong.  `LeavesNoTrace` speaks of the same ones.

`ConsoleInput` assumes that the devices leave one slot of the ring free,
`Keyboard` that nobody holds two keys of one modifier and that no key has code 0x60
(its release would look like the prefix E0), `BootMem` that there is at least one page
of memory behind the kernel image and that memory fits in the kernel's window,
`DebugInfo` (through
`MinGap`) that no two entries of a type are at consecutive addresses,
`Cga` that the cursor is on the screen when the kernel starts, `VmxRun` that the
guest leaves it there (`get_cursor_loc` takes any position), and `LineInput`
that a prompt and a full line fit on the display without its last row, which the
code's numbers satisfy (1026 of 1920 cells).  `BootLoader` assumes that the keyboard
controller has opened the A20 gate by the time the disk has answered: `boot.S` waits
until the controller can take a byte, not until it has acted on the last one.  Of the
kernel file it assumes what a linker makes (`LinkedKernel`): segments inside memory, as far
into a sector of memory as into a sector of the file (`readseg` rounds both down
independently), in sectors of their own and none of them the header's (it
loads whole sectors, and still reads the headers), and a file long enough for
all of them.  `PageCheck` assumes three free pages, `Ept` that the last guest frame is
within reach of the levels and no multiple of a table's entries (0xFFFFF is neither
beyond four levels nor a multiple of 512): `ept_create_table` stops below it.
`Trap` lets a breakpoint come where a monitor command or the start of `matrix` could
place one; the code itself has only a commented-out `int3`.  Its faults exclude vector 15, which
the processor reserves, and 17, which it does not raise in kernel mode.  `Lib` makes the calls
that C allows: inside the arrays, on strings that end, `memcpy` without an overlap
that its forward copy would spoil, `%e` of anything but the smallest integer.

Exercises.  `has_vmx`, `vmx_on`, `set_vmcs_ctl`, `vmcs_setup`, two places of
`ept_update_identity_table` and a branch of `do_cpuid` are exercises.  The branch (exercise 5,
the leaf `0xFeedCafe`) is empty as committed, and `do_cpuid` is modelled as committed:
that leaf is answered by the processor, like any other.  The others: as committed they panic, and the guest
never runs.  In `Ept` and `VmxRun` each of them may panic or do what its comment
asks (allocate a page, `vmclear`, `vmptrld`, `vmxon`, set the entries), so the run
covers the kernel as committed and with the exercises done.  What is checked is the
code around them, which is complete: the order of the set-up, the assembly, the
exit loop, the index arithmetic and the loop over the frames.

### Fairness

`WF_vars(KernelStep)` in `PageMap` and `ConsoleInput`, `WF_vars(BootStep)` in
`BootMem`, `WF_vars(Step)` in `DebugInfo`, `WF_vars(Next)` in `Lib` and
`WF_vars(Loader)` in `BootLoader` say that code that is running keeps running: there
is one thread, interrupts are off, and no step waits (`Loader` polls).  In
`BootLoader` the controllers, too, finish what they were given (`kbc_done`,
`ide_done`), because the loader has no timeout: with a dead disk it polls for ever.  Nothing is assumed of clients, of the
processor's walker or of the other devices: they may stop at any time.  The one bound
that liveness needs is `MaxBurst` in `ConsoleInput`: `cons_intr` drains a device
until it is empty, so a device that is never empty keeps it for ever; the bound
says that polling is faster than typing.

## 4. Proofs

Every theorem below holds for all values of the constants that satisfy the named
`ASSUME`s of its model; TLC evaluates the same assumptions in every run.  The
inductive invariants were checked by TLC before they were proved, except the parts TLC
cannot evaluate, which say that some labelling, layout or order exists (`EptInv`,
`ImageInv`, `FreeListIsSequence`); of those TLC checks the consequences.  In every module
there is one lemma per action, and the last theorem combines them.

Where a property needs induction (along the free list, down the levels of a page
table, from word to word of a line), the proof takes the least place at which it would
fail.  That a set of natural numbers has a least element is the lemma `LeastNumber`; it
follows from the library's fact that strict inclusion of finite sets is well-founded, which
has no operator parameter.

### The page allocator (`PageMapProofs`)

For every number of pages, every finite set of directory and table indices, every
set of permissions, every junk word and every count modulus above 2
(`SizeAssumption`, `IndexAssumption`, `WordAssumption`, `PointerAssumption`), and for `page_check` at least three free
pages (`ThreeFreePages`):

| theorem | statement |
|---|---|
| `TypeCorrect` | `Spec => []TypeOK` |
| `RefCountsExact` | `Spec => []RefCountExact` |
| `PagesPartitioned` | `Spec => []PagePartition` |
| `FreeListConsistent` | `Spec => []FreeListLinked` |
| `NoFreePageLost` | `Spec => []FreeListComplete` |
| `TLBAlwaysCoherent` | `Spec => []TLBCoherent` |
| `Isolation` | `Spec => []NoAccessToForeignPage` |
| `PageFunctionsImplementAddressSpace` | `Spec => ImplementsAddressSpace` |
| `PageCheckPasses` | `CheckSpec => []AssertionsHold` |
| `PageCheckRestores` | `CheckSpec => []LeavesNoTrace` |

None of the invariants is inductive alone.  `page_decref` frees a
page when its count reaches 0, which is right only if the count is exact; the
count moves before the entry it counts, so exactness has to name the call's
position; and freeing a page is harmless to the list only if it is not on it, which is
the partition.  The inductive invariant is

    IInv == TypeOK /\ CallInProgress /\ TablesDistinct
            /\ FreeListLinked /\ RefCountExact /\ PagePartition

where `CallInProgress` says what the remaining steps of a call rely on (its table
exists, its page is still owned, the entry is where the last step left it) and
`TablesDistinct` says that no two directory slots share a table, so a store
changes one translation.  One lemma per action shows that it preserves `IInv`
(`AllocStep` ... `WriteStep`); the lemmas on `LIST_INSERT_HEAD`, `LIST_REMOVE`,
`set_pte` and the cardinalities of the reference sets are stated once.
`TLBAlwaysCoherent` adds `RawTableUncached` (what is cached of a table being built is in
`stray`, so it is not among the translations the theorem is about), `Isolation` adds `DataNotTable` (no entry, stored or pending, points to a
page table).

Agreeing links do not make a list complete: a ring of pages that point at each other in
both directions agrees too.  `NoFreePageLost` adds that the pages on the list can be
written as a sequence without repetition that `le_next` follows from `lh_first` to
the end (`FreeListIsSequence`).  Putting a page at the head shifts the sequence, removing
the head (`page_alloc` removes nothing else) shifts it back.  That `n` links from the
head lead to page `n` of the sequence, which is what `FreeListComplete` counts by, is
the least-number argument above; that there are at most `NPages` of them, a count.

`page_check` breaks `PageMap`'s contract: it empties `page_free_list` under the
allocator, frees a page it will map, and clears a directory slot itself.  `IInv` does not
hold then, so its proof has an invariant of its own, `CheckInv`: for each of the
statements, and each store of the calls in them, which of the three pages is held,
counted, on the visible list or mapped where (`Script`).  The stolen pages keep
their links because no call reaches them (`Side`); when the old head is put back,
the first page's `le_prev` still says `page_free_list`, and the list is
a sequence again.  The TLB stays coherent by `TLBInv`, with the walker free at every step.

For the refinement, a call takes effect in the abstract address space when it moves
the last count, not when it stores the entry: from then on the mapping reads the
address of the call as its new word (`BarAt`).  Each action is shown to be an
`AddressSpace` step or a stutter.  The proof needs `IInv`, `DataNotTable` (so that a
page the mapping counts as free or held is not some table), and `NewWord` (what a
call is about to store is 0 or a mapping).

### Boot-time memory (`BootMemProofs`)

For every memory size, table size, page size, kernel image and size of `struct Page`
that `LayoutAssumption`, `PointerAssumption` and `MemoryAssumption` admit, and memory
filled with zeros or with any one junk word:

| theorem | statement |
|---|---|
| `BootInvariant` | `Spec => []BootInv` |
| `MappingNeverLost` | `Spec => []KernelStaysMapped` |
| `BootFailsOnlyForMemory` | `Spec => []PanicsOnlyOutOfMemory` |
| `LowAddressesUnmapped` | `Spec => []LowMappingGone` |
| `FreedPagesUnused` | `Spec => []FreePagesUnused` |
| `ListHandedOver` | `Spec => []FreeListHandedOver` |

`BootInv` is `BootTypeOK` and one conjunct per phase of the code.  `Building`: the directory
and its tables lie below `nextfree`, no two slots share one, and the pages that
`boot_map_segment`'s loops have passed are mapped.  `WindowStands`: once the tables are
complete, the window at `KERNBASE` maps all of memory, whatever happens to the
rest of the directory.  `Switched`: which segments, GDT, directory and cached
translations are in force at each statement of the switch.
`FreeListBuilt`: the links of the pages that `page_init`'s loop has reached.
Uncleared tables are why `Building` says nothing of the entries the loops never reach; the free list
is disjoint from the kernel's pages because all of those lie below `boot_top`.

### The console

`ConsoleInputProofs`, for rings of any size and any characters (`RingAssumption`):

| theorem | statement |
|---|---|
| `RingCorrect` | `Spec => []RingHoldsUnread` |
| `GetcReturnsNext` | `Spec => NextCharacterReturned` |

The ring's two positions say how many characters it holds only modulo its size.  The
invariant adds `OneSlotFree`: the devices' bytes and the unread characters together
leave a slot free, so the positions meet only when the ring is empty, also after
the drain loops.

`KeyboardProofs`, for any set of keys and any lag (`KeyAssumption`):

| theorem | statement |
|---|---|
| `KeyboardInvariant` | `KbdSpec => []KbdInv` |
| `NothingSticks` | `KbdSpec => []ModifiersAsHeld` |
| `DecodedAsTyped` | `KbdSpec => CharacterAsTyped` |

Both properties speak of an empty queue or of its head; a key pressed now is decoded
later, with flags that later codes have not touched yet.  `KbdInv` therefore looks ahead:
decoding the rest of the queue from the present `shift` returns exactly
`typed`, in order, and ends with the modifiers of the keys now held and the toggle
of `caps`.  The decoding of a queue is stated by its sequence of intermediate flags
(`Decoding`) and not by recursion, so that taking a code off the front and
putting one or two at the back are two lemmas about such sequences.  A reset ends the
obligation: codes behind Ctrl-Alt-Del are lost with the machine.

`LineInputProofs`, for displays of any size on which a full line fits above the last
row (`LineAssumption`):

| theorem | statement |
|---|---|
| `LineInvariant` | `Spec => []LineInv` |
| `LineShown` | `Spec => []LineOnScreen` |
| `LineReturned` | `Spec => []ReturnsEditedLine` |
| `ArgumentsRight` | `Spec => ArgumentsAreWords` |

`LineInv` ties three copies of a line together: the history, `buf` and the cells
before the cursor.  A scroll moves the cursor and the text by the same row, so the
text keeps its distance from the cursor; it could only be lost at the top, and the
assumption on `BUFLEN` keeps it away from there.  For the arguments, `Located` says what
the parser's `k`-th position is: the start of a word with exactly `k` words up to
it, or the end of a line of fewer than `k` words.  It holds of the first position and passes
from one to the next, so `argc` is the number of words.

`CgaProofs`, for screens of any size and any glyphs (`ScreenAssumption`):

| theorem | statement |
|---|---|
| `DisplayImplementsTerminal` | `CgaSpec => ImplementsTerminal` |

The abstract sheet is what was scrolled off followed by the screen (`Sheet`), the
abstract cursor the number of lost cells plus `crt_pos` (`Place`).  The invariant says
that the cells scrolled off are whole rows and that the cursor registers agree with
`crt_pos`.  Columns then agree on both sides, a scroll only extends the sheet by a blank row, and a
tab is five glyphs, each of which may scroll (`Written`).

### Traps and VMX (`TrapProofs`)

For any register contents, any number of runs, any guest, any set of faults with or
without error codes, and any depth of nested monitors (`VmxAssumption`,
`EptAssumption`, `FaultAssumption`), and for tables of any size on any number of levels:

| theorem | statement |
|---|---|
| `TrapInvariant` | `Spec => []TrapIInv` |
| `HostAlwaysRestored` | `Spec => []HostRestored` |
| `GuestNeverDisturbed` | `Spec => []GuestUndisturbed` |
| `EntriesLegal` | `Spec => []EntryLegal` |
| `GuestMemoryComplete` | `Spec => []GuestMemoryMapped` |
| `StopMessagePlaced` | `Spec => []StopsAtGuestCursor` |
| `TrapFramesRight` | `Spec => []TrapFrameRight` |
| `BreakpointsReturn` | `Spec => InterruptedCodeResumes` |

`TrapIInv` describes the stack word by word.  `InAssembly`: between the pushes of
`asm_vmlaunch_regs_32` and the pops, wherever those happen, the caller's registers
are the words the pops will read, and the VMCS sends an exit to that stack.
`VmcsCurrent`: the VMCS is launched exactly when the next entry is a resume.
`GuestCarried`: the guest's registers are in `vr` or in the processor, depending
on the position in the exit loop, with CPUID's answer and the skipped instruction
accounted for.  `GuestRowKept`: from an exit to the next entry of a resumed guest the cursor
stays where the guest left it, which is what `StopsAtGuestCursor` rests on.  `MonitorStack` and `BreakpointsNested`: under every monitor that a
breakpoint opened lie its trap frame and what it interrupted, in the order of
nesting, so that a return uncovers the one below.  `TrapInProgress`: what processor, handler
and `_alltraps` have pushed so far.

`GuestMemoryComplete` needs to know which frames a table stands for, and nothing in a table
says so.  `EptInv` therefore says that the tables of the tree can be labelled with a level and
a number on that level (`Labelled`), so that entry `i` of table number `n` leads to
number `n * EPT_EACHTABLE_ENTRIES + i` one level below.  While the tree grows (`Growing`), no
label is used twice, every entry for frames below `gfn` is set and leads where
its number says, and so do the tables on the way down to `pt`; an entry that is absent is
therefore one whose label is still free.  When the loop ends the tree is complete up to
`LastGfn` (`Whole`), and a walk, level by level, is at the table whose number is the frame's
upper digits.  Half-built trees of earlier runs are other tables: labels are
given only to those below the current root.

### The disk image and the boot loader (`BootLoaderProofs`)

For every size of sector, page and memory, every list of arguments and every kernel file
that satisfy `BootDiskAssumption` and `BootLoaderAssumption`:

| theorem | statement |
|---|---|
| `ImageRight` | `Spec => []ImageAsAsked` |
| `KernelComplete` | `Spec => []KernelLoaded` |

`ImageInv`: after each argument the image is whole sectors, and there are starting
sectors for the files so far with which all that `ImageAsAsked` asks holds (`Arranged`); a
new file takes the sector at which the image ends, which is the one a skip before it named
(`Reached`).

`LoaderInv` follows `readseg` in memory and on the disk at once.  `Reading`: the
address and the sector number have advanced by the same number of sectors from the piece's
first.  `Part`: what lies below the address is loaded.  `LoadedTo`: the pieces read before,
the header among them, are untouched, because whole sectors are written and no two
pieces share one.  `Names`: the four bytes in the disk's registers are the sector number.
`GateOpens`: the A20 gate is open, or its byte is under way and the disk has not answered yet, so that
no store of `insl` or of the clearing loop is folded into low memory.  From the magic alone
`bootmain` concludes that sector 1 starts a kernel; the lemma `KernelFound`
shows from `ImageInv` that the whole file follows it.

### Model-checked only

- Liveness (`CallsComplete`, `BootEnds`, `GetcharReturns`, `BacktraceEnds`,
  `LoaderEnds`, `PrintsAsAsked`): out of the prover's reach.
- `StringsAsSpecified` and `PrintsAsAsked`: `StringOps` and `PrintFmt` are written
  with recursive operators, one turn of a C loop per turn of the recursion, which the
  prover cannot reason about.
- `BacktraceRight`: the table that is searched and the answers it is compared with are
  folds over a whole program, whose values for every program are again an induction over
  data.

## 5. Plan

Done: `PageMap`, its abstraction and its proofs; `BootMem`; `PageCheck`; `Cga`,
`Keyboard`, `ConsoleInput`, `LineInput`; `StabSearch` and `DebugInfo`; `Ept`,
`VmxRun` and `Trap`; `BootDisk` and `BootLoader`; `StringOps`, `PrintFmt` and `Lib`;
the proofs of section 4.  Left, in this order:

1. A proof of the loop of `stab_binsearch` on any sorted table, the first step towards
   `BacktraceRight` for every program.
2. The paging-structure caches that matter to `page_check`'s `kern_pgdir[0] = 0`.

## 6. Not modelled

`inc/*.h` beyond the macros named in the map (constants, layouts, one-instruction
assembly); `lpt_putc`, which nothing calls; `readline_hack`, which nothing sets;
character attributes; the text of `help` and `kerninfo`; the task state segment, which
a kernel without user mode does not use; the 64-bit half of `hvm/asm_vmop.S`, which a 32-bit
kernel does not call; the AMD `asm_vmrun_regs_32`, which nothing calls.  Text that is
only printed is left out everywhere.
