# Verification of the PR-IO drivers and device tree tools

The repository packages *PR-IO* for PYNQ: partially reconfigurable I/O regions whose
peripherals are swapped at run time by loading a partial bitstream and a device tree
overlay. Its own logic is in three places: Linux drivers for the peripherals, the device
tree compiler and library (dtc 1.4.4 with overlays), and a small Python flow. This
directory models them in TLA+, checks the models with TLC and proves the most important
facts with TLAPS.

Paths below are relative to the repository (`src/`);
`drivers/` stands for `PYNQ-PRIO/boards/ZCU104/prio_linux/linux_drivers/` and `dtc/` for
`PYNQ-PRIO/device_tree_overlays/dtc-1.4.4/`.

## 1. Inventory

| Component | State it keeps | Operations | What makes it correct |
|---|---|---|---|
| **UART, probe and remove** `drivers/uart/byu_uartlite.c` | global bitmap of line numbers under `bitmap_lock`, one `uart_driver` per device, global `console_port` | `ulite_get_id`, `ulite_probe`, `ulite_assign`, `ulite_release`, `ulite_remove`, `ulite_console_setup` | numbers unique and never leaked, drivers registered and unregistered once, console set up with a port |
| **UART, the port at work** same file | the port's transmit ring, `x_char`, ignore mask, `port->lock`; the UART's FIFOs and interrupt enable | `ulite_isr`, `ulite_receive`, `ulite_transmit`, `ulite_start_tx`, startup, shutdown, termios, `ulite_console_write` | nothing lost, repeated or reordered; output and input do not stall |
| **I2C transfers** `drivers/iic/i2c-byu.c` (copy of the vendor's `i2c-xiic.c`) | `tx_msg`, `rx_msg`, `nmsgs`, positions, `state`, `i2c->lock`; the controller's FIFOs and interrupt registers | `xiic_xfer`, `__xiic_start_xfer`, `xiic_isr`, `xiic_process` | success means the transfer happened, FIFO limits, every transfer ends, no access through a withdrawn message |
| **I2C probe, remove, PM** same file | endianness, clock counts | `xiic_i2c_probe`, remove, runtime PM | balanced clock, right byte order |
| **GPIO pins and interrupts** `drivers/byu_gpio/gpio-byu.c` | shadow registers and lock per channel; registers shared by the channels | set, set_multiple, dir_in, dir_out, mask, unmask, chained handler | no lost write, unmasked interrupts fire, the line drops |
| **GPIO probe, remove, PM** same file | clock counts, runtime PM state, registered chips | `xgpio_of_probe`, request, free, suspend, resume, remove | clock balanced and on when the device is active |
| **libfdt, sequential writer** `dtc/libfdt/fdt_sw.c` | one buffer, structure growing up, strings growing down | create, reserve map, begin/end node, property, finish, resize | a refused call changes nothing a reader sees, blocks never overlap |
| **libfdt, read-only** `dtc/libfdt/fdt.c`, `fdt_ro.c` | none: a blob that others change | walk over tags, paths, names, properties, phandles, reserve map | every way of finding a node agrees with the others |
| **libfdt, read-write** `dtc/libfdt/fdt_rw.c`, `fdt_wip.c`, `fdt_empty_tree.c` | three blocks of a flat tree in one buffer | splice, setprop, add/del/nop node, open_into, pack, move | the tree stays well formed, a call that fails changes nothing but the room left |
| **libfdt, overlays** `dtc/libfdt/fdt_overlay.c` | base tree and overlay | phandle shift, fixups, merge | an overlay is applied wholly or the blob is erased; references reach their targets |
| **dtc, live tree** `dtc/livetree.c`, `dtc/data.c` | tree of nodes with labels, properties and phandles, each with a deleted mark | build, merge, delete, phandle allocation, generated symbols and fixups, sort | the tree means what the source says |
| **dtc, checks** `dtc/checks.c` | status of each check; the tree, which three of them change | `run_check`, `process_checks`, fixups of references | prerequisites run first, references are filled before output |
| **dtc, input and output** `dtc/dtc-parser.y`, `flattree.c`, `dtc.c` | command line switches, the tree | the rules that build and merge, writing and reading blobs of five versions, `main` | a blob that is read back is the tree that was written |
| **Partial reconfiguration** `PYNQ-PRIO/boards/*/prio*/*.py` | decoupler, bitstream and overlay of a region | `pr_download` | region coupled only with a loaded bitstream |
| Vendor UART driver, command line tools, lexer, text formats, board data, notebooks, tests | | | left aside, see section 7 |

How they interact. The serial, I2C and GPIO cores call the drivers from process context;
interrupts call `ulite_isr`, `xiic_isr` (which wakes `xiic_process` in a thread) and the
chained `xgpio_irqhandler`. Within a driver the contexts share the structures named
above. Loading an overlay makes the kernel probe devices and removing it makes it remove
them, at any time and for several devices at once, which is why probe and remove are
modelled with their interleavings and failures. The overlay itself comes from dtc and is
applied by the kernel's copy of the algorithm in libfdt: `MCFdtOverlay` composes the two
models, dtc's and libfdt's, the way a region is loaded.

What is hard: steps of several contexts under several locks or none; edge-triggered
interrupts, status bits that are cleared late or toggled by a write; failing calls in the
middle of a probe; timeouts that race with late handlers. In the tools, which are
sequential: long sequences of legal calls, offsets and sizes that go stale when a block
moves, a step of several that fails, switches that change the order of passes. `PROJECT.json` lists each
hazard at its line with the properties that cover it, or why none does.

## 2. Plan

The order was: the drivers (`UartIds` with `IdPool`, `UartPort`, `I2cXfer`, `XGpio`,
`XGpioPm`), where steps of several contexts interleave; the writer `FdtSw` with its
promise `FdtStream`; the reader `FdtRo` and the editor `FdtRw` with the promise `FdtTree`;
overlays on top of them; dtc, whose output is what the overlays are made of; and, beside
each driver, its proofs. All of it is done.

What remains worth doing:

1. Probe and runtime PM of the I2C driver, in the shape of `XGpioPm`; the calls of runtime
   PM in the UART's probe and remove.
2. The same order for a blob under `fdt_overlay_apply`: `FdtOverlay` calls the functions
   `FdtEditProofs` proves about, on two blobs at once.

`PrioFlow` was dropped: `pr_download` is a straight line of calls into the PYNQ library
and the kernel, and neither is here.

## 3. Modules

* `IdPool` is what the allocator of line numbers promises: `Acquire` and `Release`.
* `UartIds` is probe and remove. Each device has a program counter `pc[d]`; an action is a
  section of `ulite_probe`, `ulite_assign` or `ulite_remove` between two points where
  other threads can be seen: `GetId` (one step, it runs under `bitmap_lock`),
  `RegisterDriver`, `GetResources`, `ClaimConsole`/`AddPort`/`CheckConsole`/`Unclaim` (the
  unlocked uses of `console_port` are separate steps), `Unregister`, `FailProbe`, and
  `Remove` .. `FinishRemove`. Every call that can fail may fail. `oops` is a thread that
  died on a NULL pointer; `Freed` a port that devres freed. `uart_add_one_port` and
  `uart_register_driver` are external.
* `UartPort` is one port at work. `isr`, `user` and `con` are the places of the handler,
  of the serial core and of the console; `lock` is `port->lock`; a step is one register
  access or one section under the lock. With `MayOops` the console only tries the lock
  (`oops_in_progress`, `byu_uartlite.c:482`) and writes without it when another has it:
  `locked` is its local of that name, `lockless` remembers that it happened. Characters are numbered, so that order and loss
  can be told. The UART Lite is external: two FIFOs, the enable bit, and an interrupt line
  whose rising edge is latched in `irq`.
* `I2cXfer` is a transfer. Message pointers are indices into `cur`, the caller's array, 0
  for NULL. `cpc` is the caller, `hpc` and `spc` are `xiic_process` and
  `__xiic_start_xfer`; the branches of `xiic_process` are actions in the order of the
  code, with the locals `isr`, `pend`, `clr` as variables. The caller and the handler's
  thread run on any CPUs. What `xiic_xfer` does without the lock is a step for each store:
  `tx_msg` and `nmsgs` before the transfer (`Busy`, `SetNum`), `tx_msg`, `rx_msg` and
  `nmsgs` after the timeout (`DropTx`, `DropRx`, `DropNum`). `raced` remembers that the
  handler was in its critical section (`Inside`) at one of these stores, or entered it
  between two of them (`Storing`). A pointer that is NULL or past the last message, or a
  position behind the end of a message, which makes `xiic_tx_space` or `xiic_rx_space`
  wrap, ends the handler in `oops` (`StartFault`, `ReadFault`, `FillFault`, `Finish`).
  A u8 has `Byte` values: the watermark is a u8 of the length (`StartRecv`), and `level - 1`
  written to RFD wraps at 0 (`Minus1`), of which the controller takes the low bits
  (`Watermark`); `Length` is the length ORed with STOP, where a length that does not fit
  in the low bits sets START or STOP, and `HwLengths` lets the controller do anything with
  what is none. The controller is external. Its behaviours that the driver does not
  determine are switches: `FastBus` (the bus moves between two register accesses),
  `MayNack`, `MayTimeOut` and `ToggleOnWrite` (the status register toggles).
  What the bus sees is `wire`, a sequence of bytes named by their message and their place
  in it, 0 for the address.
* `XGpio` is the pins and interrupts of one or two channels: registers and shadows are
  sets of pins. Operations of a thread are split at register accesses (`ReadState`,
  `WriteData`, `ReadDir`, `WriteTri`, ...); `xgpio_set` and `xgpio_set_multiple` are one
  action, with the set of pins to set and to clear. The handler takes no lock and is split
  in `Enter`, `ReadPins`, `Dispatch`, `Ack`.
* `XGpioPm` is the life of a GPIO device: the probe with every exit, consumers, the idle
  check of the runtime PM core (external), and removal, with the enable and prepare counts
  of the clock. A probe that fails without unregistering what it enabled goes to `unbind`:
  the driver core takes the driver away and frees its memory, after which the idle check
  (`Idle`) suspends the device without the driver's call, and while it does so the call
  may still find the clock or not. `Driven` (external) says that the driver is there for
  a consumer.
* `FdtStream` is what the sequential writer promises: the reserved regions and the tokens
  it accepted, in order. `FdtSw` is the writer over its memory, a function from positions
  to cells; a cell is a reserve entry, a tag with its fixed fields, a padded unit of a
  value or a character of a string. The variables of the header carry the names of the
  fields; `mapped` and `depth` are what the caller knows; `reply` is the last call and
  whether it was accepted. One action per function; `_fdt_grab_space` and
  `_fdt_find_add_string` are inlined as `Grab`, `Found` and `StringFits`, and keep the
  unsigned comparisons of the code. The abstraction (`ReservedNow`, `TokensNow`,
  `StringAt`) decodes the memory as a reader does.
* `FdtRo` is `fdt.c` and `fdt_ro.c` as operators over a blob: the fields of the header by
  name and a memory of cells. A tag with its fixed fields, two bytes of a name or a value, a
  reserve entry and a character of the strings are a cell each, so that names and values of
  odd length have padding. `StringlistContains` finds a last string that is not ended when
  the byte behind it is 0, as `memcmp` over the terminator does. The loops over `fdt_next_tag` are searches among the cells
  that are tags; `StructureSound` of `FdtEdit`, which walks with `fdt_next_tag` itself,
  says that the two agree.
* `FdtRw` is `fdt_rw.c`, `fdt_wip.c` and `fdt_empty_tree.c`: each function maps a blob and
  its arguments to a record of the error and the blob it leaves, which on an error need
  not be the one it was given. `Splice` is `_fdt_splice`; `Guarded` is the header check
  that each of them starts with, `AndThen` the early return. `EmptyTree` makes the calls of
  the sequential writer one by one: without room for all of them the buffer keeps what
  those before wrote, with the magic of an unfinished tree, and `fdt_check_header` accepts
  it as soon as it has a begin tag (`fdt.c:66`).
* `FdtTree` is what the read-write functions promise: a list of nodes with their depths,
  names and properties, the reserved regions, and calls that change one of them or fail
  and change nothing. It knows no blocks, offsets or strings. The exception is
  `fdt_create_empty_tree` without room (`Emptied`): what the buffer held is lost, and a
  reader finds nothing or a root that was not ended.
* `FdtEdit` is a caller of the read-write functions who uses them in any order on one
  buffer, at offsets of nodes and at wrong ones, with sizes that fit and that do not.
  `content` is the promise, `reply` the last call with its error.
* `FdtOverlay` is `fdt_overlay_apply`, called for one overlay after the other. Its four
  passes (shift the overlay's phandles, its local references, its open references, merge)
  are steps `Adjust`, `Local`, `Fixup`, `MergeAll`; each may fail, and then the
  blob is erased. The parameters `References` and `Renumbering` are what the sources say.
* `LiveTree` is `livetree.c` and `data.c`: a node is a record with its labels, properties
  and children, all with the mark `dead` that dtc sets instead of removing. `Checks` is
  `checks.c`: the table of checks, `run_check` with its prerequisites, and the checks
  themselves, three of which fill references or phandles. `FlatTree` is `flattree.c`:
  `dt_to_blob` for versions 1, 2, 3, 16 and 17 (a header of version 1 ends before
  `boot_cpuid_phys`, and a reader finds the zeros behind it), and `dt_from_blob`. `DtcMain` is the
  command: what `main` does between parsing and writing. `Dtc` is a run of it: the parser
  takes the definitions of a source one by one (`DefineRoot`, `Define`, `Delete`, `NotFound`),
  then come `Check`, `Generate` (symbols and fixups), `Write`, and `Reread`, the second command
  on what the first wrote. `Crash` is the NULL name of a generated node, see section 4.
* `MCFdtSw`, `MCFdtEdit`, `MCUartIds`, `MCUartPort`, `MCI2cXfer`, `MCXGpio`, `MCXGpioPm` and
  `MCDtc` define the instances. `MCFdtOverlay` composes: its bases and overlays are
  sources, compiled by `DtcMain` with `-@` and `/plugin/`.
* `UartIdsProofs`, `UartPortProofs`, `XGpioProofs`, `XGpioPmProofs`, `I2cXferProofs`,
  `FdtSwProofs`, `FdtEditProofs` and `FdtTreeProofs` (which builds on `FdtEditProofs`) hold
  the theorems.

Operators marked `mutant` are erroneous variants of the definition that follows them; no
specification uses them. Each shows that a property can fail: `PROJECT.json` names, for
every property of a passing run, the variant that violates it.

## 4. Runs

| Run | Instance | What it shows |
|---|---|---|
| `UartIds` | 3 devices, 3 numbers, 2 of them aliases (one of an absent device), console on number 0 | `UniqueIds`, `NoLeakedIds`, `ConflictOnlyInRemove`, and the refinement `ImplementsIdPool` |
| `UartLines` | FIFOs of 2, 2 characters out and 3 in, one console line of 2, in an oops or not, XON/XOFF, flow control, termios, stop_rx | `NoTxLoss`, `RxInOrder` |
| `UartDrain` | FIFOs of 2, 4 characters out, 3 in, flow control, close and reopen, no console | `TxDrains`, `RxDrains` |
| `I2cXfer` | FIFO of 3, a u8 of 6 values; a probe of an address and a write longer than the FIFO, a register read longer than the FIFO, a message after a read; a slave that may refuse, lost arbitration, callers that time out and call again on another CPU | `DoneMeansSent`, `DoneMeansRead`, `ErrorMeansFault`, `NoBadAccess`, `FifoFits`, `TransferEnds` |
| `GpioIrq` | 1 channel, 2 pins that rise and fall, 2 threads | `LineDrops`, `EdgeServed` |
| `GpioDual` | 2 channels, one thread that masks and unmasks | that `UnmaskedFires` is violated: masking a pin of one channel turns off the other |
| `GpioTurns` | 2 channels of 2 pins, 2 threads; all operations on channel 1, interrupts of both | `NoLostWrites` |
| `GpioPm` | one or two channels of 2 pins, 3 probes, any call failing | `ClockBalanced`, `ClockFollowsStatus` |
| `FdtSw` | a buffer of up to 11 cells, 8 after the header and the end of the reserve map; two names, one the tail of the other; values of 0 and 1 cells | `BlocksFit`, `BlocksKept`, and the refinement `ImplementsStream` |
| `FdtEdit` | buffers of 2, 4, 5, 6, 12 and 16 cells, up to 4 nodes, two names and two property names, three blobs to start from: one of version 17, one of version 16, one with its blocks in another order | `BlocksApart`, `StructureSound`, `ReadsAgree`, and the refinement `ImplementsTree` |
| `FdtOverlay` | 7 bases: low and high phandles with three sizes of room, and one without symbols; 8 overlays in every order | `WholeOrErased`, `ReferencesResolve`, `PhandlesUnique` |
| `Dtc` | sources of up to 4 definitions, 5 ways to call dtc over versions 1, 3, 16 and 17, 2 ways to call it on its own output (versions 17 and 2) | `SourceMeaning`, `ReferencesFilled`, `FixupsExact`, `RoundTrip` |

Bounds. Three devices and one free number make a probe find no number, find it freed, and
find it while its owner is still being removed. A FIFO of 2 (UART) is full, half full and
empty; a FIFO of 3 (I2C) holds an address and a byte and leaves the one entry the driver
does not use, and messages of more than 3 bytes need refilling and a second watermark
(the code compares against the depth only, never against 16). The lengths of the run fit
in its u8; what wraps, namely 0 at the end of a read, does so in every run, and longer
lengths are left to the theorems (section 5), since the promises about results leave them
out (`Undisturbed`). Two pins distinguish a
pin from its neighbour; two threads on one lock are enough for a lost update. Three
probes of a device let what one run leaves behind meet two later ones. In `FdtSw` eight cells hold a
finished root with two properties that share a string, or two nodes, and every buffer
below that size refuses some call; a buffer grows at any time, to any size, and is used
again with what it held before still in memory; a buffer between the header and its
aligned size is accepted by `fdt_create` and refuses every entry. `GpioTurns` uses
symmetry of pins and of threads, which is sound as it checks invariants only.
`FdtEdit` identifies states with the same blob (`VIEW`): what a call does depends on
nothing else, and `content` is a function of the blob as long as `ImplementsTree` holds.
Sixteen cells hold a root with two nodes or with a property and a node, so that a splice
moves a later node and a later block; twelve are the size of the largest source, and six
refuse every move. An empty tree needs all six; from the buffers of five and four cells it
leaves a root that was not ended, and from that of two nothing. In `FdtOverlay` a word is 16 values, so that phandles of 11 run over
when an overlay is added to them, and the rooms of 2, 14 and 60 cells make the first
write, a later one, or none fail. In `Dtc` four definitions are a root and three that
change, delete, revive, rename or refer to what it defined.

Deadlock is checked except where the system really may stop: a port with nothing more to
send, devices that stay bound or dead (`oops`), an I2C handler that died with the lock, a bounded
number of probes, no overlay
left to apply, a source that was compiled and read again or that had an error.

Fairness. `UartPort`: an edge is delivered and its handler goes on (strong fairness, since
the lock may be taken by others in between: a spin lock that is released for ever again is
obtained); calls of the serial core and of the console go on; the UART sends. A user need
not write, close or open. `I2cXfer`: the threads run, the interrupt is delivered, the
bus makes progress; a caller need not call. `XGpio`: an interrupt on the line is served,
an operation that was begun is finished. Nobody is assumed to mask, unmask or move a pin.

What the code does beyond what the runs above ask, met while modelling:

* `xgpio_irq_mask` writes `IPIER & bit` (`gpio-byu.c:306`): on a block of two channels masking
  the last pin of one disables the other. `GpioDual` shows it. Also, the read-modify-write
  of IPIER is under the lock of one channel only (`:344`), so that two channels unmasked at
  once can lose one of them.
* `ulite_console_write` reads the status with the interrupt disabled and drains the FIFO;
  the edge that the user's output waits for is gone (`byu_uartlite.c:505`). `TxDrains`
  fails on `UartPort` with a console line. In an oops it writes without the lock, so that
  the TXFULL which the holder of the lock read, or its own, may be stale and a character
  is lost; `NoTxLoss` says that nothing worse happens.
* `xiic_xfer` stores `tx_msg`, `rx_msg` and `nmsgs` without the lock, before a transfer and
  after a timeout (`i2c-byu.c:705`); a handler that runs between two of these stores follows
  NULL, or takes the position of one message for another. `I2cXfer` reaches `oops` in this way,
  and `NoBadAccess` says that it is the only one. It is not stated as a violated property,
  since no line of the repository promises more than "Mutual exclusion".
* When a read is complete and another message follows, `xiic_process` collects RX_FULL and TX_ERR
  in `clr` ("also clear TX error if there (RX complete)", `i2c-byu.c:428`), calls
  `__xiic_start_xfer`, which clears both in the status register to begin the next message, and
  writes `clr` to the register at `out:` (`:504`). A 1 written there toggles, so the write sets
  them again; the handler runs once more, takes the TX error for a refusal and fails a
  transfer the slave did not refuse. The other way round, the refused address of the next message
  may be taken for the end of the read, and the transfer ends in success. `DoneMeansSent`
  and `ErrorMeansFault` therefore speak of transfers with reads as last messages only
  (`ReadsLast`).
* A read of 0 bytes, or of 256 and more, is not a length that the register holds
  (`i2c-byu.c:566`); nothing is promised of its result.
* With a bus that is faster than the driver's stores, the interrupts cleared when a message
  is armed (`i2c-byu.c:603`) may be those of its own end, and the transfer waits for its
  timeout: `TransferEnds` holds with `FastBus` off.
* A probe that finds no memory for the second channel returns with runtime PM enabled and
  the clock on (`gpio-byu.c:695`); and the exit `err_pm_put` turns the clock off without asking
  whether runtime PM has done so (`:759`), which may take the count below zero.
  `ClockFollowsStatus` ends at `pm_runtime_disable` and does not cover this call.
* `console_port` is read and written without a lock by every probe (`byu_uartlite.c:630`,
  `:645`), so that of two devices probed at once the one of the command line can find it
  NULL in its console setup; the model has these interleavings and lets such a setup end
  in any way.
* `fdt_resize` copies the header with the reserve map and the strings only (`fdt_sw.c:117`):
  in another buffer the structure block is lost, and in a smaller one the strings overwrite
  it. The callers in `tests/sw_tree1.c` grow in place, and so does the model's.
* `overlay_merge` writes the properties of a fragment over those of the target, its
  `phandle` too (`fdt_overlay.c:557`): references of the base to a node whose phandle an
  overlay replaces are stale. `ReferencesResolve` leaves out what `Renumbering` names.
* `get_node_by_path` compares a component of a path with as many characters of a name
  (`livetree.c:482`), so that `/a/c` is found below a node `ab`.
* A blob of a version below 16 holds full paths, which nodes generated by dtc do not have:
  `-@` with `-V 3` ends in `strlen(NULL)` (`flattree.c:263`).
* `error = error || run_check(...)` ends at the first failing check (`checks.c:832`): with `-f`
  the later ones do not run, and they include those that fill references.
  `ReferencesFilled` speaks of the references whose check passed.
* `check_ranges_format` divides by the size of an entry, which is 0 when both cell counts are
  (`checks.c:674`); names are checked of deleted properties too, and a label of a deleted
  node still makes `any_label_tree` generate symbols.
* A reserved region of size 0 ends the list for every reader; `fdt_add_mem_rsv` takes it.

Conditions stated in the properties, where the code promises less than one might expect:
`UniqueIds` needs `RequestsAreAliases` (a `port-number` that is no alias is not marked in
the bitmap); `NoTxLoss` is checked without opens (the reset of the FIFOs at `:290` may
discard output of the console), and after a write without the lock it promises order and no
repetition, not completeness; the promises of `I2cXfer` about results need `Undisturbed`
(the handler did not run between two unlocked stores, reads have a length the register
holds), and two of them `ReadsLast`; `EdgeServed` holds as long as no input moves during the
handler, which leaves out an edge between the read at `gpio-byu.c:414` and the acknowledgement
at `:422`; `ClockBalanced` holds as long as no probe failed or those that failed left no
chip behind; `ClockFollowsStatus` speaks of the time from `pm_runtime_enable` to
`pm_runtime_disable`, or until the driver leaves the device.

## 5. Proofs

Checked by TLAPS for all values of the constants that satisfy their assumptions.

`UartIdsProofs`
* `TypeCorrect`. Inductive with `IdKnown`: a device that is past `ulite_get_id` has a
  number.
* `UniqueIdsHolds`, under `RequestsAreAliases`. `UniqueIds` alone is not inductive: two
  devices stay apart because a held number is marked in the bitmap or is the holder's own
  alias, and because an alias is never handed out to anybody else (`PoolInv`).
* `NoLeakedIdsHolds`: each failing exit clears the bit of the number it held.
* `ConflictOnlyInRemoveHolds`: a minor in use belongs to a device between registration and
  unregistration, and only in `cleared` and `dropped` is the number already given back.
* `PoolRefinement`: each action is a step of `IdPool` on `Holder`, or a stutter.

`XGpioProofs`
* `TypeCorrect`, and `NoLostWritesHolds` for any number of pins and threads. The invariant
  is `TypeOK /\ LockHeld /\ Pending /\ NoLostWrites`: a thread between a read and its
  write holds the lock of its channel, and what it carries in `temp` is the shadow as it
  is now with its own bits changed.

`XGpioPmProofs`
* `TypeCorrect`, `ClockFollows` and `ClockIsBalanced`, whatever fails in a probe and whichever
  of its exits is taken, the return at `:695` included; what is not covered is the
  `clk_disable` at `:759`, behind `pm_runtime_disable`. The usage count
  of runtime PM is the number of pins in use, less one for every probe that put the device.

`UartPortProofs`, for FIFOs of any depth and any number of characters and lines
* `TypeCorrect`, `NoTxLossHolds`, `RxInOrderHolds`. The status that a holder of `port->lock` read
  stays true while it holds the lock: there is still room in the TX FIFO, and the RX FIFO
  still has the character, since only the hardware moves them, and only towards more room
  and more characters. A console without the lock can only make the
  room less; `NoTxLoss` is therefore an invariant in two parts, order and no repetition
  whatever the console does, and completeness as long as it has not written without the
  lock. The characters sent are then a prefix, split between the ring, the FIFO
  and the line. The two order properties need that no open resets the FIFOs, which
  `ulite_startup` does without the lock while a line of the console may be in them.

`I2cXferProofs`, for FIFOs of any depth, a u8 of any size, messages of any length, any
number of CPUs and every interleaving, timeouts and a fast bus included
* `TypeCorrect` and `FifoFitsHolds`. The invariant is `IInv`: its part `Locked` says which of
  caller and handler can be where, and `Queues` that the FIFOs are in their limits, with a
  place left in the TX FIFO when the length of a read is to follow its address. Neither
  depends on the lengths or on what the caller stores without the lock.
* `NoBadAccessHolds`. The invariant added is `PInv`: as long as the handler has not run between
  two unlocked stores, `Safe` holds. Between transfers all pointers are NULL (`AtRest`);
  while one works (`AtWork`), `nmsgs` counts the messages that are left from `tx_msg` on and
  no position lies behind the end of its message, or everything was given back; and what the
  handler has decided to follow is there (`Following`). All three are needed, since a handler
  that comes late, after the transfer was given up or ended, must find nothing to follow.
* `ByteForByte`, `DoneMeansSentHolds`, `DoneMeansReadHolds` and `ErrorMeansFaultHolds`, with
  timeouts and on any number of CPUs, but with `FastBus` off: the controller and the bus do not
  move while the driver writes its registers. The states of which they speak are those of
  `Plain`, `Undisturbed /\ ReadsLast`: the handler has not run between two unlocked
  stores, and the transfer reads 1 to 255 bytes at a time with nothing after a read (section 4
  says why the rest is left out). `DoneMeansRead` is checked without `ReadsLast` and proved
  with it. The invariant added to the two above is `OInv`. What is on the wire with what
  waits in the TX FIFO behind it is the transfer up to where the driver is (`Sent`); what
  arrived is, in order, in the buffer or in the RX FIFO (`Arrived`); the watermark is the
  one of what is left to read; and the status bits and the bits to clear say which of the
  two, end of a read or refusal, is yet to be handled (`OnBus`, `Signals`, `Failed`). Without
  the last three a refused byte could be taken for the end of a read. A transfer that was
  given up satisfies nothing of that: its bytes may still move, and the handler may still come for
  them. `Results` alone survives there, and the reset of the next `Start` gives the rest
  (`StartOrder`). `raced` never falls and only a new call changes `cur`, so a state of which
  the properties speak comes from one of which they spoke, or from a call
  (`SpokeBefore`).

`FdtSwProofs`, for any size of the buffer and of the header, any names up to the length of
header and reserve map, and any values
* `TypeCorrect`, `BlocksFitHolds`, `BlocksKeptHolds`. `BlocksFit` alone is not inductive:
  the room for a reserve entry is checked without the strings, and the unsigned sums of
  `_fdt_grab_space` and `_fdt_find_add_string` are right only while nothing is negative.
  `Shape` adds what the order of calls gives: no structure and no strings before the
  reserve map is finished, and then a map of at least one entry. `GrabStep` is the step
  common to nodes and properties; from it, with the name in memory or just added, follow
  both the invariant and `Kept`, the action under `BlocksKept`.
* `StreamRefinement`: `FdtSw` implements `FdtStream`. The memory is decoded by three recursions,
  over the characters of a string, the tokens of the structure and the walk of `fdt_finish`.
  Each is a function over the positions of the buffer, so what it is (`StrRestIs`,
  `TokensRestIs`, `PropsFromIs`) and what it yields (`Assembled`, `PropsAre`) follow from a
  least position without it (`Upwards`), and not from a theorem of induction.
  The invariant added to the one above is `RInv`. It says `Holds`: there are places, from the
  beginning of the structure to its end, each with a begin, end or property tag and each
  reached from the one before by `fdt_next_tag`; behind a property lie its value cells, and
  its name is a string among those written (`Named`). It says too that the reserve map has
  its terminator when the caller thinks so. It is needed because the refinement is about what a
  reader finds: that the cells of the tokens stay (`BlocksKept`) says nothing of the names,
  which move with the end of the buffer. Three lemmas carry the rest: what a call leaves
  alone is read as before (`HoldsKept`, also for `fdt_resize` and for the name that a
  refused property leaves behind); cells at the end of the structure that say a call add
  that call to what is read (`Extended`, `PropSays` with a name found as the tail of another
  or just added); and after `fdt_finish` each token is alike, since the walk finds the
  properties and no value, and what it adds to the offset of a name is what the strings
  moved (`FinishRefines`). Each call is then a step of `FdtStream`, and `fdt_resize` a stutter.

`FdtEditProofs`, for buffers of any size, any names without NUL, any values and indexes, and any
number of calls
* `TypeCorrect`, `BlocksApartHolds`. The property is not inductive alone: a
  splice is right only where an element begins and ends, and what `fdt_next_tag` finds at one
  offset says nothing of a move. The invariant `Fine` therefore describes the structure cell
  by cell: it is a `Run`, elements one behind the other (`Elem`: a tag with the cells of its name
  or value), with END behind it, the names of its properties among the strings (`Named`), the
  entries of the reserve map before its terminator, and the three blocks apart (`Holds`).
  A run can be cut between two elements, joined to another and moved (`RunCut`, `RunJoin`,
  `RunMoved`); each function does one of a few things to it:
  `DeleteRun`, `InsertRun`, `SpliceThen` (cells are replaced by more or fewer), `InPlace` (cells are
  written again), `FindAddStringLemma` and `PackBlocksLemma`, in which no block moves over
  one that is still to be moved. The lemmas `...Fine`, one for each function, say that it leaves a blob
  that is `Fine`, whatever error it returns; `SoundFine` and `HoldsSound` say that `Fine` is what
  `Apart` and `Sound` say.
* What is assumed of the caller: his strings end at their first NUL (`FdtEditAssumption`), and the
  blobs he starts from are in order (`SourcesAssumption`, checked by TLC for those of the run:
  they come from dtc or `fdt_finish`, of version 16 or 17, with the blocks in any order, and their
  nodes nest under one root). Nothing is assumed of sizes, and the lemmas hold for every
  offset, stale or wrong.

`FdtTreeProofs`, for the same buffers, names, values and calls
* `StructureSoundHolds` and `TreeRefinement`: `FdtEdit` implements `FdtTree`. The invariant is
  `TreeInv`: the blob holds one tree (`Whole`, that is `Fine` with `Shaped`, the nodes nest
  under one root with properties before subnodes, and `InReach`, no node lies behind END), and
  `content` is what a reader finds in it. `Fine` alone is not enough: the functions stay inside
  the structure even when nodes do not balance, but what they do to the tree then has no meaning.
* The reader's tree is a sequence taken from a set: the cells with BEGIN_NODE in order, for each the
  cells of its properties in order (`InTurn`). No recursion is needed: depth is the number of
  nodes opened less those closed before a cell (`Net`), which adds up over adjacent spans
  (`NetJoin`) and moves with the cells (`NetMoved`). These lemmas, and what a reader finds across an edit
  (`EditReads`, `EditInNodes`), stand at the end of `FdtEditProofs`.
* Every call is an edit that replaces the cells `a .. c - 1` by `a .. z - 1` and moves what lies
  behind (`EditOf`), and the cells outside are read as before (`EditReads`, `EditNodes`).
  There are three shapes of it. An edit within one node opens and closes none
  (`EditIn`): all other nodes read the same, and of this one the properties before and behind
  the edit (`EditProps`), from which follow properties set, added, removed and overwritten,
  and names. A subtree removed spans to the END_NODE that closes it, the first cell where the
  net falls below (`CloseExists`, `CloseOne`), so the nodes that go are those with a greater
  depth right behind it (`GoneTree`). A subnode is put behind the last property of its
  parent, hence first among the subnodes (`NewTreeIs`).
  Blobs that are opened, packed or get another reserve map keep their cells at other
  places (`MovedReads`, `RepackedReads`, `RsvEditedReads`).
* `fdt_create_empty_tree` is the exception to "fails and changes nothing": `EmptyTreeIs`
  follows its calls one by one, and where they end early a reader finds nothing or the root
  (`Emptied` of `FdtTree`).
* The lemmas `...Does` state, for each function, every outcome it has: the error with what is then
  left (`fdt_setprop` without room leaves a string behind, which no reader sees), or what
  the tree becomes. The lemmas `...Steps` turn them into steps of `FdtTree`: each error is one
  the tree allows for this call, NOSPACE only for a call that grows.

Only model-checked: `ReadsAgree`, which computes paths and walks by recursion over the tree, of any
depth, and so needs induction over data; all properties of `FdtOverlay` and `Dtc`, which
decode a tree by recursive operators, beyond the prover's reach; and all liveness properties
(the prover does not handle fairness).

## 6. Abstractions

* A register access, or a section under the one lock that all its users take, is a step.
  Reads and writes of device registers are not reordered.
* I2C: `I2C_M_NOSTART` and the failure of `pm_runtime_get_sync` are left out;
  `xiic_getreg32` is taken from `i2c-xiic.c`, since in `i2c-byu.c` its little-endian branch
  is commented out and yields an uninitialised value. A message that the caller freed is
  still read through the local `msg` as it was; a fault is a `tx_msg` or `rx_msg` that was
  cleared or points past the messages, or a position of another message.
* UART: parity, frame and overrun bits, `tx_empty`, the early console and the timeout of
  `ulite_console_wait_tx` are left out: the UART sends within the second it waits.
* GPIO: default values of the device tree, `xgpio_get`, `xgpio_xlate` and `xgpio_to_irq`
  change no state that the properties speak about. A dual device whose second chip is
  still registered after removal is not probed again.
* libfdt: padding is counted in whole cells in `FdtSw` (`FDT_ALIGN` of the header is kept as
  the difference of `HeaderSize` and `RsvOffset`); in `FdtRo` and `FdtRw` names and values are
  padded to units of two bytes instead of four. Calls on a buffer with
  another magic number return an error and are no step. The caller of the sequential
  writer keeps to the documented order of calls: the code does not check it, apart from
  entries after the first node. `fdt_setprop_inplace_namelen_partial` and
  `fdt_add_subnode_namelen` are called with whole names.
* Overlays: offsets in `__fixups__` have one digit, a phandle is below 15.
* dtc: a character, a byte and a numeral are numbers; values are bytes and cells have two.
  The checks are run for what they change and whether they fail, not for their messages.
  A source arrives as the sequence of definitions the parser's rules see.

## 7. Not modelled

Drivers: probe, remove and PM of the I2C driver, whose register accesses detect the byte
order and whose clock calls have the shape of those in `XGpioPm`; runtime PM in probe and
remove of the UART; system sleep of the drivers; the vendor's `uartlite.c`, from which the
UART driver was derived.

Tools: `fdt_addresses.c` and `fdt_strerror.c`, which read one number or one table; the lexer,
expressions, `/include/` and `/incbin/`; text and assembler output and input from a file system
(`treesource.c`, the assembler half of `flattree.c`, `fstree.c`), which are layout; `srcpos.c` and
`util.c`; the command line tools around libfdt, which have no state of their own.

Everything else: the Python flow, which is a straight line of calls to code outside the
repository; hardware descriptions, bitstreams, kernel patches, notebooks, installers.
