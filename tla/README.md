# Formal models of the STM32H7 board support code and its host tools

The repository builds a bare-metal image for an STM32H743 board (`bsp/`, `src/`)
and two host tools, `tools/genconfig` and `tools/mkimage`. There are no tests;
comments and the top-level README are the only statements of intent. This
directory holds TLA+ models of the parts with behaviour worth checking, the TLC
configurations that check them, and TLAPS proofs. `hal/`, `cmsis/` and
`include/zephyr/` are third-party code and appear only where the modelled paths
run through them.

## The system

| Part | State | Operations | Interaction |
|---|---|---|---|
| TTY transmit path (`bsp_tty.c`) | ring buffer, read and write pointer, DMA stream registers | `write`, `start_tx`, completion interrupt | thread and interrupt both run `start_tx`; the DMA stream runs beside them |
| Module registry (`bsp_module.h`, Zephyr's slist) | linked list, state and descriptor of each module | append, remove, prepare / setup / desetup all | calls into every driver; driven by `bsp_init` |
| LCD (`bsp_lcd.c`, LTDC HAL) | handle lock, state, error code, interrupt registers | `bsp_lcd_init`, LTDC interrupt, line event callback | interrupt preempts the set-up and re-arms itself |
| TTY set-up (`bsp_tty.c`) | descriptor, handles, cached interrupt line | prepare, setup with its failing steps | switches clocks through the peripheral table; the registry calls it |
| Peripheral table (`bsp_utils.c`) | constant table, RCC clock bits | look-up, clock switch | used by TTY and LCD set-up |
| Time base (`stm32h7xx_hal.c`) | tick counter and frequency, SysTick period | tick interrupt, `HAL_Delay`, change of frequency and clock, suspend | used by start-up, SDRAM and `main` |
| SDRAM (`bsp_sdram.c`, SDRAM HAL) | handle state, Msp flag, the chip's own progress | init protocol, memory test | must precede everything that uses heap or module data |
| Board start-up (`bsp.c`, `src/`, start-up code, linker script) | progress of the boot, contents of the two memories, data cache | `Reset_Handler`, `bsp_init`, `main`, reset | calls all of the above in a fixed order |
| Heap and system calls (`syscall.c`) | heap end | `_sbrk`, `_write` | used by `calloc` in the drivers, `printf` |
| Debug, LED, fault handlers | registers | set-up, panic print | none |
| Dictionary (`genconfig/dict.c`) | three parallel arrays, size, count | new, get, set, unset | used by `genconfig.c` |
| Template processing (`genconfig.c`) | current line | replace variables, `#cmakedefine` | reads the dictionary |
| Image builder (`mkimage/`) | configuration, DCD array, layout, output file | parse a line, lay out, write, fill in header, list | reads configuration and data file, writes the image |

What is hard: a ring buffer and device registers shared by thread, interrupt
and DMA without a lock (TTY); a HAL lock that the interrupt releases whoever
holds it, and read-modify-write of an interrupt mask from two contexts (LCD); a
life cycle with callbacks that fail half way (registry); an insertion loop that
ends only if a counter is right after any history, growth and allocation
failures (dictionary); packing of aligned parts into holes in an order left
open by `qsort` (image builder); a counter that wraps under a polling loop
(time base); objects in two memories that become usable at different times,
with an interrupt and a reset in between (start-up); a set-up that gives up half
way and runs again over its own leftovers and a cached interrupt number (TTY
set-up); text offsets that are counted twice (templates).

`PROJECT.json` lists every part (`components`), the source lines behind each
definition (`map`) and what can go wrong where (`hazards`).

## Modules

| Module | Models | Abstract specification | Proofs |
|---|---|---|---|
| `TtyTx` | TTY transmit path | byte accounting inside the module | `TtyTxProofs` |
| `BspModule` | module list and loops | `ModuleRegistry` | `BspModuleProofs` |
| `Dict` | dictionary | `DictMap` | `GenconfigProofs` |
| `MkImage` | image builder | none: the promise is the layout invariants | `MkImageProofs` |
| `Lcd` | LCD set-up and line events | none | `LcdProofs` |
| `HalTick` | time base | none | `HalTickProofs` |
| `Boot` | reset to `main`; composes `HalTick` and `BspModule` with memories, SDRAM and heap | none | `BootProofs` |
| `BspUtils`, `PeriphTable` | look-up and clock switch; the table of the STM32H743 | none | in `TtySetupProofs` |
| `TtySetup` | TTY set-up, over `BspUtils` | none | `TtySetupProofs` |
| `Genconfig` | template processing | `Result`, what the references of a piece should become | `GenconfigProofs` |

`MC*` modules give the constants values; each `.cfg` is one run. Operators whose
comment begins with "Mutant" or "A seeded fault" are deliberate defects: put in the place of the
definition that follows them, each makes TLC report the property it is listed
with in `PROJECT.json`. They are not part of any specification.

### TtyTx

`start_tx` is split at every access to state that another context can change;
both contexts run the same steps (`c` is `"thread"` or `"isr"`). Pointers are
offsets into the ring, a byte is its number in the order of writing. `CLEAR_BIT`
and `SET_BIT` on CR are a load and a store that carry TCIE along. The interrupt
runs when TCIF and TCIE are set and the NVIC line is enabled, and preempts the
thread; the handler clears TCIF and TCIE and calls `start_tx`. Its error
branches are left out because `init_dma` leaves those interrupts off. The DMA
stream is external: it moves a byte per step, ignores writes to NDTR and M0AR
while enabled, and raises TCIF at the end and when it is stopped.

The code never checks for room or for a running transfer, so two clients are
modelled: `Polite` waits until the transmitter is quiet and the bytes fit; the
other calls `write` at any time. `Polite` is an assumption about the caller and
not something the driver enforces.

* `tty_polite` (ring of 4, 9 bytes, so that both pointers wrap twice):
  written bytes are transmitted, programmed or pending (`Accounted`), and the
  two contexts never meet (`NoMeeting`).
* `tty_free` (ring of 3, 4 bytes, every interleaving): the copy loop is a
  critical section (`CopyExclusive`), nobody waits for EN of a stream that was
  started with nothing to move (`WaitEnds`) and `write` returns for any client (`WriteReturns`).
  The interrupt may start an empty block, when it cuts in right in front of the
  thread's wrap of the read pointer; `WaitEnds` says that nobody waits for that one.
* `tty_source` shows what the code does not do; see Findings.

Fairness: weak fairness of the thread inside `write`, of the interrupt and of
the stream. The processor executes and the UART shifts bytes out; nobody is
obliged to call `write`. Deadlock checking is off: the system rests when the
byte bound is used up.

### BspModule and ModuleRegistry

A module is its own list node, so the list is `head`, `tail` and the function
`next`. Each loop takes one step per element. Callbacks may fail: a failing
`prepare` makes the module GOING, a failing `setup` may have enabled the
hardware before (`armed`), because `init_dma` enables interrupt lines before
its last failing step. `Disciplined` says that, as in `bsp_init`, `prepare_all`
runs between an append and `setup_all`; `Retries` that a caller believes the
result of `bsp_module_append`. `bsp_module_find` only reads and is left out. A
module is in the list if it is in every set of pointers that holds `head` and is
closed under `next` (`Met`), which needs no bound on the walk and is defined on a
list with a cycle too.

`ModuleRegistry` is the promise: a sequence of distinct modules, LIVE only from
COMING, removal only while not LIVE. `module_list` (three modules, two like TTY
and LCD, one without `prepare`) checks that the pointers always spell such a
sequence (`WellFormed`), that `BspModule` implements the registry with the
sequence read off the pointers (`ImplementsRegistry`), that a LIVE module is
never lost from the list, that no driver is set up without a descriptor, and
that every loop ends (weak fairness of the loop body only). Three modules make
head, middle and tail removals distinct.

### Dict and DictMap

Hashing is a constant function that may collide; slots and both searches are as
in the code: linear search from 0 with hash before string, insertion at the
first free slot from `d->n`, wrapping. Every allocation may fail. `xstrdup`
failing leaves a slot counted without a key (`dropped`). The callocs of
`dictionary_new`, which nobody checks, and those of `mem_double` leave NULL
pointers behind (`lost`): `dictionary_set` stores the results of all three
`mem_double` calls before it looks at them (`dict.c:235-240`), so a failed growth
loses the arrays and with them the whole map. What a call does then depends on
which pointer is NULL: it may still return, or it dereferences NULL and the
program ends (`NullDereference`, the one reason for which the run may stop).

`DictMap` is a map as a set of pairs, with a flag `usable`: a dictionary that was
not allocated, or could not grow, is empty and never usable again. The map is
read off the arrays while all of them exist and is empty afterwards.

`dict_map` uses three keys, two of which collide, and an initial size of 1, so
that arrays grow twice and a fourth entry is reached through a failed `xstrdup`.
As long as all arrays exist the count is exact up to the failures (`Consistent`)
and the search for a free slot has one to find (`RoomToInsert`); without a failed
`xstrdup` a set that returned 0 can be read back, and no set returns 0 with an
array missing (`SetStores`); the arrays implement the map (`ImplementsMap`), which
is lost as a whole or not at all.

### MkImage

One action per configuration command, one per word pushed to the DCD array, one
per part that `s32_compute_dyn_offsets` places, then writing the file and
filling in the header, with the exits on errors. A file is its size. A DCD word
is its kind and, for a command, its length field. `qsort` leaves parts without
an offset in any order, so any of them may be placed next. `#define`s are
constants: `image_layout` uses small ones with the same proportions (the hole
between IVT and QSPI parameters takes a short DCD and not a long one; a few
commands exceed the maximum) and five lines, enough for two BOOT_FROM lines
with DCD, HSE and ERR051257 together.

`image_layout` checks that parts do not overlap (`PartsDisjoint`), that the
application header follows all of them (`AppBehindParts`), that computed
offsets are aligned and the code follows its header (`OffsetsAligned`), that
the DCD array has room for each word (`DcdAllocated`), that following the
length fields through the DCD meets exactly the commands (`DcdWellFormed`), and
that the listing recognises the medium (`MediumRecognised`). The layout claims
assume a BOOT_FROM line: without one the IVT stays at offset 0, on the MBR.

### Lcd

`bsp_lcd_init` with `HAL_LTDC_Init`, `DisableDither`, `ConfigLayer` for each
layer and `ProgramLineEvent`, one access to shared state per step; IER is read
and written back. The handler reads flags and mask once, serves transfer error,
FIFO underrun and line event in that order, and for the last runs the callback:
draw, arm, clear. The reload branch is left out: nobody enables that interrupt.
The LTDC is external: it raises flags once enabled, at any time. The NVIC latch
is kept, so the handler may run with nothing to serve. `prepare_all` keeps a
descriptor, therefore `bsp_lcd_init` may run again on a live handle; the model
allows that at any time after a return.

`lcd_line` (two layers, the most the LTDC has; no other bound) checks that nobody
meets a locked handle (`NeverBusy`), that the line interrupt is on whenever the
handler is idle after set-up (`LineArmed`), that State ERROR comes with a code
(`ErrorHasCode`) and that drawing never ends (`KeepsDrawing`).

Fairness: weak for set-up and handler (running code), for the line event (a
running LTDC reaches the line in each frame) and for taking an interrupt; strong
for taking a line interrupt, because the core takes a pending interrupt within a
few instructions and cannot put it off each time until the thread masks it.
Neither errors nor a second set-up have to happen.

### HalTick

SysTick adds `uwTickFreq` to a counter modulo `Range` (2^32 in the code), and
`HAL_Delay` polls the difference. A period is programmed in core cycles, so
`HAL_SetTickFreq` and `HAL_RCC_ClockConfig` have to program it again and may be
refused by the 24 bit reload register. Each of them is one step; a SysTick between
the store of the frequency (or the switch of the clock) and the new reload value,
which the code allows, counts that one period wrongly and is not modelled.
`HAL_InitTick` never refuses its priority: `HAL_Init` passes 15 of 16 and comes
first. `elapsed` is a history variable: the
milliseconds of the periods that ended since the call. `Lag` is how many ticks
may pass between two polls beyond the first (other interrupts).

`hal_delay` (`Range` 32 with delays on both sides of the wrap and at its edge,
ticks of 1, 3 and 8 ms, two clocks of which the faster one refuses the longest
tick): the period always agrees with the counter (`PeriodMatches`), `HAL_Delay`
returns neither early (`DelayAtLeast`) nor a round of the counter late
(`DelayAtMost`), and it returns (`DelayReturns`). Left out of the two bounds,
because the code does not keep them: arguments whose sum with `uwTickFreq`
overflows return at once, although the comment promises a minimum delay, and
`HAL_MAX_DELAY` with ticks longer than a millisecond may wait for ever. Fairness:
weak for the tick while it is enabled and for the loop. Deadlock checking is
off: after a failed clock change the caller's assertion stops the program, and
a suspended tick does not count.

### Boot

The thread walks through `Reset_Handler`, `bsp_init` and the loop of `main`;
`SysTick_Handler` interrupts anywhere from `HAL_Init` on. `HalTick` and
`BspModule` are instantiated, so that the delay in the SDRAM protocol, the
append and the prepare and setup loops are the actions of those modules. `Place`
is the linker script and `Uses` says which objects a step touches. The SDRAM
chip is external: it comes up only if it is given the commands in the order of
its data sheet with a full millisecond of pause. The data cache is a set of
objects written and not yet in memory. A reset may strike anywhere (once,
`MaxResets`): registers are reset, memories are not; `Init` already starts from
arbitrary contents of the DTCM. An assertion that fails ends in `_exit`, a loop.

`boot` checks that nothing is used before its memory is loaded (`UsesLoaded`),
that the SDRAM is up when it is used and that none of the assertions of
`bsp_sdram_init` fails (`SdramUp`), that `SCB_InvalidateDCache` drops no write
(`NothingLost`), that blocks of `_sbrk` are disjoint and inside the heap
(`HeapSound`, with heaps too small for all, for some, and large enough), that
`main` starts with both modules in the list, each LIVE with a descriptor of this
boot or given up (`Registered`), and that it prints for ever unless a clock
assertion failed (`KeepsPrinting`). Fairness: weak for the thread and for
SysTick. The bits that the early steps wait for without a time-out are taken to
come. `bsp_led_init` is never called, so the LED that `_sbrk` switches on in
want of memory has no pin.

### TtySetup, BspUtils, PeriphTable

`BspUtils` is the search of `bsp_utils_get_periph` and the clock switch over any
table; `PeriphTable` has the 109 rows and the cases of the switch. `TtySetup`
has one action for each part of `bsp_tty_init`, split where it may fail; nothing
is undone on a failure. The client edits fields of the descriptor and has the
module prepared and set up again; `write` uses and refreshes the cached
interrupt line; another driver switches clocks of its own.

`tty_setup` (the real tables; UARTs with and without a request, ports with and
without a clock case, streams of both controllers, an address that is no
stream; two edits, three set-ups, so that a success can be followed by a failed
and another successful set-up with other values): a LIVE module has clocks,
pins, lines and handles of the descriptor it was set up with (`LiveIsReady`),
and `write` masks the line of the stream its handle drives
(`WriteMasksOwnLine`). `tty_connect` shows that the stream nevertheless cannot
send; see Findings.

Seen on the way, all visible in the model: every UART but USART1 fails
(`if (uart_idx)` takes a positive index for an error); a stream address, which
lies behind the base of its controller, resolves to the next peripheral, so
DMA1's streams switch DMA2 on and DMA2's streams meet DMAMUX1, for which the
switch has no case; TIM3 has no case; `strncmp` with a length of 10 takes
DLYB_SDMMC1 for DLYB_SDMMC2; lines and pins of an earlier set-up stay enabled;
only the lines of DMA1's streams 0 and 1 have handlers.

### Genconfig

A line is a sequence of cells, one per character; only the keywords of directives
and a few words of the output are one cell each. The regular expressions are
modelled by what they match: the opening characters, one or more graphic
characters and the closing one (`Reads`, `Spans`), leftmost (`Leftmost`) and as
long as possible (`Longest`), which is up to the last closing character of the run
of graphic characters, whichever reference and notation it belongs to. The buffer
of `main` keeps what earlier lines left behind the NUL; `fgets` cuts long lines.
Offsets are as in the code, the double counting included. A negative length for
`memcpy`, or a search that leaves the buffer, is undefined and ends in `Crash`. The
16 entries of the array of matches are never filled: the double counting makes a
search begin at least twice as far in the buffer of 1024 as the one before it.
The bytes allocated for the two new lines and the bytes written to them are
computed separately, as the code does.

A piece is `Simple` if none of its text can be read as a reference in two ways:
at most one reading per notation, none of which overlap, and the piece does not
begin with an empty value that another reference follows directly. Two references
in one notation within a run of graphic characters are not simple, nor is
`${A}$ENV{B}`, where both patterns end at the same `}`.

`genconfig` (buffer of 12, three notations, two of which close with `}`, values that
are empty, shorter and longer than a reference, and none; every template of two
lines of up to three elements, some with three references): a simple piece comes
out with the references to defined variables replaced and nothing else changed but
the directive (`SimplePiecesRight`); the new line fits its memory if the result is
shorter than the piece, and the line after the directives exceeds its memory by no
more than one byte, and that only for `#cmakedefine` (`LinesFit`). A reference to an
undefined variable stays, as in the code; the repository's README promises
something else (`UndefinedVanish` under What does not hold). Deadlock checking
is off: the template ends.

## Findings

Runs that are expected to fail, each against a sentence in the code:

| Run | The code says | What happens |
|---|---|---|
| `tty_source` | "only source address here" (`bsp_tty.c:433`) | M0AR is taken after the read pointer was advanced; the first block sent is not what was written |
| `tty_connect` | "destination address is set when init" (`bsp_tty.c:433`) | `init_dma` computes PAR from `_huart.Instance`, which `init_uart` sets later: NULL, or the UART of the previous set-up. In the same state the tx stream has the rx request and its controller no clock |

### What does not hold

Seen while modelling. The modules define the property; adding it to the
configuration named makes TLC show a counterexample.

| Property | Configuration | The code says | What happens |
|---|---|---|---|
| `RevertedInRing` | `MCTtyFree` | the read pointer is reverted "to the next byte of the position that dma had just touched" (`bsp_tty.c:421`) | after a wrap, or when the interrupt reverts again in between, the pointer leaves the ring |
| `AllSent` | `MCTtyPolite` | "We assumed that all the data will be sent" (`bsp_tty.c:421`) | the handler disables TCIE, nobody enables it again; the tail behind a wrap stays |
| `LoopsEnd` | `MCBspModule` with `Retries = TRUE` | "Returns 0 on success" (`bsp_module.h:40`) | append always returns -EBUSY; appending again ties the list into a cycle and a loop never ends |
| `RemovedIsQuiet` | `MCBspModule` | "Only desetuped module can be removed." (`bsp_module.h:53`) | a module whose setup failed half way, or without desetup, is removed with its interrupt enabled |
| `HeaderMapped` | `MCMkImage` | "Can't stat" the image file (`main.c:253`) | the data file is measured instead; with a small one the header lies outside the mapping |
| `output = do_replace_cmakedef(Result(buffer))` without `Simple` | `MCGenconfig` | "Each variable reference will be replaced" (`README.md:136`) | the offset of a second match in one notation is counted twice: its text is wrong, a third is missed, what is behind the NUL may be searched; of `${A}$ENV{B}` two matches end at the same `}` and a copy gets a negative length |
| `UndefinedVanish` | `MCGenconfig` | a reference is replaced by the value "or the empty string if the variable is not defined" (`README.md:136`) | `do_replace_variable` copies the reference itself when `get_value` returns NULL (`genconfig.c:129`) |
| `filled <= room` without the premise | `MCGenconfig` | | the second NUL is one byte too many when the result is not shorter than the piece |
| `def_filled <= def_room` | `MCGenconfig` | | both branches of `#cmakedefine` write one byte more than they allocate (`genconfig.c:175-187`) |

Plain from the code: `write` returns `SIZE_MAX`, its used-up counter
(`bsp_tty.c:402`); `#cmakedefine` takes "0" for a definition; the load address
check of `mkimage.c:281` lets the last byte of a reserved range through; the QSPI
parameter file is copied with its own size into a part of 0x200 bytes
(`mkimage.c:401`).

## Proofs

All for every value of the constants under the named assumptions of each module.

* `TtyTxProofs` (from: ring size positive). `TypeOK`, `CopyExclusive`, `WaitEnds`
  for any client; `Accounted`, `NoMeeting` for the polite one. `WaitEnds` rests on
  the one thing that tames the two contexts (`FreeInv`): the handler clears TCIE
  and the thread brings it back only at the two ends of `start_tx`, so the
  interrupt cuts into the thread's arithmetic at most once. As long as TCIE is set
  the thread's pointer and count fit together, and the interrupt finds the read
  pointer inside the ring unless the thread is about to wrap it, in which case the
  thread does not wait any more. Neither `Accounted` nor `NoMeeting` is
  inductive: the invariant records for each statement of `start_tx` what the
  pointers, NDTR and the loaded registers are and that the byte count balances
  with `count` or NDTR in its place (`AtLabel`), and that the stream is off and
  no completion pending while anybody is in the driver (`PoliteInv`).
* `BspModuleProofs` (from: `ModulesAssumption`, finitely many modules and NULL is
  none of them; `~Retries`, nobody appends a module that is in the list, without
  which the list may become a cycle, see `LoopsEnd` under What does not hold). `WellFormed`,
  `LiveIsLinked`, `SetupGetsDescriptor` and refinement of `ModuleRegistry`. The
  invariant is that there is a sequence of distinct modules which the pointers
  spell out (`Spells`), which holds every LIVE module, on which the iterator of a
  loop stands (`LoopAt`), and whose modules have descriptors as far as
  `prepare_all` has come. The sequence is bound by an existential quantifier, so an
  append or a removal proves its claim with the longer or shorter sequence as
  witness. Three facts carry the rest: the modules in `Met` are those of the
  sequence, no other sequence is spelled out by the same pointers (so that `Walk`,
  a CHOOSE, is it and the refinement mapping can be computed), and distinct modules
  make a sequence no longer than `Cardinality(Modules)`. `LoopsMoveOn` is the safety
  half of `LoopsEnd`: each turn of a loop strictly shrinks the finite set of places
  it has ahead, so only fairness of the loop body is left to TLC.
* `GenconfigProofs`, the dictionary (from: minimum size positive, hash values natural, NULL is no
  key). `Consistent`, `RoomToInsert`, `SetStores` and refinement of `DictMap`. The
  invariant is, while all arrays exist, uniqueness of keys, hashes that belong to
  their keys, and the exact count; the count gives the free slot by cardinality,
  uniqueness gives that unset removes the one pair of its key. Arrays that are lost
  stay lost and no set returns 0 without them (`Losing`), so that every later step
  is a stutter of the map. `SetStores` adds that the pair of the last successful set
  is in the abstract map (`LastInv`), which the refinement gives for each kind of
  set, and that the slot `dictionary_get` stops at is the only one with that key.
* `GenconfigProofs`, the template processor (from: `GenconfigAssumption`, finitely
  many notations, each with something in front of the name, and a buffer of more
  than one character; `TextAssumption`, values are C strings). `SimplePiecesRight`
  and `LinesFit`, for every template, command line, buffer size and set of
  notations. The invariant (`TemplateInv`) says that the buffer always holds a NUL
  and that both properties hold of the piece in it; the work is in what
  `do_replace_variable` computes. The matches of a simple piece are exactly what can
  be read as a reference, one scan finding one of them (`OneMatch`,
  `SimpleMatches`): the greedy match has no other end to run to, and the double
  counting of offsets never comes to bear. They do not overlap (`Overlap`,
  `Disjoint`), so their ends are distinct and the ranks put them in order (`Ranks`,
  `SortedIs`), and one turn of the loop carries the text already assembled from one
  reference to the next (`Turn`, `Assembled`), the text in front being copied once
  because a simple piece does not begin with an empty value followed by another
  reference. The bytes of the new line follow from the text and the sum over the
  matches (`VariablesFit`), those behind the directives from the place of the keyword
  and the name in the line (`StrlenIs`, `DirectivesFit`). The prover knows no
  recursive function beforehand: that those of the model (the scan, the loop, the
  sums) exist and unfold is proved from the well-foundedness of the naturals
  (`Least`, `Iterate`, `IterateDown`), as is each induction along them.
* `MkImageProofs` (from: `LayoutAssumption`, the relations between the fixed
  offsets and the alignments that the real values satisfy). `PartsDisjoint`,
  `AppBehindParts`, `DcdAllocated`. The invariant adds that placed parts are at
  multiples of the alignment and padded parts do not overlap, from which a
  rounded end never jumps over a neighbour it was not compared with.
  `DcdWellFormed` is not inductive while words of a command are still to be
  pushed; the invariant states it of the stored words followed by those to come,
  so that a push changes nothing and a DCD line appends one linked command.
  `MediumRecognised` follows the offset of the IVT from the BOOT_FROM line through
  the layout into the written header. `OffsetsAligned` needs `CodeAssumption`
  besides (size of the application header and alignments are multiples of 8, as
  in the code: 64, 8 and 512): without it the code would be rounded away from its
  header.
* `LcdProofs` (from: at least one layer). `TypeOK`, `NeverBusy`, `LineArmed`,
  `ErrorHasCode`. The invariant says where the lock can be held, which call the
  thread is in, that interrupt and controller are on after their statements, and
  that the line interrupt is off only while the callback draws. `ErrorsRunOut` is,
  with `LineArmed`, the safety half of `KeepsDrawing`: what the handler serves comes
  from IER and stays enabled until served (`ServeInv`), and each error served is
  disabled for good, so errors come before a line event at most once each.
* `HalTickProofs` (from: `TickAssumption`, the default tick fits the reload
  register at reset). `TypeOK`, `PeriodMatches`, `DelayAtLeast`, `DelayAtMost`.
  The invariant ties the history variable to the counter: during `HAL_Delay` the
  elapsed time modulo `Range` is the tick difference, and the loop is behind its
  last poll by no more than the unpolled ticks; this is what carries the bounds
  across the wrap. `TicksRunOut` is the safety half of `DelayReturns`: each tick adds
  to a bounded count.
* `BootProofs` (from: `BootAssumption`, two distinct modules, and a counter that
  holds the pause of the SDRAM protocol; `TickAssumption`). `UsesLoaded`, `SdramUp`,
  `NothingLost`, `HeapSound`, `Registered`, from any contents of the memories and
  with a reset at any step. The invariant says for each statement what it may rely
  on: what the memories hold, how far the SDRAM's protocol is, that the data cache
  holds nothing when it is invalidated, that blocks of the heap lie below the
  break, and how far the two loops have settled the modules. The pause needs the
  part of `HalTick`'s argument that the tick difference never runs ahead of the
  time that has passed, across the wrap and under the interrupts of the thread.
  `BootMovesOn` is the safety half of `KeepsPrinting`: every step of the thread that is
  neither a poll of a delay under way nor a failed assertion on the clocks brings it
  nearer to `main`, at most 32 steps away, counted by `Ahead` over the statements and
  the turns of the two loops.
* `TtySetupProofs` (from: `TableAssumption`, rows sorted and disjoint;
  `OthersAssumption`, other drivers leave the TTY's clocks alone). A least row
  exists by well-foundedness, from which every peripheral is found by its first
  address (`BasesResolve`). `LiveIsReady` and `WriteMasksOwnLine` need for every
  part of `bsp_tty_init` that what it did lasts until the module is LIVE and
  beyond, for as long as it is not set up again, and that the cache was refreshed
  by the same set-up.

Only model-checked:

* Liveness (`WriteReturns`, `LoopsEnd`, `KeepsDrawing`, `DelayReturns`,
  `KeepsPrinting`): fairness and ENABLED are outside the prover's reach. Their safety
  halves are proved: `WaitEnds`, `LoopsMoveOn`, `LineArmed` with `ErrorsRunOut`,
  `TicksRunOut`, `BootMovesOn`.

## Not modelled

* Debug channel, LED, fault handlers, clock and MPU settings: register values
  with no behaviour to check; where they stand in `bsp_init` is in `Boot`.
* The other system calls, which return an error or feed the ITM.
* `HAL_SDRAM_MspDeInit`, `cpybuf`, `bsp_module_find` and `read`: never called,
  or nothing but a read.
* `mkimage`: command line, `s32cc_check_params`, printing of a header, IVT fields
  that copy a value, the copy of the QSPI parameters. `genconfig`: command line,
  opening of files, a `malloc` or `strndup` that fails.
* `dictionary_del`, which ends the object's life; the bits of the hash function.
* Data in frames and buffers, pins and timings.
* The vendored trees `hal/`, `cmsis/` and `include/zephyr/`, which are nearly all
  of the repository's lines, beyond the functions the modelled paths run.

## Plan

Done, in order of importance: TtyTx, BspModule with ModuleRegistry, Dict with
DictMap, MkImage, Lcd, HalTick, Boot, TtySetup with BspUtils, Genconfig.

Every safety invariant, action property and refinement that a passing run checks
has a theorem, and every liveness property one for its safety half. Left: liveness
itself, which stays with TLC.
