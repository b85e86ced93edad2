# A TLA+ model of z80p

z80p runs CP/M on an emulated Z80: an instruction interpreter (`z80emu.c`), a
system bus that turns port accesses into device operations (`sysbus.c`), a disk
controller (`disk.c`), a TCP service for the guest (`network.c`), a console
keyboard (`ttyinput.c`) and a console screen (`ansitty.c`). This directory holds
TLA+ modules that model these parts, TLC configurations that check them on small
instances, and TLAPS proofs for every instance.

Run a check with `tlc -config MCDiskBios.cfg MCDiskBios`, a proof with
`tlapm BusProofs.tla`.

## 1. Inventory

| Part | State | Operations | Interacts with | Hard about it | Correct when |
|---|---|---|---|---|---|
| Disk controller (`disk.c`, ports 0A-10 of `sysbus.c`) | per drive: image in memory, selected track and sector, `io_in_progress`; `current_drive_id`, `DMA` | boot, SELDSK, SETTRK, SETSEC, SETDMA low and high, READ, WRITE, acknowledge | guest registers and memory; shares `DMA` with the network | a request is spread over many port writes that are checked only at the end, with asserts | a request copies exactly the sector it names, and nothing else |
| Network service (`network.c`, port F0) | 16 slots of descriptors; disposition of SIGPIPE | CONNECT, CLOSE, SEND, RECV through a block in guest memory | kernel sockets, peers | partial transfers, resets, descriptor reuse, a table at its limit | table and kernel agree, the guest learns the outcome |
| Console input (`ttyinput.c`, ports 00 and 01) | key buffer and its count, SHIFT, CTRL | CONST, CONIN, one call per event | SDL's queue | keys typed ahead, events that are skipped or swallowed | keys arrive once and in order, CONIN ends |
| Console output (`ansitty.c`, port 01, display thread) | cursor, canvas, dirty flag, `display_mutex` | CONOUT, expose | display thread, libansicanvas | two threads, corners of the screen | nothing drawn is forgotten, text stays on the canvas |
| Loads, jumps and ports (`z80emu.c`, `z80user.h`) | all registers and their alternates, memory, the register table in use | loads, exchanges, stack, single block steps, bits, jumps, calls, returns, ports | decode tables, all devices | DD and FD replace registers through tables, operands wrap at 64k, conditions are table lookups | the instruction goes on at the right place, moves what it names, IX and IY stand for HL |
| Z80 control (`z80emu.c`) | pc, sp, iff1, iff2, im, cycle budget | `Z80Emulate`, `Z80Interrupt`, `Z80NonMaskableInterrupt` | the host's loop | a budget that cuts execution, prefixes, the EI delay | interrupts are invisible to the program, each call returns |
| Block instructions (`z80emu.c`) | BC, DE, HL, R, flags | LDIR, CPIR, INIR, OTIR and the decrementing forms | memory, ports | run as loops over wider copies of registers, cut by the budget | same as one iteration at a time |
| Arithmetic (`macros.h`, `z80emu.c`) | A, flags, operand, HL | additions, subtractions, DAA, logic, rotates, bits | - | flags read off one int, DAA relying on flags left before | numbers, signed, unsigned and decimal, come out right |
| Decode tables (`maketables.c`) | - | about 600 opcodes | - | - | follow the structure of the opcodes |
| Clock (`sysbus.c`, port F1) | `clockticks` | tick, read | clock thread | read in two halves | a reading is never ahead of time, and is exact without a carry between the halves |
| Start-up (`zextest.c`) | - | `main`, `emulate` | all | - | - |

The processor thread runs the guest and, inside its port accesses, all devices.
Beside it run the display thread, which shares the canvas under
`display_mutex`, the clock thread, and the thread of the graphics library. So
devices interleave with each other only at the granularity of port accesses,
which is why each of them has a module of its own in which a port access is one
action, and only the console output is split into smaller steps.

Not modelled, and why:

- the inside of libansicanvas, SDL and OpenGL, which are not in the repository:
  `Terminal` models how the cursor moves and when something is drawn;
- `experiments/sysbus.c`, an old copy that is not built; `output_character`,
  `ansitty_drawcursor`, `SystemCall` and the idle thread, which nothing calls;
- messages and `memory_dump`, which print and change no state; the reading of
  files by `disk_init` and `emulate`, whose result is the initial image or
  program; the C text that `maketables.c` prints around the tables;
- a drive number of 26 or more, which finds whatever lies behind `drives[]`;
- a block instruction that overwrites itself (`Z80_HANDLE_SELF_MODIFYING_CODE` is
  off, and the library says such programs are not supported);
- the numbers of cycles of single instructions, beyond those `Z80Control` counts;
- build files, disk images, test programs.

## 2. Plan

Done: the modules of section 3 and the proofs of section 5, which state every
safety property of the runs but three about particular programs: `RoundTrips` of
`Alu`, and `PairsRestore` and `LoopsCount` of `Z80Transfer`. What is left: these
three, if the programs of their `Cases` become definitions instead of a constant.

## 3. Modules

Every module takes its sizes as CONSTANTS, with named assumptions. Definitions
that begin with the comment "Faulty" are not part of a specification: each is a
plausible mistake in one definition, kept to show that a property notices it.
`PROJECT.json` maps each definition to its lines.

### Disk: `SectorStore`, `DiskController`, `DiskBios`

`DiskController` has the variables of the code under their names. `backingstore`
is a function from drive to a function from byte offset to byte; `memory`
includes the 127 bytes behind the array `memory[1 << 16]`, since `memcpy` from a
16-bit address can reach them. Each port is one action with its asserts: a
failed assert leads to `status = "aborted"`, after the assignments that precede
it (SELDSK stores the drive number before it looks the drive up; READ and WRITE
set `io_in_progress` before the limits are checked). `Pos` computes the unsigned
32-bit position (`PosBase` is 2^32). The guest may do anything except select a
drive number of `MAX_DRIVES` or more, which indexes past `drives[]`: undefined
(`GuestAssumption`). `CpuStore` is any store of the processor.

`DiskBios` drives the same actions the way the BIOS of the system disk does,
with a variable `bios` for the calls that take two port writes. It is external
code; what is assumed of it is `LegalRequest` and that it acknowledges each
operation at once.

`SectorStore` is what CP/M relies on: independent sectors named by drive, track
and 1-based sector, a selection (the drive, the track and sector of each drive,
and the two bytes of the buffer address), and requests that copy exactly the
selected sector to or from exactly the buffer. `ImplementsSectorStore` maps
sector `<<d, t, s>>` to the bytes from `(t * Spt[d] + s - 1) * SectorSize` of the
image, memory to its addressable part, the selections to the code's
`current_drive_id`, `selected_track` and `selected_sector`, and the bytes of the
buffer address to the digits of `DMA`.

### Network: `SocketTable`

`realfd`, `mappedfd` and the disposition of SIGPIPE are the code's. The kernel is
modelled as far as `network.c` sees it: which descriptors are open, the state of
each connection, bytes unread and space to send. Peers send, shut down, reset and
take bytes at any time. `reply` records register A and the error byte of the
block (255 as a count and -1 are the same byte, as in the code). A transfer may
be partial. `connect()` blocks and is one action.

### Bus: `SystemBus`

`SystemBus` composes the two devices that share state. It extends
`DiskController`, so that `DMA`, `memory` and the disk ports are that module's,
instantiates `SocketTable` with the lengths a byte can hold, and adds the clock of
`Clock`. Port F0 finds its command block in `memory` at `DMA`, whatever put it
there: the guest (`GuestStores`, and `CpuStore`), a sector from the disk, or the
results of the command before. `Command` reads the instruction byte, `Handle` is
the int8_t of byte 1, `WithData` the `read()` into the guest's buffer, and
`WithResults` the stores of bytes 1 and 2, which come last. A handle outside the
table makes SEND and RECV use whatever is beside `TCP_Sockets` as a descriptor:
`StraySend` and `StrayRecv` choose among the outcomes the kernel has for any
descriptor, among them the end of the process: "killed" by SIGPIPE, which write()
can raise there as long as `TCP_Connect` has not run, or "aborted" by an assert. `taken`, `delivered`
and `spoilt` are histories of what each peer's stream gave and what the guest found.

While the guest reads the clock it does nothing else, and after storing a block
it calls the service (`prepared`); both bound the interleavings to those of one
guest thread, not to one guest program.

### Clock: `Clock`

`Tick` is a turn of the clock thread. Port F1 reads the volatile counter twice, H
first (`HalfOrder`), and the clock may tick in between. `now`, `begun` and `ended`
count all ticks, without the wrap after 65536.

### Keyboard: `Keyboard`

One action per port access, whose cases are those of `tty_processinput`; `Const`
and `ConinPoll` handle one event a call and drop the skipped ones before it.
Keys are classes. `Popped` models the `memmove` from `&keybuf + 1`, which is one
whole array behind `keybuf`: what it brings is arbitrary. The store to
`keybuf[KB_BUFSIZE]` hits whatever the build puts there; the constant
`Neighbours` lists the objects observed with gcc (`kbip` without optimisation,
`ctrl_engaged` with -O2) and `unused`. The Makefile leaves the building of
`ttyinput.o` out of the program; `sysbus.c` calls it nonetheless.

### Screen: `Terminal`

The processor thread and the display thread take single steps: lock, draw, mark,
unlock against lock, check, expose, clear, unlock. Drawing is `ansitty_putc`: TAB,
BACKSPACE, wrap, scroll, then `ansi_to_canvas`, which is external and modelled by
how it moves the cursor, and the second scroll after it. `fresh` says that
something was drawn since the last expose; `scrolled` counts lines that left the
screen, so that `Line` is the line of the whole output the cursor is on.

### Processor: `Z80Control`, `BlockInstructions`, `BlockReference`

`Z80Control` runs every program of a given length over 13 bytes chosen so that
each has a meaning unprefixed, after CB, DD and ED, and as an operand. `left` is
what remains of the budget; `Retire` ends an instruction, prefixes do not look at
the budget, EI and DI give their cycles back. The host calls `Z80Emulate`,
`Z80Interrupt` and `Z80NonMaskableInterrupt` between calls in any order (this
host raises no interrupts; the functions are the library's interface). The stack
is kept apart from the program and wraps around. `frames` is a history of the
calls and interrupts on the stack.

`BlockInstructions` has the loops' int copies of the registers beside the
registers. `Enter` is the arrival with cycles for n iterations, `Continue` one
iteration, `Leave` the last one of this call. `BlockReference` is the instruction
executed one iteration at a time. Of the flags, Z and P depend on where the loop
ends; those of the port instructions come from tables indexed by the counter
(`PortParity`), so a counter below 0 (from B = 0) reads beside the tables, which
gives any value (`InTable`). The other flags and iterations that overwrite the
instruction are left out. Ports are those of `z80user.h`: data moves through
register A.

### Processor: `Decode`, `Z80Transfer`

`Decode` is `maketables.c`: the three tables of instructions by the bits of the
opcode, which give the same entries as `tables.h`. An instruction is a pair, so
that `LD_R_INDIRECT_HL` is `<<"LD_R", "INDIRECT_HL">>`.

`Z80Transfer` executes every instruction that `Alu`, `BlockInstructions` and
`Z80Control` leave out, with words of their real width. The processor is a record:
`word` holds the seven words, of which bytes are halves, `table` says which word
the register table in use has for HL, and `memory` is what differs from `Memory0`.
`R`, `RR` and `SS` are the three parts of the tables that `Z80Reset` fills.
`Place` is the memory operand, `PastD` the displacement that its macro skips.
`Fetch` follows the prefixes and `Effect` is the switch of `emulate`. Ports give
A what the bus gives (`Answer`, `Ticks`, `Served`) and change nothing else here
but H and L for port F1; at a port that the bus does not know, or a function of
port F0 other than 36, the process ends, so the instruction is not executed
(`Accepted`). A case is a program of one or two instructions, or a
loop, with the registers it starts from; `last` is the instruction just executed
and the processor before its effect, against which the properties compare.

### Arithmetic: `Alu`

A case is a short program with the registers it starts from; `program` is what
remains of it and `before` the registers before the last instruction. Operands
are A itself (the macros evaluate their argument several times) or another byte. The code computes with an int: `Result` takes the
value from it modulo 2^w and the flags from the bits of `a ^ b ^ z`, which are
the carries into each bit (`Carry`), for w = 8 and, shifted by 8, for w = 16. The
rotates keep the ninth bit of that int (`LeftWith`) until they store it and look
its flags up (`Shifted`). The flag tables are `FlagsOf` and `Parity`. Where the operand in memory is and how
long the instruction takes is left out, and BIT on memory, whose Y and X come
from its address, is in `Z80Transfer`. The properties use numbers instead:
unsigned, signed and decimal ones.

## 4. Runs

| Run | Question | Instance |
|---|---|---|
| `system_bus` | What may a guest do to images, memory and connections through the ports, what is it told, and when does a signal end it? | bytes of 3 bits: 64 bytes of memory, sectors of 8, drives of 2x2 and 1x2 sectors, 2 handles, 2 descriptors |
| `disk_bios` | Is the controller the store CP/M sees? | two drives of 2x2 and 1x2 sectors of two bytes, an empty slot, 16 bytes of memory |
| `socket_table` | Do table, kernel and guest agree through refusals and resets? | 3 slots of which 2 are given out, 3 descriptors, bytes of 2 bits |
| `keyboard` | Is type-ahead counted, the first key kept, CONIN finished? | a buffer of 2, 4 events |
| `terminal` | Are updates lost, threads stuck, or text off the canvas? | 2 rows of 4 columns, 6 characters of any kind, from any row |
| `block` | Does the loop implement the instruction? | 3-bit words, 2-bit bytes, calls of 1 to 6 iterations |
| `z80_control` | Are interrupts invisible, does every call return? | all 2197 programs of 3 bytes, a stack of 2 words, budgets 1 and 5 |
| `alu` | Do results and flags stand for numbers? Do rotates lose bits? | all accumulators with 8 operands at the boundaries, all pairs of decimal numbers, 10x10 words at the boundaries |
| `z80_transfer` | Does each instruction under each prefix go on at the right place, move the right thing, and do with IX what it does with HL? | about 7500 programs from three sets of registers, 64k of memory |
| `socket_leak`, `keyboard_order`, `terminal_tab` | Do the code's own words hold? No: section 6 | as above |

Bounds and why they are enough:

- *Disk.* Each byte starts as its own name, so a byte in the wrong place is seen
  wherever it came from. Two transfers let a READ follow a WRITE, on another
  drive or sector. `TrackBytes` 1 and `SectorBytes` 1 and 2 reach every legal
  sector (a track starts at 0, so track 0 needs no selection); DMA values reach the last byte of memory. `PosBase` 16 makes the
  sector before the first wrap around as 2^32 does.
- *Bus.* `MaxCommands` 3 lets a connection be made, used and closed or used
  again. One transfer may succeed, before the first command: it puts sector bytes
  where the blocks, the buffers and the results will be, and the bytes of the
  images are such that a sector also reads as a command block. A transfer or a
  SETDMA between a block and its port F0 is not explored (`prepared`). DMA 0 and 62 put
  blocks and sectors at both ends of memory. The blocks cover a buffer that is clear, one over the block, one over the end of memory, and
  stray handles; a closed slot and a full table come from the order of commands.
  The constraint `Together` keeps the network to drive 0 and two DMA addresses, a
  transfer beside it to DMA 0 (blocks at the end of memory come from the guest's
  stores alone), and the clock to the time before any other device is used, since it shares no
  variable with them. Sector 0 (the initial one) and sector 3 of a track of two
  name neighbouring tracks, or nothing. Two-bit halves of the clock, started at 15,
  make the next tick carry through both.
- *Sockets.* Three descriptors exceed the two slots the table gives out, so that
  the table fills and descriptors run out. A length of 3 is -1 in bytes of two
  bits, the ambiguity of 255. Descriptors are symmetric; the reply never is one.
- *Keyboard.* Three keys typed ahead fill the buffer of two and its overrun;
  `MaxTyped` and `MaxEvents` bound the history.
- *Terminal.* Six characters reach every corner from any row (initially
  `current_y` is any), MOVE being able to go anywhere, and let each thread
  overtake the other.
- *Block.* A call has cycles for more iterations than B counts (4) and fewer than
  BC counts (8), as 160000 cycles have. The pointers include both ends of memory.
- *Z80.* Three bytes hold every prefix with its operand and a wrap of pc.
  A budget of 1 ends after any instruction; 5 ends in the middle.
- *Transfer.* Every opcode of these instructions runs after no prefix, DD, FD and
  DD FD, with operands at and around the ends of memory, from registers whose words
  lie at both ends of memory and whose flags are all clear, all set, and mixed.
  The pairs that undo each other take every pair of words. Loops count 1, 2, 3 and
  259 in BC and 0 (256), 1, 2 and 255 in B; BC = 0 (65536 turns) is left out for
  its length.
- *Alu.* Bytes and words have their real width. The operands 0, 1, 0F, 10, 7F, 80,
  99 and FF meet each digit, sign and carry from either side against every
  accumulator. DAA runs over every A, H, N and C, and over every pair
  of decimal numbers with the instruction before it.

`CHECK_DEADLOCK FALSE` is set where the program may stop: an abort, an exit, the
end of a program of `Alu` or `Z80Transfer`, or the bound on transfers, events or characters
reached. `Z80Control` never stops.

Fairness. `ConinPoll` is weakly fair: CONIN polls every 20 ms until it has a
character. The steps of both threads of `Terminal` are weakly fair, since the
threads run; `CpuLock` is strongly fair, since the display thread sleeps 20 ms
between two turns while the processor spins on `trylock`. The display thread's
lock has weak fairness only: nothing promises it the mutex while the guest prints
without end, and `EventuallyShown` holds because output is finite. `Instruction`
and `BlockInstructions!Next` are weakly fair: inside `Z80Emulate` the loop runs
on, and the host calls it in an endless loop.

## 5. Proofs

TLAPS checks, for every value of the constants that satisfies the named
assumptions, the theorems below. The assumptions are sizes (positive, and in the
relations the code's `#define`s have), sets of inputs the guest may give, and, for
the network, that -1 is no descriptor and that the command codes and the error
numbers differ. TLC evaluates them in every run.

**Disk** (`BusProofs`, first part). `TypeCorrect`, and `WritesConfined`
(`Spec => StoreConfined`). `SizesAssumption` says that the position's range 2^32 is
a multiple of the sector size, from which `PosAligned` shows that any selection,
in the geometry or not, falls on a sector boundary; together with the assert on
the end of the transfer this puts the write in one sector.

**Disk under the BIOS** (also `BusProofs`). `BiosIsGuest` (the BIOS is a guest of
`DiskController`), hence `BiosTypeCorrect` (the run
`system_bus` checks the types of the controller, for any guest); `BiosSafe` and `OneDriveBusy` from the
inductive invariant `BiosInv`. `BiosNeverAborts` alone is not inductive: the
acknowledgement asserts the flag of the current drive, so one needs to know that
exactly that drive is busy (`OnlyCurrentDriveBusy`), that the current drive is
present, and that it is while an acknowledgement is due. That a legal request
passes the asserts is `LegalPos`: its position is below the size of the drive and
does not wrap (`GeometryAssumption`: an image is smaller than 2^32 bytes by one
sector at least). `BiosStaysInMemory` follows from the buffer of a legal request.
`ControllerImplementsStore` (`BiosSpec => ImplementsSectorStore`): legal sectors
have different indices (`IndexInjective`), so their slices of the image are
disjoint (`SlicesDisjoint`); hence a WRITE changes the slice it names and no other
(`WriteMaps`), a READ copies the slice into the window (`ReadMaps`), the boot
loader copies two (`BootMaps`), and a select port changes its own part of the
selection (`SelectMaps`). That each half of SETDMA changes its byte of the buffer
address and keeps the other (`SetdmaMaps`) rests on `Digits`: quotient and
remainder are unique. An acknowledgement is a stutter.

**Sockets** (`SocketProofs`). `TypeCorrect`; `TableAgrees`, `NoSignalKills` and
`ConnectionKept` (`HandleKeepsConnection`) from `SocketInv`. `NeverKilled` needs
that a slot in use implies that SIGPIPE is ignored, which `TCP_Connect` does
before the guest gets the handle; that a handle keeps its connection needs that no
other slot has its descriptor, and that the kernel hands out only descriptors that
are not open. `FirstFreeIsFree` shows that the scan for a slot returns a free one,
from the well-foundedness of the naturals. `OutcomeTold` (`ReplyTellsOutcome`) is
about an answer after the fact, while peers go on: it needs `AnswerStands`, that a
RECV that succeeded is about a slot still in use, since CLOSE replaces the answer.

**Bus** (`BusProofs`, on its first part and the invariants of the clock and the
network). The guest's block is any five bytes anywhere in memory, so `NetInv` does
not assume a legal one. `BusTypeCorrect`, `KillsNeedStrayHandle`, `StreamOrdered`,
`ReadingsRight`, `CommandsConfined`, `OutcomesTold` and `BusWritesConfined` follow from `BusInv`:

- `StreamInOrder` is not inductive. `InStep` adds that the guest has found as many
  bytes as the kernel gave (`taken`), and `HistoryOK` that those and the unread
  ones are on the peer's stream; `FoundIsData` shows that the results, stored
  after the data, do not change a buffer that is clear of them, and that the count
  in the block is the count of `read()`.
- `KillsNeedStrayHandle` (`KilledByStrayOnly`): a SEND with a handle of the table
  is never killed, because a slot in use implies that SIGPIPE is ignored (`Piped`);
  no other step ends in "killed" (`OnlyNetworkKills`), and a stray one only while
  SIGPIPE has its default action.
- `ReadingNeverAhead` needs what each half was when it was copied (`ClockInv`);
  with the digits of a number (`LowDigits`) the two halves are put together again.
- `BlockTellsOutcome` reads memory after the command: the results are stored last
  (`ResultsRead`), and the codes of errors differ from that of success.

**Screen** (`TerminalProofs`). `NoUpdateLost` (`DrawnIsMarked`), `CursorStays`
(`CursorKept`), `TextScrollsWithCursor` and types from `TerminalInv`. The mark may
come after the drawing and the clearing after the expose only because each thread
holds the mutex there (`MutexHeld`, `DirtyMatches`). That the cursor stays on the
canvas needs that it is never at the right edge of the row below the screen
(`Uncornered`), and that a tab stop never lies beyond the edge: the width is a
multiple of the tab width (`NextTabStop`).

**Keyboard** (`KeyboardProofs`). `FirstKeyKept` (`FirstKeyIntact`) and types from
`KeyboardInv`: before an overrun the buffer is no longer than its array, and
nothing is typed ahead while CONIN waits.

**Processor** (`Z80ControlProofs`). `HandlersMasked`, `EiShadowKept`,
`ReturnsResumed` and types from `ControlInv`. An interrupt comes between two calls
of `Z80Emulate`, so `EiShadow` needs that the loop does not end behind EI
(`Shadowed`), hence that cycles are left before each opcode (`Budgeted`). A return
finds its address because the k-th last frame of the history is k words above the
stack pointer (`StackHolds`), on a stack that wraps around and forgets.

**Block instructions** (`BlockProofs`). `StepsAreIterations` is the safety part of
`ImplementsReference`: `Spec` implies `Reference!Init` and
`[][Reference!Next]_(Reference!vars)`; entering and leaving the loop are stutters.
It rests on `BlockInv`: the int copy of the counter is behind the register by at
most the iterations of this call, fewer than the range of BC, so that it is zero
exactly when the register would be (`ZeroTogether`). That the loop's copy of HL,
cut to a byte, gives the parity of the register's low byte (`ParityKept`) needs that
words are whole bytes (`WidthAssumption`). The hypothesis `PortsCounted`
leaves out INIR, INDR, OTIR and OTDR with B = 0, for which it is false (section 6).

**Arithmetic** (`AluProofs`), for every program and every start (`Cases`).
`TypeCorrect`; `FlagsTellOverflow` (`ArithmeticExact`): the third of the bits k of
`a`, `b` and `a + b + c` is the carry out of the k bits below (`CarryOfSum`,
`CarryOfDifference`), by division with remainder, from which H, C and V are what
the numbers, unsigned and signed, say. `WordsAreTwoBytes` (`WordsByBytes`): the
carry out of the low bytes is the carry in of the high ones. `DecimalCorrect`
(`DecimalExact`) is about two instructions, so `DecimalInv` keeps what lies
between: after the first one, A, H, N and C are those of the sum or difference of
two decimal numbers (`ToAdjust`); after DAA, A is a decimal number and with C the
result (`Adjusted`). `DaaOfSum` and `DaaOfDifference` go through the digits.

**Loads, jumps and ports** (`Z80TransferProofs`), for every program in memory,
every start and every answer of the ports. `TypeCorrect` (`TypeOK`): one lemma for
each helper (`SetKeeps`, `WriteWordKeeps`, `PushKeeps`, ...) and one for each group
of instructions (`Load8Right`, `BlockPortRight`, `SetResRight`, ...) say that the
effect keeps the widths and where it leaves pc. `ControlCorrect`
(`ControlFollows`): the tables agree with the documented instruction set, opcode by
opcode (`PlainEncoded`, `EdEncoded`, `CbEncoded`, by the bits of the opcode), so
what the effect takes from behind the opcode is what the documentation puts there
(`LengthTaken`); jumps and calls go to their target exactly when the documented
condition holds (`ConditionHolds`, `JumpsGo`, `CallsGo`), and what was pushed is on
top of the stack, also where the word wraps around the end of memory
(`ReadWordWritten`, `TopPushed`). The inductive invariant `LastInv` says that
`last` is an entry of the tables and that the processor is what its effect left,
but for the prefixes fetched since.
`IndexCorrect` (`IndexReplacesHL`): `Mirrors(c, d, u, v)` says that d is c with the
words u and v exchanged, in the registers and in the register table; every helper
and every group of instructions keeps it (`MirrorsSetWord`, `MirrorsOperand`,
`MirrorsLoad8`, ...), under the hypothesis that what always uses HL does not meet
an exchanged HL (`UsesHL`, `Apart`). So the effect on the exchanged processor is
the exchanged effect (`EffectSame`): IX against IY for all prefixed instructions,
IX or IY against HL for the plain ones that have no memory operand. For those with
one, `MemoryOperand` says that what is done at IX + d is what the plain instruction
does with HL at that address, wrapped to 64k.

Not proved, and only model-checked:

- liveness (`ReturnGetsThrough`, `EventuallyShown`, `PrintCompletes`,
  `EmulateReturns`, and that the block instructions end): out of the prover's reach;
- `PairsRestore` and `LoopsCount` of `Z80Transfer`, which are about the programs of
  the constant `Cases`: the constant says what each program should do;
- `RoundTrips` of `Alu`, which is about programs of up to nine instructions from
  the constant `Cases`; the run goes through all accumulators.

## 6. Where the code differs from what it says

Shown by runs that end in a counterexample:

- `socket_leak`: `TCP_Connect` keeps the descriptor of a failed connect
  (`network.c:199-201`) and of one that finds no slot (231), until the assert at
  184 fails.
- `keyboard_order`: reading a key loses the ones typed after it, because
  `memmove` starts at `&keybuf + 1` (`ttyinput.c:26`).
- `terminal_tab`: TAB to column 80 of the row below the screen, then a character:
  the cursor leaves the canvas (`ansitty.c:189-196` and 233).

Modelled as it is, and worth knowing:

- A READ with a DMA address above 0xFF80 writes behind the 64k of memory
  (`disk.c:98`), over `is_done`; RECV does so through `network.c:138`: `Cell`
  includes the bytes behind. The BIOS never does (`OutsideMemoryUntouched`).
- SIGPIPE is ignored only from the first connect on (`network.c:220`): a SEND to a
  stray descriptor before it can kill the process (`KilledByStrayOnly`).
- RECV with its data over bytes 1 and 2 of its own block loses those bytes to the
  results, and SEND and RECV take handles outside the table (`network.c:82`):
  `spoilt`, `StraySend`, `StrayRecv`.
- A reading of the clock can be late by a whole carry of L, so the clock seems to
  run back, because H is copied first (`sysbus.c:235`): `ReadingNeverAhead`.
- IN r,(C) gives A the byte of the port and the named register 0, which for A is
  the same register (`z80emu.c:2236`): `Inputs`.
- OUTI and OUTD set C from bit 6 of the byte (`z80emu.c:2402`): `PortFlags`.
- A test program's jump to 0 executes an OUT to port 0, which ends the process as
  an unhandled port; `zextest.c:114` says that it stops the emulation.
- SEND fails an assert for EAGAIN and ECONNRESET (`network.c:103`): `SendFails`.
- The key that finds the buffer full is stored behind it (`ttyinput.c:194`):
  `OverrunKey`; `FirstKeyIntact` holds until then.
- INIR, INDR, OTIR and OTDR with B = 0 go to -1 and on instead of ending after 256
  iterations, their counter being an int (`z80emu.c:2319`, 2442): `Body`. The run
  `block` starts them from the other values of B (`MCCounters`).
- INIR stores 0 and leaves the byte of the port in A, and OTIR and OUT (C),r send
  A, since the port macros pass their x by value and the bus uses A
  (`z80user.h:133-143`): `Input` and `Output`, in the reference too.
- The call after a HALT goes on behind it (`z80emu.c:1194`): `Halt`.
- A single-bit instruction on a register behind DD CB d leaves pc at the
  displacement (`z80emu.c:2498`): `IndexedCbPrefix`, `Fetch`; `ControlFollows`
  excludes it.
- EI behind a prefix does not delay interrupts when the budget ends there:
  `EiShadow` excludes it. Programs of DD, EI and DI only never leave
  `Z80Emulate`: `EmulateReturns` excludes them.
- Interrupt mode 2 goes to the vector's address and not to the address stored
  there.
- The sector before a track's first is the last of the track before; sector
  numbers above the geometry go on in the next track.
