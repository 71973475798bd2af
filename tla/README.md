# MagicOnLinux: verification

MagicOnLinux runs the Atari operating system MagiC on a Linux host. An
interpreter executes 68k code in a thread of its own; the main thread runs the
SDL event loop, SDL's timer thread provides the Atari's clock interrupts, and
the guest calls host functions ("emulator callbacks") from its kernel. The
modules here are translated from `src/src/*.cpp`, from the parts of the 68k core
that these use, and from the guest's interrupt handlers in
`src/kernel/HOSTBIOS/HOSTBIOS.S`.

## Inventory

| Part | State | Operations | What is hard | What makes it correct |
|---|---|---|---|---|
| Input (`MagiC.cpp`, `MagiCMouse.cpp`, `HOSTBIOS.S`) | ring buffer with two pointers, pending flag, host and guest view of mouse position and buttons | `send...` of the event loop, keyboard/mouse block of `EmuThread()`, `AtariGetKeyboardOrMouseData()`, `midikey_int`, `ikbdsys` | three writers of one ring, a reader that only counts bytes, full ring, guest position read while a packet is in flight | whole packets, nothing lost, nothing twice, guest and host agree in the end |
| Emulation loop (`MagiC.cpp`, `EmulationRunner.cpp`, `m68kcpu.c`) | `m_bCanRun`, two event words, pending flags, `sExitImmediately`, interrupt level and mask | `EmuThread()`, `OS_SetEvent()`, `OS_WaitForEvent()`, `sendHz200()`, `sendVBL()`, `AtariYield()`, `AtariExit()`, start and stop | four threads, plain flags next to mutexes, an idle guest that sleeps, interrupts that must not overwrite each other | no lost wakeup, every interrupt taken, no guest code after its exit, termination |
| Life cycle (`EmulationRunner.cpp`, `main.cpp`) | `m_bQuitLoop`, window, timer, `m_bEmulatorHasEnded` | event loop, user events, `LoopTimer()`, `EmulatorThread()` | quit asked for by other threads while the event loop sleeps | the program ends when the guest has, and never before its threads |
| Host handles (`HostHandles.cpp`) | 1024 counted file descriptors, 64 open directories with time stamps | `allocHostFD`, `findHostFD`, `freeHostFD`, `allocOpendir`, `getOpendir`, `closeOpendir`, `ptermOpendir` | sharing by inode, counts that the guest's kernel has to balance, least recently used entries taken away | a handle refers to what it was opened for; closed once, and only when unused |
| Host file system (`HostXFS.cpp`) | host path and flags per drive | `xfs_...`, `dev_...` | errors between two host calls, ejected drives with open files | errors leave no handle behind |
| Volume images (`volume_images.cpp`) | image per drive | mount, `remove_failed_volumes`, `AtariRwabs`, `eject` | starter thread, main thread and emulator thread without a lock, a dialogue between test and use | a drive belongs to one of the two file systems; tables and drive bits agree |
| Ethernet (`network.cpp`, `ethernet_linux.cpp`) | one packet per interface, `pending_interrupts` | receiver thread, `MXETH_...` calls, reset | condition variable without predicate, cancellation with a mutex held, a program end while the guest runs on | every packet is announced and acknowledged, "ifdown" comes back, no receiver uses a deleted handler |
| MMXDAEMON | start queue, `m_bShutdown` | polled by the guest | several callers | each program is started once |
| Serial, printer, clipboard, screen, sound, XCmd, native features, conversion, preferences, dialogues, register model | little or none | | | data formats and host I/O |
| 68k core (`m68k/`) | registers, condition codes, memory | one function per instruction, size and addressing mode | carry and overflow formulas, flags kept in bits of intermediate results, counts and widths beyond the operand, the order in which registers are stepped, read and written | programs compute what their integers say and change nothing else |
| MagiC kernel | | | guest code | modelled as far as the parts above depend on it |

The threads interact as follows. The main and the timer thread set a pending
flag, stop the CPU (`sExitImmediately`) and set an event; the emulator thread
leaves the CPU loop, turns pending flags into CPU interrupts and lets the CPU
run until `IRQCallback()` reports that the guest has taken them. The guest's
handler fetches its input bytes with a callback. An idle guest calls
`AtariYield()` and sleeps until an event is set.

## Modules

| Module | Models |
|---|---|
| `MagiCMouse` | class `CMagiCMouse`: its static variables and methods |
| `IkbdBuffer` | extends `MagiCMouse` by the ring, the senders, the keyboard/mouse block and the guest's handlers |
| `InputStream` | abstract specification: a bounded queue of whole messages read byte by byte |
| `MCIkbd` | instances of `IkbdBuffer` for TLC |
| `IkbdBuffer_proofs` | proofs about `IkbdBuffer` |
| `EmuThread` | the four threads, events, CPU hand-over, start and end |
| `InterruptRequests` | abstract specification: requests of the interrupt sources, one at a time |
| `EmuThread_proofs` | proofs about `EmuThread` |
| `HostHandles` | the tables of `HostHandles.cpp` and the host's descriptor numbers |
| `HostXFS` | extends `HostHandles` by the calls of `HostXFS.cpp` and the blocks of the guest's driver `HOSTXFS.S` |
| `OpenFiles` | abstract specification: which files are open, for whom, and which searches run |
| `MCHostXFS` | instances of `HostXFS` for TLC |
| `HostXFS_proofs` | proofs about `HostXFS` |
| `Network` | receiver thread, the guest's network driver, `CNetwork::exit()` |
| `Network_proofs` | proofs about `Network` |
| `Drives` | disk images, host directories and the guest's drive bits, used by three threads and a dialogue |
| `MCDrives` | an instance of `Drives` for TLC |
| `Drives_proofs` | proofs about `Drives` |
| `M68kAlu` | results and condition codes of the 68k core's instructions |
| `M68kRoutines` | instructions on data registers and conditional branches; short guest programs of them |
| `M68kMemory` | extends `M68kRoutines` by memory, effective addresses, and arithmetic and logic with operands in memory |
| `M68kMoves` | extends `M68kMemory` by moves, arithmetic with addresses, `MOVEM` and `MOVEP` |
| `M68kControl` | extends `M68kMoves` by checks, semaphores, jumps, frames and bit fields in memory; the next-state relation of programs |
| `M68kGuest` | guest programs of both, for TLC, and what they must leave |
| `M68kAlu_proofs` | lemmas about results, carries, overflows and conditions, for every operand size |
| `M68kGuest_proofs` | proofs about programs of numbers and comparisons, and of calls and stack frames |
| `M68kRoutines_proofs` | proofs about shifts, products and quotients, repeated any number of times |

Definitions with a comment "mutant", "plausible other" or one that begins with
"..." are wrong on purpose.
Nothing refers to them; put in place of the definition they accompany they show
that a property notices the mistake.

### IkbdBuffer and MagiCMouse

Variables have the source's names. The ring is a function from slots to cells;
a cell is a byte's kind (key, first byte of a mouse packet, ...) and its value.
The kind is what the sender means; the guest, like `ikbdsys`, only counts, and
`ikbd` becomes `"outOfStep"` when its count and the sender's kind differ.
`m_pKbRead` and `m_pKbWrite` are indices. Each handler is one action because it
runs under `m_KbCriticalRegionId` as a whole or in the emulator thread only:

| Code | Action |
|---|---|
| `sendSdlKeyboard`, `sendMousePosition`, `sendMouseMovement`, `sendMouseButton`, `sendJoystickState` | same names |
| `EmuThread()`, lines 1384-1448 | `HandleKbMouse` |
| interrupt acceptance, `IRQCallback()` | `IRQCallback` |
| `ikbdsys` with `AtariGetKeyboardOrMouseData(0)` | `ikbdsys` |
| end of the loop of `midikey_int` with `AtariGetKeyboardOrMouseData(1)` | `mdki_loop` |
| `AtariVdiInit()`, `CMagiCMouse::init()` | `AtariVdiInit`, `MouseInstall` |

`m_bEmulatorIsRunning` is taken as true. Movements are doubles in the code and
multiples of `1/FRAC` pixel here. Constants are the ring's length, the packet's
largest step (127), the axes and the mouse mode. Between two actions of the guest's
handler the host may act; the guest's handler itself is not interrupted by
another interrupt 6.

`JoystickWithoutRoom` is the one assumption: the code writes the joystick's
answer without looking for room, and with `TRUE` the ring's properties are
false (`MCIkbdVJoy.cfg`). The other runs and three of the theorems set it
to `FALSE`, that is they are about guests that poll the joystick while the ring
has room.

### EmuThread

The program counters are `emu` for the emulator thread and `at[s]` for the main,
timer and starter threads. `OS_SetEvent()` is two steps, setting and signalling,
as it uses two mutexes; setting the pending flag and stopping the CPU are
two more. `OS_WaitForEvent()` is `Ask` (test under `m_ConditionMutex` and sleep)
and `Take`. `kbRegion` is `m_KbCriticalRegionId` held by the main thread, which
stops the CPU and signals inside of it.

The CPU is `CPU_INT_LEVEL`, `FLAG_INT_MASK` and `sExitImmediately`.
`CheckInterrupts` accepts a request above the mask, which calls `IRQCallback()`.
The guest is arbitrary: whenever it executes it sets an interrupt mask of
`GuestMask`, yields, exits or reports an error. `m68k_execute()` is called from
five places; `caller` remembers which.

What is data to this module - the bytes behind a keyboard interrupt - is a
nondeterministic choice in `EmuKbMouse`, decided in `IkbdBuffer`.

### HostHandles and HostXFS

`HostHandles` has one operator per function of `HostHandles.cpp`; the host's own
table `hostFd` gives out its lowest free number, so a descriptor closed once
too often or kept too long soon denotes another file. `HostXFS` has one action
per call of the guest's driver, with what it does on both sides:

| Code | Action |
|---|---|
| `xfs_drv_open`, `xfs_drv_close` with `mxfs_...` | `drv_open`, `drv_close` |
| `CHostXFS::setNewDrv()`, `eject()` | `setNewDrv`, `eject` |
| `xfs_path2DD`, `xfs_freeDD` | `path2DD`, `freeDD` |
| `hostpath2HostFD()` that fails behind `openat()` | `OpenFailed` |
| `xfs_fopen`, `dev_close`, the kernel's copies of a handle | `fopen`, `dev_close`, `Fdup` |
| `xfs_sfirst`, `xfs_dopendir` | `opendir` |
| `xfs_snext`, `xfs_dreaddir`, `xfs_drewinddir` | `readdir`, `snextEnd`, `rewindRefused` |
| `xfs_dclosedir`, `xfs_pterm` | `dclosedir`, `pterm` |
| a DTA copied in guest memory; the clock | `CopyDTA`, `Tick` |

A path is the inode it denotes now. Between `fstatat()` and `openat()` another
host process may rename it, so `OpenedDirectory` may open an inode other than
the one that was looked up. The guest's blocks (`dd`, `file`, `search`) record
what they were opened for; this is history that the properties compare with.
`lost` counts roots that `mxfs_drv_close` frees without `xfs_freeDD()`.
That a hash value is new is an assumption: it is a 31 bit random number.

### Network

One interface: `Preferences::eth` can only configure `eth[0]`. `receiver` is the
place in `receiveFunc()`, `guest` the place in the driver. The condition
variable has no predicate: a signal wakes a receiver that waits and is lost
otherwise, and `spuriousWakeup` is always possible there. `cancel` may act in `recv()`
and in `pthread_cond_wait()`, where the mutex is locked again before the thread
ends. `CNetwork::exit()` does not wait for the emulator thread (`main.cpp:806`; only `~CMagiC`
joins it), so `exit` may begin wherever the guest is, and the guest runs on. `delete handler` and
`handlers[i] = NULL` are two steps. If both threads join one receiver, either join may return
at once. One receiver is started at a time. What happens in a deleted handler is undefined: the model says
whether a receiver is left in it, the liveness properties claim nothing after that.
The constant `Restarts` says whether the guest brings the interface up again.

### Drives

`drv_images`, `drv_volumes` and their fields are functions with the source's
names. The calls that change them are single steps; a dialogue, an alert, and the
two halves of `updateDriveBits()` (read both tables, store `_drvbits`) are steps
of their own. Formats of partition tables are the number of partitions found.

Three threads use the tables and no lock protects them: `starter` is `CMagiC::init()` in the starter
thread (`activateXfsDrives`, `initDrvBits`, `initImages` for each configured image,
`starterReadsBits`, `startEmulator`), `main` the event loop, `guest` the emulator thread. All
their steps interleave freely. `DropDuringStart` is the one assumption: with `TRUE` files are
dropped on the window while the starter is still at work, and then the tables do not stay
consistent (`MCDrivesVStart.cfg`). The two runs and all theorems but
`DrivesTypes` set it to `FALSE`, that is they are about users who drop their first file when the
emulator has been started. It is about files that are dropped; nothing is assumed about main thread and guest.
The program end that overtakes the starter is not modelled here (`EmuThreadVQuit.cfg` is about it), and a race inside
a single call is not modelled at all.

### The 68k core: M68kAlu, M68kRoutines, M68kMemory, M68kMoves, M68kControl, M68kGuest

The core has a function for each instruction, size and addressing mode, generated
from one pattern. `M68kAlu` has one operator for the result and the condition codes of each
instruction, with the size as parameter; 32 bit forms that the code computes
differently have operators of their own (`..._32`). `M68kRoutines` has the instructions on
data registers, one action for each group, and the modules that extend it the others:

| Code | Definition |
|---|---|
| `m68ki_read_..._fc`, `m68ki_write_..._fc` | `Read`, `Write` |
| `EA_AY_AI_8()` .. `EA_PCIX_32()`, `m68ki_get_ea_ix()` | `EA`, `Step`, `m68ki_get_ea_ix`, `FullExtension` |
| `OPER_AY_AI_8()` .. `OPER_I_32()` | `Source`, `Value` |
| `m68ki_push_32()`, `m68ki_pull_32()`, `m68ki_jump()` | `Push`, `Pull`, `Jumps` |
| `m68k_op_add_8_er_ai()`, `..._pi()`, ... | the action `add_8_er`, one for each instruction, form and size |
| `m68k_op_mull_32_ai()` and others that are long in the code | an action for each addressing mode |

An action finds its operands one after the other, as the C function does: each
`EA` is given the state that the one before has left, so an address register that is
stepped, then used or stored, has the value it has in the code. Where C leaves the order
open (`*r_dst - OPER_AY_PI_32()` with one register twice) the action may do either.

Memory is big endian; the trials use 32 bytes, those of calls 52. The program is not in memory: `code` is a
sequence of instructions and the program counter counts them. Registers are `D0` to
`D3`, `A0`, `A1` and `A7`. An exception (division by zero, `CHK`, `TRAPcc`) ends the
program with `pc = Trapped`. Bit fields take offset and width from registers; the constants in the
extension word are values of these.

`M68kGuest` has a trial for each question: it lays operands out, says by its own arithmetic
where a mode has to find them, and after the program the property compares registers,
memory and condition codes with integers and bit strings. What it expects does not come
from `EA` or from the operators of the instructions.

## Runs

| Run | Shows | Bounds |
|---|---|---|
| `ikbd_abs` | `TypeOK`, `Framing`, `NothingLeftBehind`; the ring implements `InputStream` (`StreamSpec`); `InputArrivesUnlessStuck` under `FairSpec` | one axis, ring of 6 cells, 5 host events, steps of 1, positions 0..2 |
| `ikbd_rel` | `MovementConserved` in relative mode | both axes, movements of 1/2 and 3/2 pixels, 4 host events |
| `emu_live` | `InterruptsServed` under `FairSpec` | keyboard and VBL, two ticks per VBL, a guest that yields |
| `emu_end` | `WakeupsDelivered`, `NoGuestAfterExit`; the threads implement `InterruptRequests` (`RequestsSpec`); `TerminationEnds` under `FairSpec` | keyboard and 200 Hz, guest masks 3 and 7, all guest calls |
| `xfs_files` | `TypeOK`, `RefsBalance`, `FdsOwnedOnce`, `HandleNamesItsFile`, `InoOnce`; the tables implement `OpenFiles` (`OpenFilesSpec`) | 3 handles, 4 descriptors, 2 directories and a file, 3 directory blocks, 2 files, one drive |
| `xfs_search` | `SearchNeverCrosses`, `OpenFilesSpec` | 2 entries, 2 searches, 2 processes, 2 time steps |
| `network` | `TypeOK`, `WaitingIsPending`; `AckArrives`, `PacketRaisesInterrupt`, `StopReturns` | none: the model is finite |
| `drives` | `TypeOK`, `TablesAgree`, `NoPartitionTwice`, `OneMedium`, `AlertedImageStays`, `NothingLeftMounted` | 3 drives, 3 image files, 2 images of 2 partitions |
| `m68k` | `MultiPrecision`, `ConditionsCompare`, `ShiftsRepeat`, `ProductsAndQuotients`, `ConditionsDecide`, `FieldsInMemory`, `OperandsInMemory`, `BlocksMoved`, `FramesUnwound` | bytes of 2, words of 4 and longs of 8 bits, 32 bytes of memory |
| `network_v_restart`, `network_v_end`, `drives_v_bits` | disagreements of code and comments, below | as above |

Five host events in a ring of six cells fill it (five bytes fit), wrap both
pointers, and let a key arrive in the middle of a packet; a step of one pixel
with three positions needs two packets for one movement. In `EmuThread` nothing
is bounded but the tick counter, which the code only uses modulo 4 (`HZPERVBL`);
2 keeps VBL and non-VBL ticks apart. For their liveness the two runs share the interrupts out:
`emu_end` has ticks without VBL requests, `emu_live` VBL requests every second tick. The safety properties of
`emu_end` are proved for all of them; `EmuThreadSafe.cfg` checks them with all three interrupts at once
(6.4 million states, by hand).

The runs of `IkbdBuffer` have `CHECK_DEADLOCK FALSE`: when the host has sent its
`MAXEVENTS` events and the guest has fetched them, nothing is left to do.
`EmuThread` is checked for deadlock, and so are the runs of `HostXFS`.
`Network` and `Drives` stop when the program has ended, a guest program of `M68kGuest`
when it is through, so these runs have `CHECK_DEADLOCK FALSE`.

Three handles and two searches are full tables: a fourth open fails, a third
search takes an entry away. References of closed drives are lost for good and
only grow in number; the constraints `LittleLost` and `NothingLost` stop there.
The views of `MCHostXFS` and `MCDrives` identify states that differ in what nobody
reads again (a free entry, the name of a hash value); symmetry permutes
files, processes, blocks and, in `MCDrives`, image files and floppy drives. No liveness is
checked with a view or symmetry. In `MCDrives` two images and three files let the table run full; the run
has 1.9 million states.

The properties of `m68k`, each about programs of several instructions:

- `MultiPrecision`: `ADD` and `ADDX` on halves are one addition, `SUB` and `SUBX` one
  subtraction, with the flags of the whole; decimals are added digit by digit.
- `ConditionsCompare`: after `CMP`, `CMPA` and `CAS` on registers every condition decides like
  the integers that were compared, signed and unsigned.
- `ShiftsRepeat`: a shift by n is n shifts by one, for every n that a register can hold.
- `ProductsAndQuotients`: the quotient times the divisor plus the remainder is the dividend.
- `ConditionsDecide`: after a comparison in memory `Bcc`, `Scc` and `TRAPcc` decide like the integers;
  `CHK` and `CHK2` trap just outside of the bounds; `CAS` and `CAS2` exchange all or
  nothing; of two `TAS` on one byte only the first finds it free.
- `FieldsInMemory`: bit fields are numbers in a string of bits, in registers (which they
  go round) and in memory, with negative offsets and over five bytes.
- `OperandsInMemory`: every mode finds its operand, steps its register once, and changes
  nothing else; chains of `ADDX -(AY),-(AX)` and `CMPM (AY)+,(AX)+` process numbers of any length.
- `BlocksMoved`: what `MOVEM` stores another `MOVEM` loads, with the stepped register in
  the list; `MOVE` between overlapping places; `MOVEP`, `EXG`, `LEA`, `PEA`.
- `FramesUnwound`: after nested calls with `LINK`, `UNLK`, `RTS` and `RTD` the stack and the frame
  pointers are what they were, and the return addresses are those of the callers.

A word of 4 bits has every case of sign, carry, overflow and rotation that one
of 16 bits has, and a word is two bytes and a long two words as in the code. On registers
operands are complete words, counts are complete (0 to 63) and decimals
are complete bytes (of 8 bits, as the code's); longs are taken next to each change of a carry or
a sign (`LongEdge`). In memory operands are 0, 1, the smallest negative and the largest number of
their size (`Limits`, `Edge`), with all modes, registers and sizes. What this does not show is a
constant of the code that only fits 16 or 32 bits; these constants were compared by reading.

### Fairness

`IkbdBuffer`: weak fairness of the emulator thread's and the guest's steps. The
host owes nothing.

`EmuThread`: weak fairness of the emulator, timer and starter threads and of
threads inside `OS_SetEvent()`: the host's scheduler. The event loop owes no
new event. Three assumptions are stronger, and justified by ticks and events
being milliseconds apart while a loop of the emulator thread takes
microseconds: `SF(EmuKbMouse)` (the main thread does not hold the region each
time), `CpuGetsTime` (the CPU executes, it is not stopped each time before its
first instruction) and `SF(SetStatusRegister(Open))` (a guest that executes
again and again opens its interrupt mask at times). A guest that masks its
interrupts for ever does stop the emulator thread from serving others, but not
from ending.

`Network`: weak fairness of the receiver and of the exiting main thread (the
host's scheduler), of the guest's driver, and of its poll, since VBL interrupts go on until the
guest ends. Nothing makes a packet arrive.

The other modules state no liveness: their calls run to the end.

## Where code and comments disagree

Three runs of the project end in a counterexample:

- `network_v_restart`: a receiver cancelled while it waits for its acknowledge
  leaves `intLock` locked. The next receiver announces nothing, "but needs to be
  triggered, anyway" (`network.cpp:496`), and as it cannot be cancelled in
  `pthread_mutex_lock()` the next "ifdown" hangs the emulator thread, too.
- `network_v_end`: `exit()` says "Stop reception thread" (`network.cpp:78`) and then
  deletes the handler. The guest still runs; it brings the interface up between the two, and
  the new receiver goes on in the deleted handler.
- `drives_v_bits`: the drive bits are updated "whenever a volume is added or removed"
  (`MagiC.cpp:2891`). The guest, which has ejected a volume, reads both tables; the main
  thread mounts a dropped image and stores its bits; the guest stores the older ones.
  The image is mounted and is no drive of the guest. Both threads call `updateDriveBits()`
  without a lock; `HostXFS.h:81` and `volume_images.cpp:1044` say "TODO: add semaphore".

The following configurations end in a counterexample as well; they are kept for
being run by hand (`tlc -config MCIkbdVStuck.cfg MCIkbd` and so on):

- `MCIkbdVStuck.cfg`: with fewer than three free cells `EmuThread()` forgets the
  pending input (`MagiC.cpp:1387`) and raises no interrupt. If none is raised
  already nothing empties the ring again: keyboard and mouse are dead.
  `NothingLeftBehind` and `InputArrivesUnlessStuck` name this case.
- `MCIkbdVJoy.cfg`: `sendJoystickState()` does not look for room.
- `MCIkbdVPtr.cfg`: `setNewPosition()` reads the guest's pointer while a packet
  is unread; the pointer ends up beside its target.
- `MCIkbdVPhantom.cfg`: a relative movement stays where it was stored and is added
  again for every later key or button.
- `EmuThreadVSleep.cfg`: `m68k_execute()` clears a stop it has not seen; with the event
  taken by one `AtariYield()`, the next one sleeps while an interrupt is pending.
  The next tick, 5 ms later, repairs this (`InterruptsServed`).
- `EmuThreadVStop.cfg`: the wait loops run the guest after `stopExec()`.
- `EmuThreadVQuit.cfg`: a quit while the emulator is being started is forgotten.
- `MCHostXFSVWrite.cfg`: `allocHostFD()` hands out the descriptor the file already has,
  which may have been opened for reading only; `dev_stat()` says of it "we can
  always write" (`HostXFS.cpp:3098`).
- `MCDrivesVStart.cfg`: a file is dropped while the starter thread has not mounted the configured images.
  The dialogue offers a drive that is configured, and both are mounted on it, the
  second over the first; `setNewDrv()` does not look whether the drive is taken. At the end
  the first image is left, against "assert(drv_images[i] == nullptr)" (`volume_images.cpp:109`).

Met while modelling, without a run:

- `Network`: after a spurious wakeup a packet that the guest has not
  read is overwritten; a poll just before the bit is cleared reads a packet
  twice, or the length -1 of the next one. `CNetwork::reset()` is never called. Interrupt levels
  other than the default raise nothing.
- `Drives`: `setNewDrv()` of `CHostXFS` does not set `xfs_drvbits`, although
  `MagiC.cpp:2889` has the bits updated "whenever a volume is added or removed"; a dropped
  directory is no drive of the guest. After `xfs_drv_close()` an eject leaves the
  bit set. A drop that is cancelled has ejected failed volumes without updating
  the drive bits. An image that cannot be opened is never tidied up, and tidying
  may eject a volume that the guest is just mounting. Images are always opened read-only
  (`volume_images.cpp:972`). A second `mountDriveParameter` overwrites the first.
- `HostXFS`: `xfs_path2DD()` accepts an open regular file as a directory
  (line 983), although it demands `O_DIRECTORY` of one that is not open.
  `xfs_dfree()` multiplies by the number of blocks twice (2600-2660); a branch
  of `xfs_attrib()` is unreachable (1968-2040).
- `M68kAlu`: `DIVS` answers -2^31 by -1 with 0 and V clear (`m68kopdm.c:395`),
  `DIVL` reports the quotient -2^31 as an overflow (1239). `ROL.L` by 32 shifts by
  the register's width (`m68kopnz.c:3183`), which C leaves undefined; not modelled.
- `M68kMemory`, `M68kControl`: word displacements of full extension words are not sign extended
  (`m68kcpu.h:1266`, `MAKE_UINT_16`). A bit field that reaches into a fifth byte is changed and
  tested there with a mask that was not shifted by the offset (`m68kopac.c:5345`, 7105, 7749);
  `FieldsInMemory` asks for the right bits where the field ends in the first four
  bytes or is extracted. `CHK2.B` compares the lower bound signed and
  the upper one unsigned (`m68kopac.c:9905`, 9916); `ConditionsDecide` is about bounds of
  one sign there. `SUBA (AY)+,AY` depends on the C compiler (`m68kopnz.c:6304` and below).

## Proofs

For every value of the constants, from the assumptions on constants that each module names:

- `IkbdBuffer_proofs!TypeCorrect`: the pointers stay in the ring, whatever the
  joystick does.
- `FramingHolds`, `NothingLeftBehindHolds` (with `~JoystickWithoutRoom`).
  `Framing` is inductive with `TypeOK`: a message put behind whole messages
  leaves whole messages, a byte read leaves `ikbdsys` waiting for the byte that is
  now first. The lemmas about `Occupied` say which slots are unread
  after each change of a pointer. `NothingLeftBehind` needs `Framing`, as
  the guest leaves its handler with an empty ring only, and an empty ring means
  the end of a packet.
- `RingImplementsQueue` (with `~JoystickWithoutRoom`): `Contents`, the unread
  cells in order, is the queue; each action is a `Put`, `Get`, `PutAndGet` or
  changes nothing.
- `OnePacketHolds`, `MovementIsConserved` (with `~JoystickWithoutRoom`): what is on its way to the guest's
  pointer is a sum over the unread cells, and sums over cells that come and go would need laws of a
  fold. `OnePacketInFlight` avoids it: `HandleKbMouse` makes a packet when the
  ring is empty, so on each axis at most one cell counts. `Total` of no cell and of one cell
  follow from its definition, the rest is one lemma for each way the ring changes.
- `EmuThread_proofs!TypeCorrect`.
- `WakeupsAreDelivered` (`WakeupsDelivered`): no wakeup is lost and none is for nothing; with the types
  this is inductive as it stands.
- `RequestsKept` (`RequestKept`, an action property that `RequestsSpec` contains, so no run checks
  it by itself): the invariant `IrqInv` says that `m_bInterruptPending` agrees with the CPU's level, and that outside of its wait loops the emulator
  thread has no request outstanding unless the program ends (`Quiet`).
- `RequestsImplemented`: the threads implement `InterruptRequests`. The pending flags are the sources that
  wait, the CPU's level is the request. `HandOver` demands that no request
  is outstanding unless the program ends, which is `Quiet` of `IrqInv`; each step of each
  thread is a step of the abstract module or a stutter.
- `GuestStaysOut` (`NoGuestAfterExit`): `ExitInv` says who asks for the end
  (`EndAskedFor`: the guest's exit, or the main thread on its way to the end), that
  the starter does not come back (`NotYetRun`), and that a thread that left
  the CPU loop for the end stays on that way (`LeftForGood`). It rests on `Quiet`: an
  outstanding request would take the thread back into the loop.

- `HostXFS_proofs!HandlesInvariant`: `IInv` joins the types and `RefsBalance` with `Tables` (used
  handles and running searches own distinct open descriptors, and no other
  descriptor is open; used handles have distinct inodes, each that of its
  descriptor), `Blocks` (each block's handle is in use and has its inode) and
  `SearchLeads` (an entry with a search's hash reads the search's directory). None
  is inductive alone: `freeHostFD()` closes a descriptor, and only the balance of
  references tells that no other block named it. Lemmas for acquiring and
  releasing a reference (`AddRefAcquires`, `AllocAcquires`, `FreeReleases`) and for giving
  it to a block or taking it away are shared by the actions. The six
  theorems behind it state the runs' properties. The proofs hold for tables of
  any size, any guest and any host.
- `OpenFilesImplemented`: the tables implement `OpenFiles`. The files held are the inodes of used handles.
  `Close` of the abstract module keeps a file that another block or a
  root left behind needs, `freeHostFD()` one whose counter is not 0: that both agree is
  `HeldAreNamed` (a used handle's file is denoted by a block or left behind), which
  follows from `RefsBalance`. For searches a hash value stands for the slot whose entry has it;
  a new entry gets a new hash value, and this is what takes a slot from all copies of an old search.
  `OpenOnFiles` (blocks denote files of the host, never `NoIno`) is its only further invariant.
- `Network_proofs!NetworkTypes`, `WaitingReceiversArePending`: with restarts, and with a guest that runs on.
- `Drives_proofs!DrivesTypes` holds whatever is dropped when.
- `DrivesInvariant` (with `~DropDuringStart`, as the theorems below it): `IInv` is `Tables` (types, `TablesAgree`, no two images
  with one path, a boot sector is read from an open image only), the
  types of the rest, `OneMedium`, `Alert` (the image of an open alert exists and
  is still closed, so none of its volumes was read and tidying keeps it) and `Starting`
  (before the starter is done the event loop has dropped nothing and the guest does not run; what it
  still has to mount is free).
  `NoPartitionTwice` needs that two images never have the same path.
  `ExitLeavesNothing` (`NothingLeftMounted`) adds `Ended`: after `exit()` no drive is mounted and
  nobody is left to mount one; with the tables consistent no image is left then.

- `M68kGuest_proofs!MultiPrecisionHolds`: for words and longs of every size. `NumberInv` follows each
  routine from instruction to instruction: `Halfway` says that between two halves the lower word is
  right and X is its carry or borrow, as a number; the lemmas `AddLow` to `NegHigh` put the
  halves together, and `BothHalves` says that a correct upper word, with Z of both, makes a correct long.
  They rest on `M68kAlu_proofs`, where each instruction is shown to be `Correct`: its
  result is that of the integers cut to the size, C says that the unsigned result and V
  that the signed result does not fit. The carry taken from the bit above the result (`CFLAG`) and
  the formula of three signs (`CFLAG_ADD_32`, `CFLAG_SUB_32`) meet in the same lemmas, `Carries` and `Borrows`.
  Digits are proved for all bytes of two digits.
- `ConditionsCompareHolds`: `CompareInv` says the same of comparisons; `OrderDecides` derives
  all conditions from C, Z, N and V, `OrderIs` these from the difference.
- `FramesUnwoundHolds`: for every size of a word, and calls up to four frames deep: two recursive subroutines, one with the number in a local variable of each frame (`BSR`, `LINK`,
  `UNLK`, `RTS`), one with it pushed (`PEA`, `JSR`, `LINK`, `UNLK`, `RTD`). `Standing(k)` says what is so at each instruction
  with k frames: `Linked` that each frame holds the frame pointer of the one below and its return address, `Kept` that each
  local variable is still there, and where the stack pointer is. One lemma per instruction of a program (`LocalCalls` to
  `ArgumentEnds`) leads from k frames to k, k + 1 or k - 1; it needs that a long written below the frames leaves them alone
  (`WriteBelow`), which is about bytes: `ReadBack` and `ReadOther`. `ChainIs` derives from `Linked` that the chain of frame
  pointers goes up and ends at the caller's. The effective addresses these programs use are worked out in `EAIs`.
  `OwnInv` is the same for LINK with the stack pointer as its own frame pointer.
- `M68kRoutines_proofs!ShiftsRepeatHolds`: each of the eight shifts and rotations by a count, for every
  size and every count up to 63. `ShiftInv` says where the program stands; what one instruction
  leaves for a count of n is shown to be n single shifts by induction on n: per instruction, one lemma for no shift
  (C is cleared, or X for a rotation through X), one for a step from n to n + 1 (`ASLStep`, `ROXRStep`, ...) and one that
  puts them together (`ASLRepeats`, ...). V of `ASL` is the case that needs most: it is set if the sign changed at any
  time, which the code tests with one mask of n + 1 bits.
- `ProductsAndQuotientsHolds`: for all operands, words and longs, signed and unsigned, a product is that of
  the integers, a quotient and a remainder are the only ones that the definition of division allows, and V and N
  tell what was cut off. `ProductInv` says where the program stands. The product of longs is put together from four
  products of words with two carries (`m68kopdm.c`), the quotient of 64 bits is found bit by bit: `DivideStep` keeps
  "remainder + divisor * quotient = the bits taken so far, remainder < divisor", which is proved by induction
  on the number of bits.
- All theorems about `GuestSpec` are about all of it, so the trials in memory and the other
  instructions are shown not to matter: they run other code (`KindsUnrelated`) or keep code and
  routine (`MemorySteps`, `RegisterSteps`).

The induction theorem of the library takes an operator as its parameter, which the provers cannot instantiate. The
proofs use its set form instead, which they can: a set of numbers with 0 and
with n + 1 for each of its n < m has all numbers up to m (`InductionUpTo`, from `LeastIs`). With it `M68kAlu_proofs`
derives the laws of exponentiation. The assumption `PowersOfTwo` of `M68kRoutines` is only the definition of 2^n up to
n = LONG + 1, of which the provers know nothing; TLC evaluates it for the run's sizes.

Model-checked only:

- `FieldsInMemory`, `OperandsInMemory`, `BlocksMoved`: they are about fixed programs with
  many operands in memory, checked for each program by running it. What an instruction does with an operand in memory is
  the same `Result` on the same numbers as in registers, which the theorems cover; what these
  runs add are addresses, and a proof would follow each program through its own addresses, as `FramesUnwoundHolds` does
  for two.
- `ConditionsDecide`: among its trials are those that use the checked size itself (the sign bit of a semaphore
  is 2 for bytes of two digits), so it is a statement about this size.
- Liveness: `InputArrivesUnlessStuck`, `InterruptsServed`, `TerminationEnds`, `AckArrives`,
  `PacketRaisesInterrupt`, `StopReturns`. Fairness and `ENABLED` are out of the prover's reach.

## Plan

1. Bus errors and the nested execution of `AtariExec68k()` in `EmuThread`.
2. Read positions and access modes of shared descriptors in `HostXFS`.
3. Exceptions of the 68k core: stack frames, the privileged instructions and moves of the status register.
4. Proofs: the operands of `OperandsInMemory` and `BlocksMoved`. `ReadBack`, `ReadOther` and `EAIs` are the beginning; the
   remaining effective addresses need a lemma each.

## Not modelled

Name and character conversion, partition tables, boot sectors, pixel formats, serial and
printer I/O, dialogues: data formats and host calls without interaction of
several actors. The same holds for calls of the host file system that change
the host only. The life cycle of the window is one flag and SDL's event queue,
whose promises are SDL's. MMXDAEMON polls a queue that is filled before the guest
runs. Of the 68k core, exception processing, the privileged
instructions, moves of the condition codes (with `RTR`), `MOVEQ`, `EXTB`, `PACK` and `UNPK`,
decimals in memory, `MOVE16`, `MOVES` and the coprocessor are left out. The
MagiC kernel is guest code; apart from its interrupt handlers and the host file
system's driver the guest is modelled as any program.
