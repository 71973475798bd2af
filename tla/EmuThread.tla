----------------------------- MODULE EmuThread -----------------------------
(***************************************************************************)
(* The threads of the emulation and how they hand over to each other:      *)
(*                                                                         *)
(*   emulator   EmuThread(): runs the 68k, raises its interrupts, sleeps   *)
(*              in AtariYield() when the guest is idle                     *)
(*   timer      LoopTimer(): the 200 Hz and the VBL tick                   *)
(*   main       EventLoop(): keyboard and mouse, and the end of the        *)
(*              program                                                    *)
(*   starter    EmulatorThread(): creates and starts the emulator thread   *)
(*                                                                         *)
(* They share plain flags, two event words guarded by m_EventMutex with    *)
(* one condition variable for both, and the CPU core's sExitImmediately.   *)
(* The guest is any program: it sets its interrupt mask, yields, exits or  *)
(* reports a fatal error whenever it executes.  What a keyboard interrupt  *)
(* carries is the subject of module IkbdBuffer.                            *)
(*                                                                         *)
(* A mutex section that only protects one access is one step; so is        *)
(* everything a thread does to variables that are its own.                 *)
(***************************************************************************)
EXTENDS Naturals

CONSTANTS HZPERVBL,         \* 200 Hz ticks for one VBL: 4
          Interrupts,       \* those not compiled out (_DEBUG_NO_ATARI_..._INTERRUPTS)
          GuestMask,        \* interrupt masks the guest's own code sets
          GuestCalls,       \* host functions it uses, of AtariYield, ...Exit, ...Error
          QuitDuringStart   \* SDL_QUIT may come before startExec() is through

Source == {"KBMOUSE", "200HZ", "VBL"}
Open == 3                     \* interrupt mask of a guest that takes interrupts
Mask == {Open, 4, 5, 6, 7}

ASSUME EmuAssumption ==
    /\ HZPERVBL \in Nat \ {0}
    /\ Interrupts \subseteq Source
    /\ GuestMask \subseteq Mask
    /\ Open \in GuestMask
    /\ GuestCalls \subseteq {"Yield", "Exit", "Error"}
    /\ QuitDuringStart \in BOOLEAN

Sender == {"main", "timer", "starter"}

VARIABLES
    m_bCanRun,
    m_EmulatorRunning,        \* EmulationRunner: the timer may send ticks
    m_bEmulatorIsRunning,
    m_bEmulatorHasEnded,
    event,                    \* m_EventId and m_InterruptEventsId
    pending,                  \* m_bInterrupt...Pending
    m_bInterruptPending,      \* an interrupt was raised and not taken yet
    m_bWaitEmulatorForIRQCallback,
    sExitImmediately,
    CPU_INT_LEVEL,            \* the level raised, 0 if none
    FLAG_INT_MASK,            \* the guest's interrupt mask
    emu,                      \* where the emulator thread is
    caller,                   \* where m68k_execute() returns to
    waitFor,                  \* event word OS_WaitForEvent() is called with
    kbRegion,                 \* m_KbCriticalRegionId is held by the main thread
    at,                       \* where each of the other threads is
    sends,                    \* the flag it is about to set, or "none"
    m_200HzCnt,
    exited                    \* auxiliary: the guest has called AtariExit()

guestVars == <<CPU_INT_LEVEL, FLAG_INT_MASK, m_bInterruptPending>>
lifeVars == <<m_EmulatorRunning, m_bEmulatorIsRunning, m_bEmulatorHasEnded>>
emuVars == <<caller, waitFor, m_bWaitEmulatorForIRQCallback>>
senderVars == <<kbRegion, at, sends, m_200HzCnt>>
vars == <<m_bCanRun, lifeVars, event, pending, sExitImmediately, guestVars,
          emu, emuVars, senderVars, exited>>

Flag == Source \cup {"RUN", "TERM"}
EventWord == {"m_EventId", "m_InterruptEventsId"}
Word(flag) == IF flag \in Source THEN "m_InterruptEventsId" ELSE "m_EventId"
TermRequested == "TERM" \in event["m_EventId"]

Init ==
    /\ m_bCanRun = FALSE
    /\ m_EmulatorRunning = FALSE
    /\ m_bEmulatorIsRunning = FALSE
    /\ m_bEmulatorHasEnded = FALSE
    /\ event = [w \in EventWord |-> {}]
    /\ pending = [k \in Source |-> FALSE]
    /\ m_bInterruptPending = FALSE
    /\ m_bWaitEmulatorForIRQCallback = FALSE
    /\ sExitImmediately = FALSE
    /\ CPU_INT_LEVEL = 0
    /\ FLAG_INT_MASK = 7
    /\ emu = "none"
    /\ caller = "run"
    /\ waitFor = "m_EventId"
    /\ kbRegion = FALSE
    /\ at = [s \in Sender |-> IF s = "starter" THEN "create" ELSE "idle"]
    /\ sends = [s \in Sender |-> "none"]
    /\ m_200HzCnt = 0
    /\ exited = FALSE

Goto(s, place) == at' = [at EXCEPT ![s] = place]

-----------------------------------------------------------------------------
(* OS_SetEvent(), in two steps; whoever sends an interrupt stops the CPU     *)
(* before, whoever asks for termination stops it afterwards.                 *)

m68k_StopExecution(s) ==
    /\ at[s] \in {"stop", "stopExec"}
    /\ sExitImmediately' = TRUE
    /\ Goto(s, IF at[s] = "stop" THEN "set" ELSE "canNotRun")
    /\ UNCHANGED <<m_bCanRun, lifeVars, event, pending, guestVars, emu, emuVars,
                   kbRegion, sends, m_200HzCnt, exited>>

OS_SetEvent(s) ==
    /\ at[s] = "set"
    /\ event' = [event EXCEPT ![Word(sends[s])] = @ \cup {sends[s]}]
    /\ Goto(s, "signal")
    /\ UNCHANGED <<m_bCanRun, lifeVars, pending, sExitImmediately, guestVars, emu, emuVars,
                   kbRegion, sends, m_200HzCnt, exited>>

\* Mutant: terminateThread() without stopExec().
AfterEventNoStop(s) == IF sends[s] = "TERM" THEN "done"
                       ELSE IF sends[s] = "200HZ" /\ m_200HzCnt = 0 THEN "vbl"
                       ELSE IF s = "starter" THEN "done"
                       ELSE "idle"

\* Where a thread goes on after OS_SetEvent().
AfterEvent(s) == IF sends[s] = "TERM" THEN "stopExec"
                 ELSE IF sends[s] = "200HZ" /\ m_200HzCnt = 0 THEN "vbl"
                 ELSE IF s = "starter" THEN "done"
                 ELSE "idle"

\* Mutant: "the word was set already, the thread must be awake".
SignalsOnce(s) == event[Word(sends[s])] = {sends[s]}

\* The condition variable is one for both words: the emulator thread wakes up
\* whichever word it waits for, and looks again.  The sender's own word is read
\* again before, it may have been taken already.
Signals(s) == event[Word(sends[s])] # {}
AfterWakeup == "ask"

OS_SignalEvent(s) ==
    /\ at[s] = "signal"
    /\ emu' = IF emu = "asleep" /\ Signals(s) THEN AfterWakeup ELSE emu
    /\ kbRegion' = (kbRegion /\ s # "main")
    /\ Goto(s, AfterEvent(s))
    /\ sends' = [sends EXCEPT ![s] = IF @ = "TERM" THEN @ ELSE "none"]
    /\ UNCHANGED <<m_bCanRun, lifeVars, event, pending, sExitImmediately, guestVars, emuVars,
                   m_200HzCnt, exited>>

\* The first lines of every send...(): the flag, under the region if it is
\* keyboard or mouse.
CanRaise(k) == k \in Interrupts /\ m_bEmulatorIsRunning

Raise(s, k) ==
    /\ CanRaise(k)
    /\ pending' = [pending EXCEPT ![k] = TRUE]
    /\ sends' = [sends EXCEPT ![s] = k]
    /\ Goto(s, "stop")

-----------------------------------------------------------------------------
(* The timer.                                                                *)

\* Every HZPERVBL-th tick also causes a VBL.
NextTick == (m_200HzCnt + 1) % HZPERVBL

LoopTimer ==
    /\ at["timer"] = "idle"
    /\ m_EmulatorRunning
    /\ m_200HzCnt' = NextTick
    /\ \/ Raise("timer", "200HZ")
       \/ /\ ~CanRaise("200HZ")
          /\ Goto("timer", IF m_200HzCnt' = 0 THEN "vbl" ELSE "idle")
          /\ UNCHANGED <<pending, sends>>
    /\ UNCHANGED <<m_bCanRun, lifeVars, event, sExitImmediately, guestVars, emu, emuVars,
                   kbRegion, exited>>

sendVBL ==
    /\ at["timer"] = "vbl"
    /\ \/ Raise("timer", "VBL")
       \/ /\ ~CanRaise("VBL")
          /\ Goto("timer", "idle")
          /\ UNCHANGED <<pending, sends>>
    /\ UNCHANGED <<m_bCanRun, lifeVars, event, sExitImmediately, guestVars, emu, emuVars,
                   kbRegion, m_200HzCnt, exited>>

-----------------------------------------------------------------------------
(* The main thread.                                                          *)

\* sendSdlKeyboard(), sendMouse...(), sendJoystickState()
sendKbMouse ==
    /\ at["main"] = "idle"
    /\ Raise("main", "KBMOUSE")
    /\ kbRegion' = TRUE
    /\ UNCHANGED <<m_bCanRun, lifeVars, event, sExitImmediately, guestVars, emu, emuVars,
                   m_200HzCnt, exited>>

\* SDL_QUIT: event TERM, then stopExec().
terminateThread ==
    /\ at["main"] = "idle"
    /\ QuitDuringStart \/ at["starter"] = "done"
    /\ sends' = [sends EXCEPT !["main"] = "TERM"]
    /\ Goto("main", "set")
    /\ UNCHANGED <<m_bCanRun, lifeVars, event, pending, sExitImmediately, guestVars, emu,
                   emuVars, kbRegion, m_200HzCnt, exited>>

\* The last line of stopExec(); the event loop ends.
CanNotRun ==
    /\ at["main"] = "canNotRun"
    /\ m_bCanRun' = FALSE
    /\ Goto("main", "done")
    /\ UNCHANGED <<lifeVars, event, pending, sExitImmediately, guestVars, emu, emuVars,
                   kbRegion, sends, m_200HzCnt, exited>>

-----------------------------------------------------------------------------
(* The starter.                                                              *)

createThread ==
    /\ at["starter"] = "create"
    /\ m_bCanRun' = FALSE
    /\ event' = [w \in EventWord |-> {}]
    /\ emu' = "start"
    /\ Goto("starter", "running")
    /\ UNCHANGED <<lifeVars, pending, sExitImmediately, guestVars, emuVars,
                   kbRegion, sends, m_200HzCnt, exited>>

TimerMayRun ==
    /\ at["starter"] = "running"
    /\ m_EmulatorRunning' = TRUE
    /\ Goto("starter", "startExec")
    /\ UNCHANGED <<m_bCanRun, m_bEmulatorIsRunning, m_bEmulatorHasEnded, event, pending,
                   sExitImmediately, guestVars, emu, emuVars, kbRegion, sends, m_200HzCnt, exited>>

startExec ==
    /\ at["starter"] = "startExec"
    /\ m_bCanRun' = TRUE
    /\ sends' = [sends EXCEPT !["starter"] = "RUN"]
    /\ Goto("starter", "set")
    /\ UNCHANGED <<lifeVars, event, pending, sExitImmediately, guestVars, emu, emuVars,
                   kbRegion, m_200HzCnt, exited>>

-----------------------------------------------------------------------------
(* The CPU core.                                                             *)

\* m68ki_check_interrupts(): a request above the mask is taken, which calls
\* IRQCallback(): the request is taken back, and the CPU loop is left if the
\* emulator thread waits for that.
CheckInterrupts(level, mask, wait) ==
    IF level > mask
    THEN /\ CPU_INT_LEVEL' = 0
         /\ FLAG_INT_MASK' = level
         /\ m_bInterruptPending' = FALSE
         /\ sExitImmediately' = (sExitImmediately \/ wait)
    ELSE /\ CPU_INT_LEVEL' = level
         /\ FLAG_INT_MASK' = mask
         /\ m_bInterruptPending' = (level # 0)
         /\ UNCHANGED sExitImmediately

\* m_bInterruptPending = true; m68k_set_irq(level)
m68k_set_irq(level) ==
    CheckInterrupts(level, FLAG_INT_MASK, m_bWaitEmulatorForIRQCallback')

\* Into the loop of m68k_execute(), and out of it.
m68k_execute(return) ==
    /\ emu' = "execute"
    /\ caller' = return

LeaveExecute ==
    /\ emu = "execute"
    /\ sExitImmediately
    /\ sExitImmediately' = FALSE
    /\ emu' = IF caller = "run" THEN "irq" ELSE caller
    /\ caller' = "run"
    /\ UNCHANGED <<m_bCanRun, lifeVars, event, pending, guestVars, waitFor,
                   m_bWaitEmulatorForIRQCallback, senderVars, exited>>

Executing == emu = "execute" /\ ~sExitImmediately

\* An instruction that changes the status register, an rte for example.
SetStatusRegister(mask) ==
    /\ Executing
    /\ CheckInterrupts(CPU_INT_LEVEL, mask, m_bWaitEmulatorForIRQCallback)
    /\ UNCHANGED <<m_bCanRun, lifeVars, event, pending, emu, emuVars, senderVars, exited>>

\* The guest's kernel has nothing to do; with work left, the call does nothing.
AtariYield ==
    /\ Executing
    /\ "Yield" \in GuestCalls
    /\ emu' = "ask"
    /\ waitFor' = "m_InterruptEventsId"
    /\ UNCHANGED <<m_bCanRun, lifeVars, event, pending, sExitImmediately, guestVars,
                   caller, m_bWaitEmulatorForIRQCallback, senderVars, exited>>

AtariExit ==
    /\ Executing
    /\ "Exit" \in GuestCalls
    /\ sExitImmediately' = TRUE
    /\ m_bCanRun' = FALSE
    /\ event' = [event EXCEPT !["m_EventId"] = @ \cup {"TERM"}]
    /\ exited' = TRUE
    /\ UNCHANGED <<lifeVars, pending, guestVars, emu, emuVars, senderVars>>

\* A fatal error: stopExec().
AtariError ==
    /\ Executing
    /\ "Error" \in GuestCalls
    /\ sExitImmediately' = TRUE
    /\ m_bCanRun' = FALSE
    /\ UNCHANGED <<lifeVars, event, pending, guestVars, emu, emuVars, senderVars, exited>>

-----------------------------------------------------------------------------
(* OS_WaitForEvent()                                                         *)

Ask ==
    /\ emu = "ask"
    /\ emu' = IF event[waitFor] = {} THEN "asleep" ELSE "take"
    /\ UNCHANGED <<m_bCanRun, lifeVars, event, pending, sExitImmediately, guestVars,
                   emuVars, senderVars, exited>>

\* Mutant: both words are cleared.
TakeBothWords ==
    /\ emu = "take"
    /\ event' = [w \in EventWord |-> {}]
    /\ emu' = IF waitFor = "m_InterruptEventsId" THEN "execute"
              ELSE IF TermRequested THEN "end" ELSE "top"
    /\ waitFor' = "m_EventId"
    /\ UNCHANGED <<m_bCanRun, lifeVars, pending, sExitImmediately, guestVars, caller,
                   m_bWaitEmulatorForIRQCallback, senderVars, exited>>

Take ==
    /\ emu = "take"
    /\ event' = [event EXCEPT ![waitFor] = {}]
    /\ emu' = IF waitFor = "m_InterruptEventsId" THEN "execute"
              ELSE IF TermRequested THEN "end" ELSE "top"
    /\ waitFor' = "m_EventId"
    /\ UNCHANGED <<m_bCanRun, lifeVars, pending, sExitImmediately, guestVars, caller,
                   m_bWaitEmulatorForIRQCallback, senderVars, exited>>

-----------------------------------------------------------------------------
(* EmuThread()                                                               *)

EmuStart ==
    /\ emu = "start"
    /\ m_bEmulatorIsRunning' = TRUE
    /\ emu' = "top"
    /\ UNCHANGED <<m_bCanRun, m_EmulatorRunning, m_bEmulatorHasEnded, event, pending,
                   sExitImmediately, guestVars, emuVars, senderVars, exited>>

\* The guest runs, or the thread waits for being allowed to.
EmuTop ==
    /\ emu = "top"
    /\ \/ /\ m_bCanRun
          /\ m_bWaitEmulatorForIRQCallback' = FALSE
          /\ m68k_execute("run")
          /\ UNCHANGED waitFor
       \/ /\ ~m_bCanRun
          /\ emu' = "ask"
          /\ waitFor' = "m_EventId"
          /\ UNCHANGED <<caller, m_bWaitEmulatorForIRQCallback>>
    /\ UNCHANGED <<m_bCanRun, lifeVars, event, pending, sExitImmediately, guestVars,
                   senderVars, exited>>

\* A request that was left over.
EmuOutstanding ==
    /\ emu = "irq"
    /\ \/ /\ m_bInterruptPending
          /\ m_bWaitEmulatorForIRQCallback' = TRUE
          /\ m68k_execute("irqWait")
       \/ /\ ~m_bInterruptPending
          /\ emu' = "kb"
          /\ UNCHANGED <<caller, m_bWaitEmulatorForIRQCallback>>
    /\ UNCHANGED <<m_bCanRun, lifeVars, event, pending, sExitImmediately, guestVars,
                   waitFor, senderVars, exited>>

\* while (m_bInterruptPending && !OS_AskEvent(TERM)) m68k_execute();
WaitPlace == {"irqWait", "kbWait", "hzWait", "vblWait"}
AfterWait(place) == IF place = "irqWait" THEN "kb"
                    ELSE IF place = "kbWait" THEN "hz"
                    ELSE IF place = "hzWait" THEN "vbl"
                    ELSE "top"

\* Mutant: the wait for the callback is not left when the program ends.
MustWaitForever == m_bInterruptPending

MustWait == m_bInterruptPending /\ ~TermRequested

EmuWait ==
    /\ emu \in WaitPlace
    /\ \/ /\ MustWait
          /\ m68k_execute(emu)
       \/ /\ ~MustWait
          /\ emu' = AfterWait(emu)
          /\ UNCHANGED caller
    /\ UNCHANGED <<m_bCanRun, lifeVars, event, pending, sExitImmediately, guestVars, waitFor,
                   m_bWaitEmulatorForIRQCallback, senderVars, exited>>

\* Keyboard and mouse: whether there is something to tell the guest is decided
\* in module IkbdBuffer.  The interrupt is raised before the flag that makes
\* IRQCallback() leave the CPU loop is set.
EmuKbMouse ==
    /\ emu = "kb"
    /\ pending["KBMOUSE"]
    /\ ~kbRegion
    /\ pending' = [pending EXCEPT !["KBMOUSE"] = FALSE]
    /\ m_bWaitEmulatorForIRQCallback' = TRUE
    /\ \/ CheckInterrupts(6, FLAG_INT_MASK, m_bWaitEmulatorForIRQCallback)
       \/ UNCHANGED <<guestVars, sExitImmediately>>
    /\ emu' = "kbWait"
    /\ UNCHANGED <<m_bCanRun, lifeVars, event, caller, waitFor, senderVars, exited>>

\* The 200 Hz and the VBL block.
EmuTick(place, k, level, wait) ==
    /\ emu = place
    /\ pending[k]
    /\ pending' = [pending EXCEPT ![k] = FALSE]
    /\ m_bWaitEmulatorForIRQCallback' = TRUE
    /\ m68k_set_irq(level)
    /\ emu' = wait
    /\ UNCHANGED <<m_bCanRun, lifeVars, event, caller, waitFor, senderVars, exited>>

EmuNothingPending ==
    /\ \E t \in {<<"kb", "KBMOUSE", "hz">>, <<"hz", "200HZ", "vbl">>, <<"vbl", "VBL", "top">>} :
          /\ emu = t[1]
          /\ ~pending[t[2]]
          /\ emu' = t[3]
    /\ UNCHANGED <<m_bCanRun, lifeVars, event, pending, sExitImmediately, guestVars, emuVars,
                   senderVars, exited>>

EmuEnd ==
    /\ emu = "end"
    /\ emu' = "ended"
    /\ m_bEmulatorHasEnded' = TRUE
    /\ m_bEmulatorIsRunning' = FALSE
    /\ UNCHANGED <<m_bCanRun, m_EmulatorRunning, event, pending, sExitImmediately, guestVars,
                   emuVars, senderVars, exited>>

-----------------------------------------------------------------------------
Emulator ==
    \/ EmuStart \/ EmuTop \/ EmuOutstanding \/ EmuWait \/ EmuKbMouse
    \/ EmuTick("hz", "200HZ", 5, "hzWait")
    \/ EmuTick("vbl", "VBL", 4, "vblWait")
    \/ EmuNothingPending \/ EmuEnd \/ LeaveExecute \/ Ask \/ Take

Guest ==
    \/ \E m \in GuestMask : SetStatusRegister(m)
    \/ AtariYield \/ AtariExit \/ AtariError

Sends(s) == m68k_StopExecution(s) \/ OS_SetEvent(s) \/ OS_SignalEvent(s)
Timer == LoopTimer \/ sendVBL
Main == sendKbMouse \/ terminateThread \/ CanNotRun
Starter == createThread \/ TimerMayRun \/ startExec

Next == Emulator \/ Guest \/ Timer \/ Main \/ Starter \/ \E s \in Sender : Sends(s)

Spec == Init /\ [][Next]_vars

\* The threads are scheduled and the SDL timer goes on ticking.  Ticks and SDL
\* events come milliseconds apart, so the CPU is not stopped before its first
\* instruction each time it is entered, nor is m_KbCriticalRegionId taken each
\* time the emulator thread wants it; and a guest that executes again and again
\* does not mask its interrupts for ever.
CpuGetsTime == []<>(emu = "execute") => []<>Executing

Fairness ==
    /\ WF_vars(Emulator)
    /\ WF_vars(Timer)
    /\ WF_vars(Starter)
    /\ WF_vars(CanNotRun)
    /\ \A s \in Sender : WF_vars(Sends(s))
    /\ SF_vars(EmuKbMouse)
    /\ SF_vars(SetStatusRegister(Open))
    /\ CpuGetsTime

FairSpec == Spec /\ Fairness

-----------------------------------------------------------------------------
TypeOK ==
    /\ m_bCanRun \in BOOLEAN
    /\ m_EmulatorRunning \in BOOLEAN
    /\ m_bEmulatorIsRunning \in BOOLEAN
    /\ m_bEmulatorHasEnded \in BOOLEAN
    /\ event \in [EventWord -> SUBSET Flag]
    /\ \A w \in EventWord : \A f \in event[w] : Word(f) = w
    /\ pending \in [Source -> BOOLEAN]
    /\ m_bInterruptPending \in BOOLEAN
    /\ m_bWaitEmulatorForIRQCallback \in BOOLEAN
    /\ sExitImmediately \in BOOLEAN
    /\ CPU_INT_LEVEL \in {0, 4, 5, 6}
    /\ FLAG_INT_MASK \in Mask
    /\ emu \in {"none", "start", "top", "ask", "asleep", "take", "execute", "irq", "kb",
                "hz", "vbl", "end", "ended"} \cup WaitPlace
    /\ caller \in WaitPlace \cup {"run"}
    /\ waitFor \in EventWord
    /\ kbRegion \in BOOLEAN
    /\ at \in [Sender -> {"idle", "create", "running", "startExec", "stop", "set", "signal",
                          "stopExec", "canNotRun", "vbl", "done"}]
    /\ sends \in [Sender -> Flag \cup {"none"}]
    /\ \A s \in Sender : at[s] \in {"stop", "set", "signal"} => sends[s] \in Flag
    /\ m_200HzCnt \in 0 .. HZPERVBL - 1
    /\ exited \in BOOLEAN

\* A wakeup is never lost: the emulator thread does not stay asleep while the
\* word it waits for holds a flag, unless whoever set it is just about to
\* signal.  OS_SetEvent() sets the flag under one mutex and signals under
\* another, and both words share one condition variable (MagiC.cpp:341, 380).
NoLostWakeup ==
    (emu = "asleep" /\ event[waitFor] # {})
        => \E s \in Sender : at[s] = "signal" /\ Word(sends[s]) = waitFor

\* OS_WaitForEvent() returns with a flag of the word it was called for, although
\* any signal wakes it (MagiC.cpp:383).
WaitDelivers == emu = "take" => event[waitFor] # {}

\* The emulator thread is woken for each flag of the word it waits for, and for
\* nothing else (MagiC.cpp:341, 383).
WakeupsDelivered == NoLostWakeup /\ WaitDelivers

\* An interrupt raised in the CPU core stays until the guest takes it: the next
\* one, of another level, never overwrites it - until the program is told to
\* end (MagiC.cpp:1444, 1463, 1482).
RequestOutstanding == CPU_INT_LEVEL # 0

RequestKept ==
    [][RequestOutstanding /\ CPU_INT_LEVEL' # CPU_INT_LEVEL
            => TermRequested \/ (CPU_INT_LEVEL' = 0 /\ FLAG_INT_MASK' = CPU_INT_LEVEL)]_vars

\* The interrupts as the guest sees them: each source that was raised becomes one
\* request of its level, requests come one at a time, and the guest's mask lets
\* them in, although flags, levels and masks are moved by several threads and
\* the CPU loop (MagiC.cpp:1384, m68kcpu.h:2078).
Phase == IF emu = "none" THEN "off"
         ELSE IF emu \in {"end", "ended"} THEN "over"
         ELSE IF TermRequested THEN "ending"
         ELSE "open"

Requests == INSTANCE InterruptRequests WITH
    waiting <- pending,
    request <- CPU_INT_LEVEL,
    mask <- FLAG_INT_MASK,
    phase <- Phase

RequestsSpec == Requests!Spec

\* After AtariExit() the guest does not execute another instruction: its VDI is
\* closed, "the emulated system may not continue" (MagiC.cpp:3229) - as long as
\* the main thread is not just ending the program by itself.
NoGuestAfterExit == exited /\ sends["main"] # "TERM" => ~Executing

\* Whatever was raised is handled, and the guest's handler entered, unless the
\* guest has stopped or the program ends (MagiC.cpp:1384, 1452, 1471): although
\* a StopExecution() can be swallowed when m68k_execute() leaves, and an idle
\* guest sleeps.
InterruptsServed ==
    /\ \A k \in Interrupts : pending[k] ~> (~pending[k] \/ ~m_bCanRun)
    /\ m_bInterruptPending ~> (~m_bInterruptPending \/ TermRequested \/ ~m_bCanRun)

\* Told to end, by the user or by the guest, the emulator thread ends
\* (MagiC.cpp:1272: terminateThread() terminates the thread).
TerminationEnds == sends["main"] = "TERM" \/ exited ~> m_bEmulatorHasEnded

\* "wake up emulator, if in idle task" (MagiC.cpp:1829): when all senders are
\* through, a guest that takes interrupts is not asleep while one is pending.
AwakeWhenPending ==
    (/\ emu = "asleep" /\ waitFor = "m_InterruptEventsId"
     /\ FLAG_INT_MASK = Open /\ ~m_bInterruptPending
     /\ \A s \in Sender : at[s] \in {"idle", "done"})
        => \A k \in Source : ~pending[k]

\* stopExec() stops: "leave inner emulation loop ... may not run"
\* (MagiC.cpp:1261).  Whoever cleared m_bCanRun, the guest does not enter
\* m68k_execute() any more.
StoppedGuestStays ==
    [][(emu # "execute" /\ emu' = "execute") => m_bCanRun \/ waitFor = "m_InterruptEventsId"]_vars
=============================================================================
