-------------------------- MODULE EmuThread_proofs --------------------------
(***************************************************************************)
(* Theorems about EmuThread, for any HZPERVBL, any set of interrupts, any  *)
(* guest masks and host calls, with or without QuitDuringStart.            *)
(*                                                                         *)
(* Typing comes first.  Sleeping and waking (NoLostWakeup, WaitDelivers)   *)
(* is inductive together with it.  That a request is never overwritten     *)
(* needs two more facts: m_bInterruptPending always agrees with the CPU's  *)
(* level (PendingMeansRaised), and outside of its wait loops the emulator  *)
(* thread has no request outstanding unless the program ends (Quiet).      *)
(* That the guest is left for good after its exit rests on this, too: an   *)
(* outstanding request would take the thread back into the CPU loop.       *)
(***************************************************************************)
EXTENDS EmuThread, TLAPS

USE EmuAssumption

LEMMA Tick == ASSUME m_200HzCnt \in 0 .. HZPERVBL - 1
              PROVE  (m_200HzCnt + 1) % HZPERVBL \in 0 .. HZPERVBL - 1
  OBVIOUS

\* The types of the event words and of the other threads' state.
EventType ==
    /\ event \in [EventWord -> SUBSET Flag]
    /\ \A w \in EventWord : \A f \in event[w] : Word(f) = w

Place == {"idle", "create", "running", "startExec", "stop", "set", "signal", "stopExec",
          "canNotRun", "vbl", "done"}

SenderType ==
    /\ at \in [Sender -> Place]
    /\ sends \in [Sender -> Flag \cup {"none"}]
    /\ \A s \in Sender : at[s] \in {"stop", "set", "signal"} => sends[s] \in Flag

FlagType ==
    /\ m_bCanRun \in BOOLEAN
    /\ m_EmulatorRunning \in BOOLEAN
    /\ m_bEmulatorIsRunning \in BOOLEAN
    /\ m_bEmulatorHasEnded \in BOOLEAN
    /\ pending \in [Source -> BOOLEAN]
    /\ m_bWaitEmulatorForIRQCallback \in BOOLEAN
    /\ sExitImmediately \in BOOLEAN
    /\ kbRegion \in BOOLEAN
    /\ exited \in BOOLEAN

CpuType ==
    /\ CPU_INT_LEVEL \in {0, 4, 5, 6}
    /\ FLAG_INT_MASK \in Mask
    /\ m_bInterruptPending \in BOOLEAN

EmuPlace == {"none", "start", "top", "ask", "asleep", "take", "execute", "irq", "kb",
             "hz", "vbl", "end", "ended"} \cup WaitPlace

PlaceType ==
    /\ emu \in EmuPlace
    /\ caller \in WaitPlace \cup {"run"}
    /\ waitFor \in EventWord

CountType == m_200HzCnt \in 0 .. HZPERVBL - 1

TypeInv == EventType /\ SenderType /\ FlagType /\ CpuType /\ PlaceType /\ CountType

LEMMA TypeParts == TypeOK <=> TypeInv
  BY DEF TypeOK, TypeInv, EventType, SenderType, FlagType, CpuType, PlaceType, CountType, Place,
         EmuPlace

LEMMA TypeInit == Init => TypeOK
<1> SUFFICES ASSUME Init PROVE TypeInv
  BY TypeParts
<1>1. EventType
  BY DEF Init, EventType
<1>2. SenderType
  BY DEF Init, SenderType, Place
<1>3. FlagType
  BY DEF Init, FlagType
<1>4. CpuType
  BY DEF Init, CpuType, Mask, Open
<1>5. PlaceType
  BY DEF Init, PlaceType, EmuPlace, WaitPlace, EventWord
<1>6. CountType
  BY DEF Init, CountType
<1> QED
  BY <1>1, <1>2, <1>3, <1>4, <1>5, <1>6 DEF TypeInv

\* Setting and clearing flags keeps the words well typed.
LEMMA EventStep == EventType /\ SenderType /\ PlaceType /\ [Next]_vars => EventType'
<1> SUFFICES ASSUME EventType, SenderType, PlaceType, [Next]_vars PROVE EventType'
  OBVIOUS
<1>1. ASSUME NEW w \in EventWord, NEW f \in Flag, Word(f) = w,
             event' = [event EXCEPT ![w] = @ \cup {f}]
      PROVE  EventType'
  BY <1>1 DEF EventType
<1>2. ASSUME NEW w \in EventWord, event' = [event EXCEPT ![w] = {}]
      PROVE  EventType'
  BY <1>2 DEF EventType
<1>3. CASE UNCHANGED event
  BY <1>3 DEF EventType
<1>4. \A f \in Flag : Word(f) \in EventWord
  BY DEF Word, EventWord
<1>5. ASSUME NEW s \in Sender, OS_SetEvent(s) PROVE EventType'
  <2>1. sends[s] \in Flag
    BY <1>5 DEF SenderType, OS_SetEvent
  <2> QED BY <1>1, <1>4, <1>5, <2>1 DEF OS_SetEvent
<1>6. ASSUME NEW s \in Sender, m68k_StopExecution(s) \/ OS_SignalEvent(s) PROVE EventType'
  BY <1>3, <1>6 DEF m68k_StopExecution, OS_SignalEvent
<1>7. CASE AtariExit
  <2>1. "TERM" \in Flag /\ Word("TERM") = "m_EventId" /\ "m_EventId" \in EventWord
    BY DEF Flag, Word, Source, EventWord
  <2> QED BY <1>1, <1>7, <2>1 DEF AtariExit
<1>8. CASE Take
  BY <1>2, <1>8 DEF Take, PlaceType
<1>9. CASE createThread
  BY <1>9 DEF createThread, EventType
<1>10. CASE \/ TimerMayRun \/ startExec \/ Timer \/ Main
  BY <1>3, <1>10 DEF TimerMayRun, startExec, Timer, LoopTimer, sendVBL, Main, sendKbMouse,
                     terminateThread, CanNotRun
<1>11. CASE AtariYield \/ AtariError \/ \E m \in GuestMask : SetStatusRegister(m)
  BY <1>3, <1>11 DEF AtariYield, AtariError, SetStatusRegister
<1>12. CASE Emulator
  BY <1>3, <1>8, <1>12 DEF Emulator, EmuStart, EmuTop, EmuOutstanding, EmuWait, EmuKbMouse, EmuTick,
                     EmuNothingPending, EmuEnd, LeaveExecute, Ask
<1>13. CASE UNCHANGED vars
  BY <1>3, <1>13 DEF vars
<1> QED
  BY <1>5, <1>6, <1>7, <1>9, <1>10, <1>11, <1>12, <1>13 DEF Next, Sends, Starter, Guest

\* The other threads go from place to place, with a flag when they need one.
LEMMA SenderStep == SenderType /\ [Next]_vars => SenderType'
<1> SUFFICES ASSUME SenderType, [Next]_vars PROVE SenderType'
  OBVIOUS
<1> USE DEF SenderType, Place, Goto, senderVars
<1>1. ASSUME NEW s \in Sender, Sends(s) PROVE SenderType'
  BY <1>1 DEF Sends, m68k_StopExecution, OS_SetEvent, OS_SignalEvent, AfterEvent, Flag
<1>2. CASE Timer
  BY <1>2 DEF Timer, LoopTimer, sendVBL, Raise, Flag, Source, Sender
<1>3. CASE Main
  BY <1>3 DEF Main, sendKbMouse, terminateThread, CanNotRun, Raise, Flag, Source, Sender
<1>4. CASE Starter
  BY <1>4 DEF Starter, createThread, TimerMayRun, startExec, Flag, Sender
<1>5. CASE Guest
  BY <1>5 DEF Guest, SetStatusRegister, AtariYield, AtariExit, AtariError
<1>6. CASE Emulator
  BY <1>6 DEF Emulator, EmuStart, EmuTop, EmuOutstanding, EmuWait, EmuKbMouse, EmuTick,
              EmuNothingPending, EmuEnd, LeaveExecute, Ask, Take
<1>7. CASE UNCHANGED vars
  BY <1>7 DEF vars
<1> QED
  BY <1>1, <1>2, <1>3, <1>4, <1>5, <1>6, <1>7 DEF Next

LEMMA FlagStep == FlagType /\ [Next]_vars => FlagType'
<1> SUFFICES ASSUME FlagType, [Next]_vars PROVE FlagType'
  OBVIOUS
<1> USE DEF FlagType, Source, lifeVars, emuVars, senderVars
<1>1. ASSUME NEW s \in Sender, Sends(s) PROVE FlagType'
  BY <1>1 DEF Sends, m68k_StopExecution, OS_SetEvent, OS_SignalEvent
<1>2. CASE Timer
  BY <1>2 DEF Timer, LoopTimer, sendVBL, Raise
<1>3. CASE Main
  BY <1>3 DEF Main, sendKbMouse, terminateThread, CanNotRun, Raise
<1>4. CASE Starter
  BY <1>4 DEF Starter, createThread, TimerMayRun, startExec
<1>5. CASE Guest
  BY <1>5 DEF Guest, SetStatusRegister, CheckInterrupts, AtariYield, AtariExit, AtariError
<1>6. CASE Emulator
  <2>1. CASE EmuKbMouse
    BY <2>1 DEF EmuKbMouse, CheckInterrupts
  <2>2. CASE EmuTick("hz", "200HZ", 5, "hzWait") \/ EmuTick("vbl", "VBL", 4, "vblWait")
    BY <2>2 DEF EmuTick, m68k_set_irq, CheckInterrupts
  <2>3. CASE \/ EmuStart \/ EmuTop \/ EmuOutstanding \/ EmuWait \/ EmuNothingPending \/ EmuEnd
             \/ LeaveExecute \/ Ask \/ Take
    BY <2>3 DEF EmuStart, EmuTop, EmuOutstanding, EmuWait, EmuNothingPending, EmuEnd,
                LeaveExecute, Ask, Take
  <2> QED BY <1>6, <2>1, <2>2, <2>3 DEF Emulator
<1>7. CASE UNCHANGED vars
  BY <1>7 DEF vars
<1> QED
  BY <1>1, <1>2, <1>3, <1>4, <1>5, <1>6, <1>7 DEF Next

\* Only a raised interrupt and the status register move the CPU's levels.
LEMMA CpuStep == CpuType /\ [Next]_vars => CpuType'
<1> SUFFICES ASSUME CpuType, [Next]_vars PROVE CpuType'
  OBVIOUS
<1>1. ASSUME NEW level \in {0, 4, 5, 6}, NEW mask \in Mask, NEW wait,
             CheckInterrupts(level, mask, wait)
      PROVE  CpuType'
  <2>1. m_bInterruptPending' \in BOOLEAN
    BY <1>1 DEF CheckInterrupts
  <2>2. CPU_INT_LEVEL' \in {0, 4, 5, 6}
    BY <1>1 DEF CheckInterrupts
  <2>3. level > mask => level \in Mask
    BY <1>1 DEF Mask, Open
  <2>4. FLAG_INT_MASK' \in Mask
    BY <1>1, <2>3 DEF CheckInterrupts
  <2> QED BY <2>1, <2>2, <2>4 DEF CpuType
<1>2. CASE UNCHANGED guestVars
  BY <1>2 DEF CpuType, guestVars
<1>3. CASE Guest
  <2>1. ASSUME NEW m \in GuestMask, SetStatusRegister(m) PROVE CpuType'
    <3>1. m \in Mask
      BY EmuAssumption
    <3> QED BY <1>1, <2>1, <3>1 DEF SetStatusRegister, CpuType
  <2>2. CASE AtariYield \/ AtariExit \/ AtariError
    BY <1>2, <2>2 DEF AtariYield, AtariExit, AtariError
  <2> QED BY <1>3, <2>1, <2>2 DEF Guest
<1>4. CASE Emulator
  <2>1. CASE EmuKbMouse
    BY <1>1, <1>2, <2>1 DEF EmuKbMouse, CpuType
  <2>2. CASE EmuTick("hz", "200HZ", 5, "hzWait") \/ EmuTick("vbl", "VBL", 4, "vblWait")
    BY <1>1, <2>2 DEF EmuTick, m68k_set_irq, CpuType
  <2>3. CASE \/ EmuStart \/ EmuTop \/ EmuOutstanding \/ EmuWait \/ EmuNothingPending \/ EmuEnd
             \/ LeaveExecute \/ Ask \/ Take
    BY <1>2, <2>3 DEF EmuStart, EmuTop, EmuOutstanding, EmuWait, EmuNothingPending, EmuEnd,
                LeaveExecute, Ask, Take
  <2> QED BY <1>4, <2>1, <2>2, <2>3 DEF Emulator
<1>5. CASE Timer \/ Main \/ Starter \/ \E s \in Sender : Sends(s)
  BY <1>2, <1>5 DEF Timer, LoopTimer, sendVBL, Main, sendKbMouse, terminateThread, CanNotRun,
                    Starter, createThread, TimerMayRun, startExec, Sends, m68k_StopExecution,
                    OS_SetEvent, OS_SignalEvent
<1>6. CASE UNCHANGED vars
  BY <1>2, <1>6 DEF vars, guestVars
<1> QED
  BY <1>3, <1>4, <1>5, <1>6 DEF Next

LEMMA PlaceStep == PlaceType /\ [Next]_vars => PlaceType'
<1> SUFFICES ASSUME PlaceType, [Next]_vars PROVE PlaceType'
  OBVIOUS
<1> USE DEF PlaceType, EmuPlace, WaitPlace, EventWord, emuVars
<1>1. CASE Guest
  BY <1>1 DEF Guest, SetStatusRegister, AtariYield, AtariExit, AtariError
<1>2. CASE Emulator
  <2>1. CASE EmuKbMouse
    BY <2>1 DEF EmuKbMouse
  <2>2. CASE EmuTick("hz", "200HZ", 5, "hzWait") \/ EmuTick("vbl", "VBL", 4, "vblWait")
    BY <2>2 DEF EmuTick
  <2>3. CASE EmuStart \/ EmuTop \/ EmuOutstanding \/ EmuNothingPending \/ EmuEnd
    BY <2>3 DEF EmuStart, EmuTop, EmuOutstanding, EmuNothingPending, EmuEnd, m68k_execute
  <2>4. CASE EmuWait
    BY <2>4 DEF EmuWait, m68k_execute, AfterWait
  <2>5. CASE LeaveExecute \/ Ask \/ Take
    BY <2>5 DEF LeaveExecute, Ask, Take
  <2> QED BY <1>2, <2>1, <2>2, <2>3, <2>4, <2>5 DEF Emulator
<1>3. CASE Timer \/ Main \/ Starter
  BY <1>3 DEF Timer, LoopTimer, sendVBL, Main, sendKbMouse, terminateThread, CanNotRun,
              Starter, createThread, TimerMayRun, startExec
<1>4. ASSUME NEW s \in Sender, Sends(s) PROVE PlaceType'
  BY <1>4 DEF Sends, m68k_StopExecution, OS_SetEvent, OS_SignalEvent, AfterWakeup
<1>5. CASE UNCHANGED vars
  BY <1>5 DEF vars
<1> QED
  BY <1>1, <1>2, <1>3, <1>4, <1>5 DEF Next

LEMMA CountStep == CountType /\ [Next]_vars => CountType'
<1> SUFFICES ASSUME CountType, [Next]_vars PROVE CountType'
  OBVIOUS
<1>1. CASE LoopTimer
  BY <1>1, Tick DEF LoopTimer, NextTick, CountType
<1>2. CASE UNCHANGED m_200HzCnt
  BY <1>2 DEF CountType
<1>3. CASE Next /\ ~LoopTimer
  BY <1>2, <1>3 DEF Next, Emulator, EmuStart, EmuTop, EmuOutstanding, EmuWait, EmuKbMouse, EmuTick,
         EmuNothingPending, EmuEnd, LeaveExecute, Ask, Take, Guest, SetStatusRegister, AtariYield,
         AtariExit, AtariError, Timer, sendVBL, Main, sendKbMouse, terminateThread, CanNotRun,
         Starter, createThread, TimerMayRun, startExec, Sends, m68k_StopExecution, OS_SetEvent,
         OS_SignalEvent, senderVars
<1>4. CASE UNCHANGED vars
  BY <1>2, <1>4 DEF vars, senderVars
<1> QED
  BY <1>1, <1>3, <1>4

LEMMA TypeStep == TypeOK /\ [Next]_vars => TypeOK'
<1>1. TypeOK' <=> TypeInv'
  BY TypeParts, PTL
<1> QED
  BY <1>1, TypeParts, EventStep, SenderStep, FlagStep, CpuStep, PlaceStep, CountStep DEF TypeInv

\* Every variable keeps its type (EmuThread's state, MagiC.h:77).
THEOREM TypeCorrect == Spec => []TypeOK
<1> QED BY TypeInit, TypeStep, PTL DEF Spec

-----------------------------------------------------------------------------
(* Sleeping and waking.                                                      *)

LEMMA SleepInit == Init => WakeupsDelivered
  BY DEF Init, WakeupsDelivered, NoLostWakeup, WaitDelivers

LEMMA SleepStep == TypeOK /\ WakeupsDelivered /\ [Next]_vars => WakeupsDelivered'
<1> SUFFICES ASSUME TypeOK, WakeupsDelivered, [Next]_vars PROVE WakeupsDelivered'
  OBVIOUS
<1> USE DEF TypeOK, WakeupsDelivered, NoLostWakeup, WaitDelivers, Sender, EventWord, WaitPlace, Goto,
            lifeVars, guestVars, emuVars, senderVars
<1>1. ASSUME NEW s \in Sender, Sends(s) PROVE WakeupsDelivered'
  <2>1. CASE m68k_StopExecution(s)
    BY <2>1 DEF m68k_StopExecution
  <2>2. CASE OS_SetEvent(s)
    BY <2>2 DEF OS_SetEvent, Word, Source
  <2>3. CASE OS_SignalEvent(s)
    BY <2>3 DEF OS_SignalEvent, Signals, AfterWakeup, AfterEvent, Word, Source
  <2> QED BY <1>1, <2>1, <2>2, <2>3 DEF Sends
<1>2. CASE Timer
  BY <1>2 DEF Timer, LoopTimer, sendVBL, Raise
<1>3. CASE Main
  BY <1>3 DEF Main, sendKbMouse, terminateThread, CanNotRun, Raise
<1>4. CASE Starter
  BY <1>4 DEF Starter, createThread, TimerMayRun, startExec
<1>5. CASE Guest
  BY <1>5 DEF Guest, SetStatusRegister, AtariYield, AtariExit, AtariError, Executing
<1>6. CASE Emulator
  BY <1>6 DEF Emulator, EmuStart, EmuTop, EmuOutstanding, EmuWait, EmuKbMouse, EmuTick,
              EmuNothingPending, EmuEnd, LeaveExecute, Ask, Take, m68k_execute, AfterWait
<1>7. CASE UNCHANGED vars
  BY <1>7 DEF vars
<1> QED
  BY <1>1, <1>2, <1>3, <1>4, <1>5, <1>6, <1>7 DEF Next

\* A sleeper is woken for a flag of its word, although OS_SetEvent() uses two
\* mutexes (MagiC.cpp:341), and OS_WaitForEvent() returns with one (MagiC.cpp:380).
THEOREM WakeupsAreDelivered == Spec => []WakeupsDelivered
<1>1. TypeOK /\ WakeupsDelivered /\ [Next]_vars => (TypeOK /\ WakeupsDelivered)'
  BY TypeStep, SleepStep
<1> QED BY <1>1, TypeInit, SleepInit, PTL DEF Spec

-----------------------------------------------------------------------------
(* One request at a time.                                                    *)

PendingMeansRaised == m_bInterruptPending <=> RequestOutstanding

Started == at["starter"] = "create" => emu = "none" /\ ~RequestOutstanding

CallerKnown == (emu # "execute" /\ (emu \notin {"ask", "asleep", "take"} \/ waitFor = "m_EventId"))
                  => caller = "run"

Quiet == (caller = "run" /\ emu \notin WaitPlace \cup {"end", "ended"})
            => ~RequestOutstanding \/ TermRequested

IrqInv == PendingMeansRaised /\ Started /\ CallerKnown /\ Quiet

LEMMA IrqInit == Init => IrqInv
  BY DEF Init, IrqInv, PendingMeansRaised, Started, CallerKnown, Quiet, RequestOutstanding

LEMMA IrqStep == TypeOK /\ IrqInv /\ [Next]_vars => IrqInv'
<1> SUFFICES ASSUME TypeOK, IrqInv, [Next]_vars PROVE IrqInv'
  OBVIOUS
<1> USE DEF TypeOK, IrqInv, PendingMeansRaised, Started, CallerKnown, Quiet, RequestOutstanding, TermRequested,
            Sender, EventWord, WaitPlace, Mask, Open, Goto, lifeVars, guestVars, emuVars, senderVars
<1>1. ASSUME NEW s \in Sender, Sends(s) PROVE IrqInv'
  <2>1. CASE m68k_StopExecution(s)
    BY <2>1 DEF m68k_StopExecution
  <2>2. CASE OS_SetEvent(s)
    BY <2>2 DEF OS_SetEvent, Word, Source
  <2>3. CASE OS_SignalEvent(s)
    BY <2>3 DEF OS_SignalEvent, Signals, AfterWakeup, AfterEvent
  <2> QED BY <1>1, <2>1, <2>2, <2>3 DEF Sends
<1>2. CASE Timer
  BY <1>2 DEF Timer, LoopTimer, sendVBL, Raise
<1>3. CASE Main
  BY <1>3 DEF Main, sendKbMouse, terminateThread, CanNotRun, Raise
<1>4. CASE Starter
  BY <1>4 DEF Starter, createThread, TimerMayRun, startExec
<1>5. CASE Guest
  <2>1. ASSUME NEW m \in GuestMask, SetStatusRegister(m) PROVE IrqInv'
    BY <2>1 DEF SetStatusRegister, CheckInterrupts, Executing
  <2>2. CASE AtariYield \/ AtariExit \/ AtariError
    BY <2>2 DEF AtariYield, AtariExit, AtariError, Executing
  <2> QED BY <1>5, <2>1, <2>2 DEF Guest
<1>6. CASE Emulator
  <2>1. CASE EmuStart \/ EmuTop \/ EmuOutstanding \/ EmuNothingPending \/ EmuEnd
    BY <2>1 DEF EmuStart, EmuTop, EmuOutstanding, EmuNothingPending, EmuEnd, m68k_execute
  <2>2. CASE EmuWait
    BY <2>2 DEF EmuWait, MustWait, m68k_execute, AfterWait
  <2>3. CASE EmuKbMouse
    <3>1. CASE CheckInterrupts(6, FLAG_INT_MASK, m_bWaitEmulatorForIRQCallback)
      BY <2>3, <3>1 DEF EmuKbMouse, CheckInterrupts
    <3>2. CASE UNCHANGED <<guestVars, sExitImmediately>>
      BY <2>3, <3>2 DEF EmuKbMouse
    <3> QED BY <2>3, <3>1, <3>2 DEF EmuKbMouse
  <2>4. CASE EmuTick("hz", "200HZ", 5, "hzWait")
    BY <2>4 DEF EmuTick, m68k_set_irq, CheckInterrupts
  <2>5. CASE EmuTick("vbl", "VBL", 4, "vblWait")
    BY <2>5 DEF EmuTick, m68k_set_irq, CheckInterrupts
  <2>6. CASE LeaveExecute \/ Ask \/ Take
    BY <2>6 DEF LeaveExecute, Ask, Take
  <2> QED BY <1>6, <2>1, <2>2, <2>3, <2>4, <2>5, <2>6 DEF Emulator
<1>7. CASE UNCHANGED vars
  BY <1>7 DEF vars
<1> QED
  BY <1>1, <1>2, <1>3, <1>4, <1>5, <1>6, <1>7 DEF Next

\* A raised interrupt is never overwritten by the next one (MagiC.cpp:1444).
THEOREM RequestsKept == Spec => RequestKept
<1>1. TypeOK /\ IrqInv /\ [Next]_vars
        => (RequestOutstanding /\ CPU_INT_LEVEL' # CPU_INT_LEVEL
              => TermRequested \/ (CPU_INT_LEVEL' = 0 /\ FLAG_INT_MASK' = CPU_INT_LEVEL))
  <2> SUFFICES ASSUME TypeOK, IrqInv, [Next]_vars, RequestOutstanding,
                      CPU_INT_LEVEL' # CPU_INT_LEVEL, ~TermRequested
               PROVE  CPU_INT_LEVEL' = 0 /\ FLAG_INT_MASK' = CPU_INT_LEVEL
    OBVIOUS
  <2>1. emu \notin {"kb", "hz", "vbl"}
    BY DEF IrqInv, CallerKnown, Quiet, RequestOutstanding, WaitPlace
  <2>2. ASSUME NEW m \in GuestMask, SetStatusRegister(m)
        PROVE  CPU_INT_LEVEL' = 0 /\ FLAG_INT_MASK' = CPU_INT_LEVEL
    BY <2>2 DEF SetStatusRegister, CheckInterrupts
  <2>3. CASE AtariYield \/ AtariExit \/ AtariError
    BY <2>3 DEF AtariYield, AtariExit, AtariError, guestVars
  <2>4. CASE Emulator
    BY <2>1, <2>4 DEF Emulator, EmuStart, EmuTop, EmuOutstanding, EmuWait, EmuKbMouse, EmuTick,
                      EmuNothingPending, EmuEnd, LeaveExecute, Ask, Take, guestVars
  <2>5. CASE Timer \/ Main \/ Starter
    BY <2>5 DEF Timer, LoopTimer, sendVBL, Main, sendKbMouse, terminateThread, CanNotRun, Starter,
                createThread, TimerMayRun, startExec, guestVars
  <2>6. ASSUME NEW s \in Sender, Sends(s) PROVE FALSE
    BY <2>6 DEF Sends, m68k_StopExecution, OS_SetEvent, OS_SignalEvent, guestVars
  <2>7. CASE UNCHANGED vars
    BY <2>7 DEF vars, guestVars
  <2> QED BY <2>2, <2>3, <2>4, <2>5, <2>6, <2>7 DEF Next, Guest
<1> QED BY <1>1, TypeInit, TypeStep, IrqInit, IrqStep, PTL DEF Spec, RequestKept

-----------------------------------------------------------------------------
(* The promise of module InterruptRequests, step by step.                    *)

\* An interrupt check is the promise's Ask.
LEMMA CheckAsks ==
    ASSUME NEW level \in Nat, NEW m \in Nat, NEW wait, CheckInterrupts(level, m, wait)
    PROVE  Requests!Ask(level, m)
  BY DEF CheckInterrupts, Requests!Ask

\* A sender raises its source, or leaves everything alone.
LEMMA SenderAsPromised ==
    ASSUME TypeOK, NEW s \in Sender, Sends(s)
    PROVE  Requests!Next \/ UNCHANGED Requests!vars
<1> USE DEF Phase, TermRequested, lifeVars, guestVars, emuVars, Requests!vars
<1>1. CASE m68k_StopExecution(s)
  BY <1>1 DEF m68k_StopExecution
<1>2. CASE OS_SetEvent(s)
  <2>1. UNCHANGED <<pending, CPU_INT_LEVEL, FLAG_INT_MASK, emu>>
    BY <1>2 DEF OS_SetEvent
  <2>2. TermRequested => TermRequested'
    BY <1>2 DEF OS_SetEvent, TypeOK, EventWord
  <2>3. Phase' = Phase \/ (Phase = "open" /\ Phase' = "ending")
    BY <2>1, <2>2
  <2> QED BY <2>1, <2>3 DEF Requests!Next, Requests!Life, Requests!ToldToEnd
<1>3. CASE OS_SignalEvent(s)
  BY <1>3 DEF OS_SignalEvent, AfterWakeup
<1> QED BY <1>1, <1>2, <1>3 DEF Sends

\* Raising is raising, whoever does it.
LEMMA RaiseAsPromised ==
    ASSUME NEW s, NEW k \in Source, Raise(s, k),
           UNCHANGED <<event, guestVars, emu>>
    PROVE  Requests!Next
  BY DEF Raise, Phase, TermRequested, guestVars, Source, Requests!Next, Requests!Raise, Requests!Source

LEMMA TimerAsPromised == ASSUME Timer PROVE Requests!Next \/ UNCHANGED Requests!vars
<1> USE DEF Phase, TermRequested, guestVars, Requests!vars
<1>1. "200HZ" \in Source /\ "VBL" \in Source
  BY DEF Source
<1>2. CASE LoopTimer
  BY <1>1, <1>2, RaiseAsPromised DEF LoopTimer
<1>3. CASE sendVBL
  BY <1>1, <1>3, RaiseAsPromised DEF sendVBL
<1> QED BY <1>2, <1>3 DEF Timer

LEMMA MainAsPromised == ASSUME Main PROVE Requests!Next \/ UNCHANGED Requests!vars
<1> USE DEF Phase, TermRequested, guestVars, Requests!vars
<1>1. "KBMOUSE" \in Source
  BY DEF Source
<1>2. CASE sendKbMouse
  BY <1>1, <1>2, RaiseAsPromised DEF sendKbMouse
<1>3. CASE terminateThread \/ CanNotRun
  BY <1>3 DEF terminateThread, CanNotRun
<1> QED BY <1>2, <1>3 DEF Main

LEMMA StarterAsPromised ==
    ASSUME TypeOK, IrqInv, Starter
    PROVE  Requests!Next \/ UNCHANGED Requests!vars
<1> USE DEF guestVars, Requests!vars
<1>1. CASE createThread
  <2>1. Phase = "off" /\ Phase' = "open"
    BY <1>1 DEF createThread, IrqInv, Started, Phase, TermRequested, EventWord
  <2> QED BY <1>1, <2>1 DEF createThread, Requests!Next, Requests!Life, Requests!Start
<1>2. CASE TimerMayRun \/ startExec
  BY <1>2 DEF TimerMayRun, startExec, Phase, TermRequested
<1> QED BY <1>1, <1>2 DEF Starter

\* The guest moves its mask or asks for the end.
LEMMA GuestAsPromised ==
    ASSUME TypeOK, Guest
    PROVE  Requests!Next \/ UNCHANGED Requests!vars
<1> USE DEF guestVars, Requests!vars
<1>1. ASSUME NEW m \in GuestMask, SetStatusRegister(m) PROVE Requests!Next
  <2>1. m \in Mask /\ m \in Nat
    BY DEF Mask, Open
  <2>2. CPU_INT_LEVEL \in Nat
    BY DEF TypeOK
  <2>3. Requests!Ask(CPU_INT_LEVEL, m)
    BY <1>1, <2>1, <2>2, CheckAsks DEF SetStatusRegister
  <2>4. Phase \in {"open", "ending"} /\ Phase' = Phase
    BY <1>1 DEF SetStatusRegister, Executing, Phase, TermRequested
  <2> QED BY <1>1, <2>1, <2>3, <2>4 DEF SetStatusRegister, Requests!Next, Requests!SetMask, Requests!Alive
<1>2. CASE AtariYield \/ AtariError
  BY <1>2 DEF AtariYield, AtariError, Executing, Phase, TermRequested
<1>3. CASE AtariExit
  <2>1. UNCHANGED <<pending, CPU_INT_LEVEL, FLAG_INT_MASK, emu>> /\ emu = "execute"
    BY <1>3 DEF AtariExit, Executing
  <2>2. TermRequested'
    BY <1>3 DEF AtariExit, TypeOK, EventWord, TermRequested
  <2>3. Phase' = Phase \/ (Phase = "open" /\ Phase' = "ending")
    BY <2>1, <2>2 DEF Phase
  <2> QED BY <2>1, <2>3 DEF Requests!Next, Requests!Life, Requests!ToldToEnd
<1> QED BY <1>1, <1>2, <1>3 DEF Guest

\* Where the emulator thread hands an interrupt over, no other one is
\* outstanding unless the program ends.
LEMMA HandOverAsPromised ==
    ASSUME TypeOK, IrqInv, NEW k \in Source, emu \in {"kb", "hz", "vbl"}, pending[k],
           pending' = [pending EXCEPT ![k] = FALSE], emu' \in WaitPlace, UNCHANGED event,
           \/ Requests!Ask(Requests!Level[k], FLAG_INT_MASK)
           \/ k = "KBMOUSE" /\ UNCHANGED <<CPU_INT_LEVEL, FLAG_INT_MASK>>
    PROVE  Requests!Next
<1>1. Phase \in {"open", "ending"} /\ Phase' = Phase
  BY DEF Phase, TermRequested, WaitPlace
<1>2. CPU_INT_LEVEL = 0 \/ Phase = "ending"
  BY DEF IrqInv, CallerKnown, Quiet, RequestOutstanding, Phase, WaitPlace
<1> QED
  BY <1>1, <1>2 DEF Requests!Next, Requests!HandOver, Requests!Alive, Requests!Source, Source

LEMMA EmulatorAsPromised ==
    ASSUME TypeOK, IrqInv, Emulator
    PROVE  Requests!Next \/ UNCHANGED Requests!vars
<1> USE DEF guestVars, emuVars, Requests!vars
<1>1. CASE EmuStart \/ EmuTop \/ EmuOutstanding \/ EmuNothingPending \/ LeaveExecute \/ Ask
  BY <1>1 DEF EmuStart, EmuTop, EmuOutstanding, EmuNothingPending, LeaveExecute, Ask, m68k_execute,
              Phase, TermRequested, TypeOK, WaitPlace
<1>2. CASE EmuWait
  BY <1>2 DEF EmuWait, m68k_execute, AfterWait, WaitPlace, Phase, TermRequested
<1>3. FLAG_INT_MASK \in Nat /\ {"KBMOUSE", "200HZ", "VBL"} \subseteq Source
  BY DEF TypeOK, Mask, Open, Source
<1>4. CASE EmuKbMouse
  <2>1. CheckInterrupts(6, FLAG_INT_MASK, m_bWaitEmulatorForIRQCallback) =>
            Requests!Ask(Requests!Level["KBMOUSE"], FLAG_INT_MASK)
    BY <1>3, CheckAsks DEF Requests!Level, Requests!Source
  <2> QED BY <1>3, <1>4, <2>1, HandOverAsPromised DEF EmuKbMouse, WaitPlace
<1>5. CASE EmuTick("hz", "200HZ", 5, "hzWait")
  <2>1. Requests!Ask(Requests!Level["200HZ"], FLAG_INT_MASK)
    BY <1>3, <1>5, CheckAsks DEF EmuTick, m68k_set_irq, Requests!Level, Requests!Source
  <2> QED BY <1>3, <1>5, <2>1, HandOverAsPromised DEF EmuTick, WaitPlace
<1>6. CASE EmuTick("vbl", "VBL", 4, "vblWait")
  <2>1. Requests!Ask(Requests!Level["VBL"], FLAG_INT_MASK)
    BY <1>3, <1>6, CheckAsks DEF EmuTick, m68k_set_irq, Requests!Level, Requests!Source
  <2> QED BY <1>3, <1>6, <2>1, HandOverAsPromised DEF EmuTick, WaitPlace
<1>7. CASE Take
  <2>1. UNCHANGED <<pending, CPU_INT_LEVEL, FLAG_INT_MASK>>
    BY <1>7 DEF Take
  <2>2. Phase' = Phase \/ (Phase = "ending" /\ Phase' = "over")
    BY <1>7 DEF Take, Phase, TermRequested, TypeOK, EventWord
  <2> QED BY <2>1, <2>2 DEF Requests!Next, Requests!Life, Requests!End
<1>8. CASE EmuEnd
  BY <1>8 DEF EmuEnd, Phase
<1> QED BY <1>1, <1>2, <1>4, <1>5, <1>6, <1>7, <1>8 DEF Emulator

\* The threads keep the promise of module InterruptRequests: no source is lost,
\* each becomes one request of its level, one request at a time, none after the
\* end (MagiC.cpp:1384, m68kcpu.h:2078).
THEOREM RequestsImplemented == Spec => RequestsSpec
<1>1. Init => Requests!Init
  BY DEF Init, Requests!Init, Requests!Source, Source, Phase, Mask
<1>2. TypeOK /\ IrqInv /\ [Next]_vars => [Requests!Next]_(Requests!vars)
  <2> SUFFICES ASSUME TypeOK, IrqInv, [Next]_vars
               PROVE  Requests!Next \/ UNCHANGED Requests!vars
    BY DEF Requests!vars
  <2>1. CASE UNCHANGED vars
    BY <2>1 DEF vars, guestVars, emuVars, Requests!vars, Phase, TermRequested
  <2> QED
    BY <2>1, SenderAsPromised, TimerAsPromised, MainAsPromised, StarterAsPromised, GuestAsPromised,
       EmulatorAsPromised DEF Next
<1> QED
  BY <1>1, <1>2, TypeInit, TypeStep, IrqInit, IrqStep, PTL DEF Spec, RequestsSpec, Requests!Spec

-----------------------------------------------------------------------------
(* The guest's exit.                                                         *)

\* Only the main thread and the guest ask for the end, and the main thread, once
\* it does, does nothing else.
EndAskedFor ==
    /\ \A s \in Sender : sends[s] = "TERM" => s = "main"
    /\ TermRequested => exited \/ sends["main"] = "TERM"
    /\ sends["main"] = "TERM" => at["main"] \in {"set", "signal", "stopExec", "canNotRun", "done"}

\* Until startExec() the guest has not executed.
NotYetRun ==
    at["starter"] \in {"create", "running", "startExec"} =>
        /\ ~m_bCanRun /\ ~exited
        /\ emu \in {"none", "start", "top", "ask", "asleep", "take", "end", "ended"}
        /\ waitFor = "m_EventId"

\* After its exit the emulator thread is on its way to the end: it leaves the CPU
\* at once, with no request outstanding where it would enter it again for one.
LeftForGood ==
    exited /\ sends["main"] # "TERM" =>
        /\ ~m_bCanRun
        /\ TermRequested \/ emu \in {"end", "ended"}
        /\ emu = "execute" => sExitImmediately
        /\ emu \in {"ask", "asleep", "take"} => waitFor = "m_EventId"
        /\ (emu = "irq" \/ (emu = "execute" /\ caller = "run")) => ~RequestOutstanding

ExitInv == EndAskedFor /\ NotYetRun /\ LeftForGood

LEMMA ExitInit == Init => ExitInv
  BY DEF Init, ExitInv, EndAskedFor, NotYetRun, LeftForGood, TermRequested, RequestOutstanding, Sender,
         EventWord

\* Who asks for the end.
LEMMA EndAskedForStep == TypeOK /\ EndAskedFor /\ [Next]_vars => EndAskedFor'
<1> SUFFICES ASSUME TypeOK, EndAskedFor, [Next]_vars PROVE EndAskedFor'
  OBVIOUS
<1> USE DEF TypeOK, EndAskedFor, TermRequested, Sender, EventWord, Goto, lifeVars, guestVars, emuVars,
            senderVars
<1>1. ASSUME NEW s \in Sender, Sends(s) PROVE EndAskedFor'
  <2>1. CASE m68k_StopExecution(s)
    BY <2>1 DEF m68k_StopExecution
  <2>2. CASE OS_SetEvent(s)
    BY <2>2 DEF OS_SetEvent, Word, Source
  <2>3. CASE OS_SignalEvent(s)
    BY <2>3 DEF OS_SignalEvent, AfterEvent
  <2> QED BY <1>1, <2>1, <2>2, <2>3 DEF Sends
<1>2. CASE Timer
  BY <1>2 DEF Timer, LoopTimer, sendVBL, Raise
<1>3. CASE Main
  BY <1>3 DEF Main, sendKbMouse, terminateThread, CanNotRun, Raise
<1>4. CASE Starter
  BY <1>4 DEF Starter, createThread, TimerMayRun, startExec
<1>5. CASE Guest
  BY <1>5 DEF Guest, SetStatusRegister, AtariYield, AtariExit, AtariError
<1>6. CASE Emulator
  BY <1>6 DEF Emulator, EmuStart, EmuTop, EmuOutstanding, EmuWait, EmuKbMouse, EmuTick,
              EmuNothingPending, EmuEnd, LeaveExecute, Ask, Take
<1>7. CASE UNCHANGED vars
  BY <1>7 DEF vars
<1> QED
  BY <1>1, <1>2, <1>3, <1>4, <1>5, <1>6, <1>7 DEF Next

\* The starter never comes back to its beginning.
LEMMA NotYetRunStep == TypeOK /\ NotYetRun /\ [Next]_vars => NotYetRun'
<1> SUFFICES ASSUME TypeOK, NotYetRun, [Next]_vars PROVE NotYetRun'
  OBVIOUS
<1> USE DEF TypeOK, NotYetRun, Sender, Goto, WaitPlace, lifeVars, guestVars, emuVars, senderVars
<1>1. ASSUME NEW s \in Sender, Sends(s) PROVE NotYetRun'
  <2>1. CASE m68k_StopExecution(s)
    BY <2>1 DEF m68k_StopExecution
  <2>2. CASE OS_SetEvent(s)
    BY <2>2 DEF OS_SetEvent
  <2>3. CASE OS_SignalEvent(s)
    BY <2>3 DEF OS_SignalEvent, AfterEvent, AfterWakeup
  <2> QED BY <1>1, <2>1, <2>2, <2>3 DEF Sends
<1>2. CASE Timer
  BY <1>2 DEF Timer, LoopTimer, sendVBL, Raise
<1>3. CASE Main
  BY <1>3 DEF Main, sendKbMouse, terminateThread, CanNotRun, Raise
<1>4. CASE Starter
  BY <1>4 DEF Starter, createThread, TimerMayRun, startExec
<1>5. CASE Guest
  BY <1>5 DEF Guest, SetStatusRegister, AtariYield, AtariExit, AtariError, Executing
<1>6. CASE Emulator
  BY <1>6 DEF Emulator, EmuStart, EmuTop, EmuOutstanding, EmuWait, EmuKbMouse, EmuTick,
              EmuNothingPending, EmuEnd, LeaveExecute, Ask, Take, m68k_execute
<1>7. CASE UNCHANGED vars
  BY <1>7 DEF vars
<1> QED
  BY <1>1, <1>2, <1>3, <1>4, <1>5, <1>6, <1>7 DEF Next

\* The way to the end is not left.
LEMMA LeftForGoodStep == TypeOK /\ IrqInv /\ ExitInv /\ [Next]_vars => LeftForGood'
<1> SUFFICES ASSUME TypeOK, IrqInv, ExitInv, [Next]_vars PROVE LeftForGood'
  OBVIOUS
<1> USE DEF TypeOK, ExitInv, LeftForGood, TermRequested, RequestOutstanding, Sender, EventWord,
            WaitPlace, Goto, lifeVars, guestVars, emuVars, senderVars
<1>0. sends["main"] = "TERM" => at["main"] \notin {"idle", "stop", "vbl"}
  BY DEF EndAskedFor
<1>1. ASSUME NEW s \in Sender, Sends(s) PROVE LeftForGood'
  <2>1. CASE m68k_StopExecution(s)
    BY <2>1 DEF m68k_StopExecution
  <2>2. CASE OS_SetEvent(s)
    BY <2>2 DEF OS_SetEvent, Word, Source
  <2>3. CASE OS_SignalEvent(s)
    BY <2>3 DEF OS_SignalEvent, AfterWakeup
  <2> QED BY <1>1, <2>1, <2>2, <2>3 DEF Sends
<1>2. CASE Timer
  BY <1>2 DEF Timer, LoopTimer, sendVBL, Raise
<1>3. CASE Main
  BY <1>0, <1>3 DEF Main, sendKbMouse, terminateThread, CanNotRun, Raise
<1>4. CASE Starter
  BY <1>4 DEF Starter, createThread, TimerMayRun, startExec, NotYetRun
<1>5. CASE Guest
  <2>1. CASE AtariExit
    <3>1. caller = "run" /\ sends["main"] # "TERM" => ~RequestOutstanding
      BY <2>1 DEF AtariExit, Executing, IrqInv, Quiet, EndAskedFor
    <3> QED BY <2>1, <3>1 DEF AtariExit, Executing
  <2>2. CASE AtariYield \/ AtariError \/ \E m \in GuestMask : SetStatusRegister(m)
    BY <2>2 DEF AtariYield, AtariError, SetStatusRegister, Executing
  <2> QED BY <1>5, <2>1, <2>2 DEF Guest
<1>6. CASE Emulator
  <2>1. CASE EmuStart \/ EmuEnd
    BY <2>1 DEF EmuStart, EmuEnd
  <2>2. CASE EmuTop
    BY <2>2 DEF EmuTop, m68k_execute
  <2>3. CASE EmuNothingPending
    BY <2>3 DEF EmuNothingPending
  <2>4. CASE EmuOutstanding
    BY <2>4 DEF EmuOutstanding, IrqInv, PendingMeansRaised
  <2>5. CASE EmuWait
    BY <2>5 DEF EmuWait, MustWait, AfterWait
  <2>6. CASE EmuKbMouse
    BY <2>6 DEF EmuKbMouse
  <2>7. CASE EmuTick("hz", "200HZ", 5, "hzWait") \/ EmuTick("vbl", "VBL", 4, "vblWait")
    BY <2>7 DEF EmuTick
  <2>8. CASE LeaveExecute \/ Ask \/ Take
    BY <2>8 DEF LeaveExecute, Ask, Take
  <2> QED BY <1>6, <2>1, <2>2, <2>3, <2>4, <2>5, <2>6, <2>7, <2>8 DEF Emulator
<1>7. CASE UNCHANGED vars
  BY <1>7 DEF vars
<1> QED
  BY <1>1, <1>2, <1>3, <1>4, <1>5, <1>6, <1>7 DEF Next

\* The guest does not execute after AtariExit() (MagiC.cpp:3229), unless the main
\* thread is ending the program by itself.
THEOREM GuestStaysOut == Spec => []NoGuestAfterExit
<1>1. TypeOK /\ IrqInv /\ ExitInv /\ [Next]_vars => (TypeOK /\ IrqInv /\ ExitInv)'
  BY TypeStep, IrqStep, EndAskedForStep, NotYetRunStep, LeftForGoodStep DEF ExitInv
<1>2. ExitInv => NoGuestAfterExit
  BY DEF ExitInv, LeftForGood, NoGuestAfterExit, Executing
<1> QED BY <1>1, <1>2, TypeInit, IrqInit, ExitInit, PTL DEF Spec
=============================================================================
