------------------------- MODULE InterruptRequests -------------------------
(***************************************************************************)
(* What the emulation promises the guest about its interrupts, without     *)
(* threads, event words or a CPU loop: a source that was raised waits      *)
(* until it is handed over to the CPU, as a request of its own level; the  *)
(* CPU holds one request at a time, until the guest's mask lets it take    *)
(* it.  Only when the program has been told to end may a request be        *)
(* overwritten, and after the end nothing is handed over any more.         *)
(*                                                                         *)
(* The CPU has a single level for all sources (CPU_INT_LEVEL) and no       *)
(* queue; module EmuThread is the code that has to keep the promise.       *)
(***************************************************************************)
EXTENDS Naturals

CONSTANT Mask           \* interrupt masks of the guest

\* src/src/MagiC.cpp:1432, 1462, 1481
Source == {"KBMOUSE", "200HZ", "VBL"}
Level == [k \in Source |-> IF k = "KBMOUSE" THEN 6 ELSE IF k = "200HZ" THEN 5 ELSE 4]

VARIABLES
    waiting,            \* [Source -> BOOLEAN]: raised, not handed over yet
    request,            \* the level the CPU is asked to interrupt at, 0 if none
    mask,               \* the guest takes levels above it
    phase               \* "off", "open", "ending", "over"

vars == <<waiting, request, mask, phase>>

Init ==
    /\ waiting = [k \in Source |-> FALSE]
    /\ request = 0
    /\ mask \in Mask
    /\ phase = "off"

\* The CPU is asked for a level while its mask is m: it takes it or it waits.
Ask(level, m) ==
    IF level > m THEN request' = 0 /\ mask' = level
                 ELSE request' = level /\ mask' = m

Alive == phase \in {"open", "ending"}

\* Raised again before it is handed over, a source still waits once.
Raise(k) ==
    /\ waiting' = [waiting EXCEPT ![k] = TRUE]
    /\ UNCHANGED <<request, mask, phase>>

\* The keyboard may turn out to have nothing to say (IkbdBuffer).
HandOver(k) ==
    /\ Alive
    /\ waiting[k]
    /\ request = 0 \/ phase = "ending"
    /\ waiting' = [waiting EXCEPT ![k] = FALSE]
    /\ \/ Ask(Level[k], mask)
       \/ k = "KBMOUSE" /\ UNCHANGED <<request, mask>>
    /\ UNCHANGED phase

\* The guest changes its mask, and so takes the request or lets it wait.
SetMask(m) ==
    /\ Alive
    /\ Ask(request, m)
    /\ UNCHANGED <<waiting, phase>>

Start == phase = "off" /\ phase' = "open"
ToldToEnd == phase = "open" /\ phase' = "ending"
End == phase = "ending" /\ phase' = "over"

Life == (Start \/ ToldToEnd \/ End) /\ UNCHANGED <<waiting, request, mask>>

Next ==
    \/ \E k \in Source : Raise(k) \/ HandOver(k)
    \/ \E m \in Mask : SetMask(m)
    \/ Life

Spec == Init /\ [][Next]_vars
=============================================================================
