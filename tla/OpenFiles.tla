----------------------------- MODULE OpenFiles -----------------------------
(***************************************************************************)
(* What the host file system promises the guest's driver, without shared   *)
(* handles, reference counters, descriptor numbers or hash values: a block *)
(* of the driver denotes the file it was opened on until it is closed, and *)
(* the host keeps a file open as long as some block denotes it and no      *)
(* longer.  Searches take one of few slots each; a search that has lost    *)
(* its slot never gets another one, and never reads what others put there. *)
(*                                                                         *)
(* One exception is part of the promise because it is part of the code:    *)
(* the root directory of a drive that is closed stays open for ever.       *)
(***************************************************************************)
CONSTANTS
    Block,              \* the driver's directory and file descriptors
    RootBlock,          \* those that may be the root of a drive
    Ino, NoIno,         \* files and directories of the host
    Search,             \* the guest's DTAs and directory handles
    Slot, NoSlot        \* searches the host can keep open at a time

VARIABLES
    opened,             \* [Block -> Ino \cup {NoIno}]: what a block denotes
    held,               \* the files the host keeps open for blocks
    left,               \* roots left behind
    searched,           \* [Slot -> Ino \cup {NoIno}]: the directory read in a slot
    slotOf              \* [Search -> Slot \cup {NoSlot}]: where a search goes on

fileVars == <<opened, held, left>>
searchVars == <<searched, slotOf>>
vars == <<fileVars, searchVars>>

Init ==
    /\ opened = [b \in Block |-> NoIno]
    /\ held = {}
    /\ left = {}
    /\ searched = [o \in Slot |-> NoIno]
    /\ slotOf = [s \in Search |-> NoSlot]

Open(b, i) ==
    /\ opened[b] = NoIno
    /\ opened' = [opened EXCEPT ![b] = i]
    /\ held' = held \cup {i}
    /\ UNCHANGED <<left, searchVars>>

Needed(i, b) == i \in left \/ \E c \in Block \ {b} : opened[c] = i

Close(b) ==
    /\ opened[b] # NoIno
    /\ opened' = [opened EXCEPT ![b] = NoIno]
    /\ held' = {i \in held : i = opened[b] => Needed(i, b)}
    /\ UNCHANGED <<left, searchVars>>

Leave(b) ==
    /\ opened[b] # NoIno
    /\ opened' = [opened EXCEPT ![b] = NoIno]
    /\ left' = left \cup {opened[b]}
    /\ UNCHANGED <<held, searchVars>>

\* With every slot taken some search, with all of its copies, loses its own.
Begin(s, o, i) ==
    /\ searched[o] = NoIno \/ \A q \in Slot : searched[q] # NoIno
    /\ searched' = [searched EXCEPT ![o] = i]
    /\ slotOf' = [t \in Search |-> IF t = s THEN o
                                   ELSE IF slotOf[t] = o THEN NoSlot ELSE slotOf[t]]
    /\ UNCHANGED fileVars

Copy(s, t) ==
    /\ slotOf[t] = NoSlot
    /\ slotOf' = [slotOf EXCEPT ![t] = slotOf[s]]
    /\ UNCHANGED <<searched, fileVars>>

\* Slots are given back, with every search that used them; others are forgotten.
End(O, S) ==
    /\ searched' = [o \in Slot |-> IF o \in O THEN NoIno ELSE searched[o]]
    /\ slotOf' = [s \in Search |-> IF s \in S \/ slotOf[s] \in O THEN NoSlot ELSE slotOf[s]]
    /\ UNCHANGED fileVars

Next ==
    \/ \E b \in Block : (\E i \in Ino : Open(b, i)) \/ Close(b)
    \/ \E b \in RootBlock : Leave(b)
    \/ \E s \in Search, o \in Slot, i \in Ino : Begin(s, o, i)
    \/ \E s, t \in Search : Copy(s, t)
    \/ \E O \in SUBSET Slot, S \in SUBSET Search : End(O, S)

Spec == Init /\ [][Next]_vars
=============================================================================
