---------------------------- MODULE InputStream ----------------------------
(***************************************************************************)
(* What the keyboard ring buffer promises to the guest, without pointers   *)
(* and wrap-around: a bounded queue into which messages - a key, a mouse   *)
(* packet, a joystick packet - enter whole and from which bytes leave one  *)
(* by one, in order, none lost, none twice.                                *)
(*                                                                         *)
(* The comment at PutKeyToBuffer() ("make sure beforehand that there is    *)
(* room", src/src/MagiC.cpp:1561) is the contract; module IkbdBuffer is    *)
(* the code that has to keep it.                                           *)
(***************************************************************************)
EXTENDS Naturals, Sequences

CONSTANTS Message,    \* sequences of bytes that belong together
          Capacity    \* bytes the buffer can hold

VARIABLE queue

Init == queue = <<>>

Put(m) ==
    /\ Len(queue) + Len(m) <= Capacity
    /\ queue' = queue \o m

Get ==
    /\ queue # <<>>
    /\ queue' = Tail(queue)

\* A reader that finds nothing may have a message made for it and take the
\* first byte at once.
PutAndGet(m) ==
    /\ queue = <<>>
    /\ Len(m) <= Capacity
    /\ queue' = Tail(m)

Next == Get \/ \E m \in Message : Put(m) \/ PutAndGet(m)

Spec == Init /\ [][Next]_queue
=============================================================================
