----------------------------- MODULE PacketQueue -----------------------------
(***************************************************************************)
(* What the packet buffer between the receive thread and the processing   *)
(* thread is meant to be: a first-in first-out queue that loses nothing.   *)
(* Packets are identified with the order in which they arrive, 1, 2, ...   *)
(***************************************************************************)
EXTENDS Naturals, Sequences

VARIABLES queue,     \* packets accepted and not yet handed out
          accepted,  \* number of packets accepted so far
          got        \* the last packet handed out, 0 before the first

qvars == <<queue, accepted, got>>

QInit == queue = <<>> /\ accepted = 0 /\ got = 0

Put == /\ accepted' = accepted + 1
       /\ queue' = Append(queue, accepted + 1)
       /\ UNCHANGED got

Get == /\ queue # <<>>
       /\ got' = Head(queue)
       /\ queue' = Tail(queue)
       /\ UNCHANGED accepted

QNext == Put \/ Get

QSpec == QInit /\ [][QNext]_qvars

=============================================================================
