----------------------------- MODULE FifoServer -----------------------------
(***************************************************************************)
(* What a synchronous node (machine-learning/fuzzy-sync and its neural     *)
(* network sibling) promises the flow: every packet it accepts is served   *)
(* once, in the order of arrival, and the answers leave in that order, on  *)
(* the port that belongs to the packet.                                    *)
(***************************************************************************)
EXTENDS Sequences

CONSTANT Packets   \* [n, predict, erases]: see MLSyncNode

VARIABLES waiting,   \* packets accepted and not served
          ready,     \* answers not sent
          sent       \* answers sent

fifoVars == <<waiting, ready, sent>>

FifoInit == waiting = <<>> /\ ready = <<>> /\ sent = <<>>

Accept(p) ==
    /\ waiting' = Append(waiting, p)
    /\ UNCHANGED <<ready, sent>>

\* The oldest packet is served, with or without an answer.
Serve ==
    /\ waiting # <<>>
    /\ ready' \in {ready, Append(ready, Head(waiting))}
    /\ waiting' = Tail(waiting)
    /\ UNCHANGED sent

\* All answers that are ready leave together.
Send ==
    /\ sent' = sent \o ready
    /\ ready' = <<>>
    /\ UNCHANGED waiting

FifoNext == (\E p \in Packets : Accept(p)) \/ Serve \/ Send

FifoSpec == FifoInit /\ [][FifoNext]_fifoVars
=============================================================================
