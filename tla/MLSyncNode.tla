----------------------------- MODULE MLSyncNode -----------------------------
(***************************************************************************)
(* machine_learning.c: the nodes machine-learning/fuzzy-sync and           *)
(* machine-learning/neural-network-sync, struct machine_learning_sync_data.*)
(*                                                                         *)
(* Every packet on IN or IN_PREDICT is queued; the worker thread takes one *)
(* per iteration, runs sml_process or sml_predict on it and queues the     *)
(* output, which feedback sends.  A packet is its place in the order of    *)
(* arrival, the port it came in by, and how many erase requests came       *)
(* before it (bounded by MaxPackets and MaxErases).                        *)
(***************************************************************************)
EXTENDS MLBase

CONSTANTS MaxPackets, MaxErases

ASSUME MLSyncNodeAssumption == {MaxPackets, MaxErases} \subseteq Nat

Packets == [n : 1..MaxPackets, predict : BOOLEAN, erases : 0..MaxErases]

VARIABLES inputQueue, outputQueue,
          current,      \* cur_sml_data while the engine runs on it, or <<>>
          accepted,     \* history: packets accepted
          asked, done,  \* history: erase requests noted, and carried out
          sent          \* history: outputs sent, by the packet they answer

syncVars == <<inputQueue, outputQueue, current, accepted, asked, done, sent>>
vars == <<requestVars, threadVars, owed, syncVars>>

Init ==
    /\ BaseInit
    /\ inputQueue = <<>> /\ outputQueue = <<>> /\ current = <<>>
    /\ accepted = 0 /\ asked = 0 /\ done = 0
    /\ sent = <<>>
-----------------------------------------------------------------------------
(* The main thread *)

Packet(predict) == [n |-> accepted + 1, predict |-> predict, erases |-> asked]

Queued(p) == Append(inputQueue, p)

\* sml_data_process
Accept(predict) ==
    /\ Dispatching
    /\ accepted < MaxPackets
    /\ accepted' = accepted + 1
    /\ inputQueue' = Queued(Packet(predict))
    /\ ScheduleIfNeeded
    /\ UNCHANGED <<requestVars, owed, outputQueue, current, asked, done, sent>>

\* erase_knowledge_process: a second request before the first is carried out
\* is the same request.
EraseSync ==
    /\ Erase
    /\ ~eraseKnowledge => asked < MaxErases
    /\ asked' = IF eraseKnowledge THEN asked ELSE asked + 1
    /\ UNCHANGED <<inputQueue, outputQueue, current, accepted, done, sent>>

\* Mutants: outputs are dropped; they are not sent.
DropOutputs == outputQueue' = <<>> /\ UNCHANGED sent
SendNothing == UNCHANGED <<outputQueue, sent>>

\* machine_learning_sync_worker_thread_feedback
SendOutputs ==
    /\ sent' = sent \o outputQueue
    /\ outputQueue' = <<>>

Feedback ==
    /\ Dispatching
    /\ feedbackPending
    /\ feedbackPending' = FALSE
    /\ SendOutputs
    /\ UNCHANGED <<requestVars, worker, threadRunning, thread, main, closing, owed,
                   inputQueue, current, accepted, asked, done>>

\* Mutant: no other thread follows.
NothingMore == FALSE

\* machine_learning_sync_worker_thread_finished
MoreToDo == inputQueue # <<>>

WorkerFinished ==
    /\ Reported
    /\ SendOutputs
    /\ Finished(MoreToDo)
    /\ UNCHANGED <<requestVars, owed, inputQueue, current, accepted, asked, done>>
-----------------------------------------------------------------------------
(* The worker thread: machine_learning_sync_worker_thread_iterate *)

\* The critical section saves, switches learning and erases before it takes
\* the next packet; without one the thread ends.
Start ==
    /\ thread = "start"
    /\ thread' = "iterating"
    /\ UNCHANGED <<requestVars, worker, threadRunning, main, closing, feedbackPending, owed,
                   syncVars>>

\* Mutant: only an idle node erases.
DoneWhenIdle == IF eraseKnowledge /\ inputQueue = <<>> THEN asked ELSE done

Done == IF eraseKnowledge THEN asked ELSE done

Take ==
    /\ thread = "iterating" /\ main # "joining"
    /\ saveNeeded' = FALSE /\ eraseKnowledge' = FALSE /\ debugFileChanged' = FALSE
    /\ owed' = owed \ {"erase"}
    /\ done' = Done
    /\ IF inputQueue = <<>>
       THEN /\ thread' = "done"
            /\ UNCHANGED <<inputQueue, current>>
       ELSE /\ thread' = "serving"
            /\ current' = <<Head(inputQueue)>>
            /\ inputQueue' = Tail(inputQueue)
    /\ UNCHANGED <<learnDisabled, worker, threadRunning, main, closing, feedbackPending,
                   outputQueue, accepted, asked, sent>>

\* The engine runs on the packet.  It may not get that far (pre_process fails),
\* fail, or have nothing to announce.
ServePacket(announced) ==
    /\ thread = "serving"
    /\ outputQueue' = IF announced THEN outputQueue \o current ELSE outputQueue
    /\ current' = <<>>
    /\ thread' = "feedback"
    /\ UNCHANGED <<requestVars, worker, threadRunning, main, closing, feedbackPending, owed,
                   inputQueue, accepted, asked, done, sent>>
-----------------------------------------------------------------------------
CloseNode == Close(inputQueue = <<>>)

ClientStep ==
    \/ \E predict \in BOOLEAN : Accept(predict)
    \/ EraseSync
    \/ (Save \/ LearnDisabled \/ DebugFile \/ CloseNode) /\ UNCHANGED syncVars
MainStep == Feedback \/ WorkerFinished \/ (BaseMainStep /\ UNCHANGED syncVars)
WorkerStep ==
    \/ Start \/ Take
    \/ \E announced \in BOOLEAN : ServePacket(announced)
    \/ BaseWorkerStep /\ UNCHANGED syncVars

Next == ClientStep \/ MainStep \/ WorkerStep

Spec == Init /\ [][Next]_vars

\* Threads are scheduled and the main loop dispatches the events it has.
FairSpec == Spec /\ WF_vars(WorkerStep) /\ WF_vars(MainStep)
-----------------------------------------------------------------------------
\* Every variable has its type.
TypeOK == /\ BaseTypeOK
          /\ thread \in {"none", "start", "iterating", "serving", "feedback", "done"}
          /\ inputQueue \in Seq(Packets) /\ outputQueue \in Seq(Packets) /\ sent \in Seq(Packets)
          /\ current \in Seq(Packets) /\ Len(current) <= 1
          /\ accepted \in 0..MaxPackets
          /\ asked \in 0..MaxErases /\ done \in 0..MaxErases

\* A packet that came after an erase request meets an erased engine, although
\* the request overtakes the packets in the queue.
ErasedBefore == \A k \in DOMAIN current : current[k].erases <= done

\* What is still to be served are the packets accepted last, in their order.
NothingLost ==
    LET rest == current \o inputQueue
    IN \A k \in DOMAIN rest : rest[k].n = accepted - Len(rest) + k

\* Outputs leave in the order of their packets, none of them twice.
InOrder == LET out == sent \o outputQueue
           IN \A j, k \in DOMAIN out : j < k => out[j].n < out[k].n

\* A synchronous node is a server that answers in the order of arrival.
Server == INSTANCE FifoServer WITH waiting <- current \o inputQueue,
                                   ready <- outputQueue
ImplementsServer == Server!FifoSpec

\* Every packet is served in the end, unless the node is closed, and every
\* output is sent.
PacketsServed == inputQueue # <<>> ~> inputQueue = <<>> \/ closing
OutputsSent == outputQueue # <<>> ~> outputQueue = <<>>
=============================================================================
