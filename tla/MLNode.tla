------------------------------- MODULE MLNode -------------------------------
(***************************************************************************)
(* machine_learning.c: the nodes machine-learning/fuzzy and                *)
(* machine-learning/neural-network, struct machine_learning_data.          *)
(*                                                                         *)
(* Packets on TRIGGER and PREDICT set flags; the worker thread takes a     *)
(* snapshot of them, runs sml_process or sml_predict, and clears the flag  *)
(* of what it ran.  Values are abstracted: `prediction' says that an       *)
(* output has a predicted_value waiting to be sent.                        *)
(***************************************************************************)
EXTENDS MLBase

CONSTANT SendFails   \* may sending PROCESS_FINISHED fail?

ASSUME MLNodeAssumption == SendFails \in BOOLEAN

VARIABLES processNeeded, predictNeeded, sendFinished,
          runProcess,      \* next both are needed, process first
          snapshot,        \* the flags iterate copied
          prediction       \* a predicted value waits to be sent

nodeVars == <<processNeeded, predictNeeded, sendFinished, runProcess, snapshot, prediction>>
mlNodeVars == <<requestVars, threadVars, owed, nodeVars>>

Snapshot == [process : BOOLEAN, predict : BOOLEAN, save : BOOLEAN, erase : BOOLEAN]

NodeInit ==
    /\ BaseInit
    /\ processNeeded = FALSE /\ predictNeeded = FALSE /\ sendFinished = FALSE
    /\ runProcess = FALSE
    /\ snapshot = [process |-> FALSE, predict |-> FALSE, save |-> FALSE, erase |-> FALSE]
    /\ prediction = FALSE
-----------------------------------------------------------------------------
(* The main thread *)

\* trigger_process
Trigger ==
    /\ Dispatching
    /\ processNeeded' = TRUE
    /\ owed' = owed \cup {"process"}
    /\ UNCHANGED <<requestVars, threadVars, predictNeeded, sendFinished, runProcess,
                   snapshot, prediction>>

\* prediction_trigger_process
PredictionTrigger ==
    /\ Dispatching
    /\ predictNeeded' = TRUE
    /\ owed' = owed \cup {"predict"}
    /\ ScheduleIfNeeded
    /\ UNCHANGED <<requestVars, processNeeded, sendFinished, runProcess, snapshot,
                   prediction>>

\* output_var_process: a new value makes the waiting prediction void.
OutputVar ==
    /\ Dispatching
    /\ prediction' = FALSE
    /\ UNCHANGED <<requestVars, threadVars, owed, processNeeded, predictNeeded, sendFinished,
                   runProcess, snapshot>>

\* machine_learning_worker_thread_feedback: the predictions are sent under
\* read_lock, then PROCESS_FINISHED under general_lock.  A failed send is tried
\* again by the next feedback.
NodeFeedback ==
    /\ Dispatching
    /\ feedbackPending
    /\ feedbackPending' = FALSE
    /\ prediction' = FALSE
    /\ main' = "announcing"
    /\ UNCHANGED <<requestVars, worker, threadRunning, thread, closing, owed, processNeeded,
                   predictNeeded, sendFinished, runProcess, snapshot>>

AnnounceFinished == sendFinished' = FALSE \/ (SendFails /\ UNCHANGED sendFinished)

Announce ==
    /\ main = "announcing"
    /\ AnnounceFinished
    /\ main' = "idle"
    /\ UNCHANGED <<requestVars, worker, threadRunning, thread, closing, feedbackPending, owed,
                   processNeeded, predictNeeded, runProcess, snapshot, prediction>>

\* Mutants: the thread goes without a last feedback; save requests count too.
WorkerFinishedSilently ==
    /\ Reported
    /\ Finished(processNeeded \/ predictNeeded)
    /\ UNCHANGED <<requestVars, owed, nodeVars>>

MoreOrSave == processNeeded \/ predictNeeded \/ saveNeeded

\* machine_learning_worker_thread_finished
NodeMoreToDo == processNeeded \/ predictNeeded

NodeWorkerFinished ==
    /\ Reported
    /\ prediction' = FALSE
    /\ AnnounceFinished
    /\ Finished(NodeMoreToDo)
    /\ UNCHANGED <<requestVars, owed, processNeeded, predictNeeded, runProcess, snapshot>>
-----------------------------------------------------------------------------
(* The worker thread *)

\* machine_learning_worker_thread_setup
Setup ==
    /\ thread = "start"
    /\ runProcess' = TRUE
    /\ thread' = "iterating"
    /\ UNCHANGED <<requestVars, worker, threadRunning, main, closing, feedbackPending, owed,
                   processNeeded, predictNeeded, sendFinished, snapshot, prediction>>

\* Mutant: the snapshot is taken after the flag was reset.
FlagsAfterReset == [process |-> processNeeded, predict |-> predictNeeded,
                    save |-> saveNeeded, erase |-> FALSE]

\* machine_learning_worker_thread_iterate, first critical section
Flags == [process |-> processNeeded, predict |-> predictNeeded,
          save |-> saveNeeded, erase |-> eraseKnowledge]

TakeSnapshot ==
    /\ thread = "iterating" /\ main # "joining"
    /\ snapshot' = Flags
    /\ eraseKnowledge' = FALSE
    /\ debugFileChanged' = FALSE
    /\ thread' = "erasing"
    /\ UNCHANGED <<saveNeeded, learnDisabled, worker, threadRunning, main, closing,
                   feedbackPending, owed, processNeeded, predictNeeded, sendFinished,
                   runProcess, prediction>>

\* ... learning is switched, the knowledge erased, and without a request the
\* thread ends ...
EraseEngine ==
    /\ thread = "erasing"
    /\ owed' = IF snapshot.erase THEN owed \ {"erase"} ELSE owed
    /\ thread' = IF snapshot.process \/ snapshot.predict \/ snapshot.save THEN "saving" ELSE "done"
    /\ UNCHANGED <<requestVars, worker, threadRunning, main, closing, feedbackPending, nodeVars>>

\* ... sml_save ...
SaveEngine ==
    /\ thread = "saving"
    /\ thread' = "reading"
    /\ UNCHANGED <<requestVars, worker, threadRunning, main, closing, feedbackPending, owed,
                   nodeVars>>

\* Mutant: process wins whenever it is needed.
ProcessesFirst == snapshot.process \/ ~snapshot.predict

\* ... sml_process or sml_predict, which first read the variables ...
ProcessesNext == (runProcess /\ snapshot.process) \/ ~snapshot.predict

ReadState ==
    /\ thread = "reading"
    /\ thread' = IF ProcessesNext THEN "processing" ELSE "predicting"
    /\ owed' = owed \ {IF ProcessesNext THEN "process" ELSE "predict"}
    /\ UNCHANGED <<requestVars, worker, threadRunning, main, closing, feedbackPending, nodeVars>>

\* ... and may announce an output (output_state_changed_cb) ...
RunEngine(announced) ==
    /\ thread \in {"processing", "predicting"}
    /\ prediction' = (prediction \/ announced)
    /\ runProcess' = (thread = "predicting")
    /\ thread' = "committing"
    /\ UNCHANGED <<requestVars, worker, threadRunning, main, closing, feedbackPending, owed,
                   processNeeded, predictNeeded, sendFinished, snapshot>>

\* ... and the last critical section.
Commit ==
    /\ thread = "committing"
    /\ predictNeeded' = (predictNeeded /\ ~runProcess)
    /\ processNeeded' = (processNeeded /\ runProcess)
    /\ sendFinished' = (sendFinished \/ ~runProcess)
    /\ saveNeeded' = FALSE
    /\ thread' = "feedback"
    /\ UNCHANGED <<eraseKnowledge, learnDisabled, debugFileChanged, worker, threadRunning, main,
                   closing, feedbackPending, owed, runProcess, snapshot, prediction>>
-----------------------------------------------------------------------------
NodeCloses == Close(~processNeeded /\ ~predictNeeded)

NodeClientStep ==
    \/ Trigger \/ PredictionTrigger \/ OutputVar
    \/ (BaseNext \/ NodeCloses) /\ UNCHANGED nodeVars
NodeMainStep == NodeFeedback \/ Announce \/ NodeWorkerFinished \/ (BaseMainStep /\ UNCHANGED nodeVars)
NodeWorkerStep ==
    \/ Setup \/ TakeSnapshot \/ EraseEngine \/ SaveEngine \/ ReadState
    \/ \E announced \in BOOLEAN : RunEngine(announced)
    \/ Commit
    \/ BaseWorkerStep /\ UNCHANGED nodeVars

NodeNext == NodeClientStep \/ NodeMainStep \/ NodeWorkerStep

NodeSpec == NodeInit /\ [][NodeNext]_mlNodeVars

\* Threads are scheduled and the main loop dispatches the events it has.
NodeFairSpec == NodeSpec /\ WF_mlNodeVars(NodeWorkerStep) /\ WF_mlNodeVars(NodeMainStep)
-----------------------------------------------------------------------------
ThreadPhases == {"none", "start", "iterating", "erasing", "saving", "reading",
                 "processing", "predicting", "committing", "feedback", "done"}

\* Every variable has its type.
NodeTypeOK == /\ BaseTypeOK
          /\ thread \in ThreadPhases
          /\ {processNeeded, predictNeeded, sendFinished, runProcess, prediction}
               \subseteq BOOLEAN
          /\ snapshot \in Snapshot

\* An erase request outlives the iteration it arrives in: it is either noted or
\* in the snapshot of an iteration that has not erased yet.
EraseNotForgotten == "erase" \in owed => eraseKnowledge \/ (thread = "erasing" /\ snapshot.erase)

\* Neither kind of request starves the other while there is a thread.
NoStarvation ==
    /\ predictNeeded ~> ~predictNeeded \/ closing
    /\ processNeeded /\ thread # "none" ~> ~processNeeded \/ closing

\* What the engine announced and the end of a process reach the flow, even when
\* the worker's feedback call came before its own handle was assigned.
AnswersDelivered ==
    /\ prediction ~> ~prediction
    /\ sendFinished ~> ~sendFinished

(* What machine_learning.json says of the ports *)

\* TRIGGER: "Port used to trigger machine learning processing."
TriggerServed == "process" \in owed ~> "process" \notin owed \/ closing

\* PREDICT: "Port used to trigger machine learning prediction.": a request is
\* noted until a prediction reads the variables.
PredictNotForgotten == "predict" \in owed => predictNeeded
=============================================================================
