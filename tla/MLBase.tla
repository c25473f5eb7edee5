------------------------------- MODULE MLBase -------------------------------
(***************************************************************************)
(* machine_learning.c: what the flow nodes of both kinds share, struct     *)
(* machine_learning_base_data and the handlers on it.                      *)
(*                                                                         *)
(* The main thread runs the flow: packets, the feedback and the end of the *)
(* worker thread arrive as events of the main loop, one handler at a time. *)
(* The worker thread calls iterate until it returns false or is cancelled. *)
(* No lock is taken while another is held, so one critical section is one  *)
(* action.  thread_running is only ever taken and released by the main     *)
(* thread: to lock it while it is held is to wait forever.                 *)
(***************************************************************************)
EXTENDS Naturals, Sequences

CONSTANTS MayFail,     \* may sol_worker_thread_new fail?
          QuietClose   \* is the node only closed with nothing left to do?

ASSUME MLBaseAssumption == {MayFail, QuietClose} \subseteq BOOLEAN

VARIABLES saveNeeded, eraseKnowledge, learnDisabled, debugFileChanged,
          worker,           \* base.worker is not NULL
          threadRunning,    \* the lock is held
          thread,           \* where the worker thread is
          main,             \* where the main thread is
          closing,          \* base_close was called
          feedbackPending,  \* the main loop will call feedback
          owed              \* history: requests accepted, not served since

requestVars == <<saveNeeded, eraseKnowledge, learnDisabled, debugFileChanged>>
threadVars == <<worker, threadRunning, thread, main, closing, feedbackPending>>

BaseInit ==
    /\ saveNeeded = FALSE /\ eraseKnowledge = FALSE
    /\ learnDisabled = FALSE /\ debugFileChanged = FALSE
    /\ worker = FALSE /\ threadRunning = FALSE /\ thread = "none"
    /\ main = "idle" /\ closing = FALSE /\ feedbackPending = FALSE
    /\ owed = {}

\* The main loop may dispatch a packet or an event.
Dispatching == main = "idle" /\ ~closing

\* Where a handler that scheduled a thread goes on: base_close, which may have
\* called it through sol_worker_thread_cancel, is about to lock thread_running.
Resume == IF closing THEN "locking" ELSE "idle"
-----------------------------------------------------------------------------
\* worker_schedule: the new thread may run before its handle is assigned.
Schedule ==
    /\ \/ threadRunning /\ main' = "stuck" /\ UNCHANGED <<threadRunning, thread>>
       \/ ~threadRunning /\ threadRunning' = TRUE /\ thread' = "start" /\ main' = "assigning"
       \/ ~threadRunning /\ MayFail /\ UNCHANGED <<threadRunning, thread, main>>
    /\ UNCHANGED <<worker, closing, feedbackPending>>

ScheduleIfNeeded == IF worker THEN UNCHANGED threadVars ELSE Schedule

Assign ==
    /\ main = "assigning"
    /\ worker' = TRUE
    /\ main' = Resume
    /\ UNCHANGED <<requestVars, threadRunning, thread, closing, feedbackPending, owed>>

\* What the finished callbacks do to the thread: its last feedback is called
\* directly, and another thread follows when there is more to do.
Finished(more) ==
    /\ feedbackPending' = FALSE
    /\ worker' = FALSE
    /\ \/ more /\ threadRunning' = TRUE /\ thread' = "start" /\ main' = "assigning"
       \/ (more => MayFail) /\ threadRunning' = FALSE /\ thread' = "none" /\ main' = Resume
    /\ UNCHANGED closing

\* sol_worker_thread: the main loop reports a dead thread, and cancel waits for
\* the current iteration and reports it at once.
Reported == thread = "done" /\ main \in {"idle", "joining"}

\* sol_worker_thread_feedback, with whatever base.worker is by now.
RequestFeedback ==
    /\ thread = "feedback"
    /\ feedbackPending' = (feedbackPending \/ worker)
    /\ thread' = "iterating"
    /\ UNCHANGED <<requestVars, worker, threadRunning, main, closing, owed>>

\* A cancelled thread makes no further iteration.
StopIterating ==
    /\ thread = "iterating"
    /\ main = "joining"
    /\ thread' = "done"
    /\ UNCHANGED <<requestVars, worker, threadRunning, main, closing, feedbackPending, owed>>
-----------------------------------------------------------------------------
(* The ports both kinds of nodes have *)

\* save_process.  A request already noted is not noted, and not scheduled, again.
Save ==
    /\ Dispatching
    /\ saveNeeded' = TRUE
    /\ IF saveNeeded THEN UNCHANGED threadVars ELSE ScheduleIfNeeded
    /\ UNCHANGED <<eraseKnowledge, learnDisabled, debugFileChanged, owed>>

\* erase_knowledge_process
Erase ==
    /\ Dispatching
    /\ eraseKnowledge' = TRUE
    /\ owed' = owed \cup {"erase"}
    /\ IF eraseKnowledge THEN UNCHANGED threadVars ELSE ScheduleIfNeeded
    /\ UNCHANGED <<saveNeeded, learnDisabled, debugFileChanged>>

\* learn_disabled_process
LearnDisabled ==
    /\ Dispatching
    /\ learnDisabled' = ~learnDisabled
    /\ ScheduleIfNeeded
    /\ UNCHANGED <<saveNeeded, eraseKnowledge, debugFileChanged, owed>>

\* debug_file_process
DebugFile ==
    /\ Dispatching
    /\ debugFileChanged' = TRUE
    /\ UNCHANGED <<saveNeeded, eraseKnowledge, learnDisabled, threadVars, owed>>

\* Mutant: the worker is not waited for.
CloseNow(quiet) ==
    /\ Dispatching
    /\ QuietClose => quiet
    /\ closing' = TRUE
    /\ main' = "closed"
    /\ UNCHANGED <<requestVars, worker, threadRunning, thread, feedbackPending, owed>>

\* machine_learning_base_close: cancel the thread, wait for thread_running, and
\* only then free what the thread uses and save a last time.
Close(quiet) ==
    /\ Dispatching
    /\ QuietClose => quiet
    /\ closing' = TRUE
    /\ main' = IF worker THEN "joining" ELSE "closed"
    /\ UNCHANGED <<requestVars, worker, threadRunning, thread, feedbackPending, owed>>

LockThreadRunning ==
    /\ main = "locking"
    /\ ~threadRunning
    /\ main' = "closed"
    /\ UNCHANGED <<requestVars, worker, threadRunning, thread, closing, feedbackPending, owed>>

BaseNext == Save \/ Erase \/ LearnDisabled \/ DebugFile
BaseMainStep == Assign \/ LockThreadRunning
BaseWorkerStep == RequestFeedback \/ StopIterating
-----------------------------------------------------------------------------
MainPhases == {"idle", "assigning", "announcing", "joining", "locking", "closed", "stuck"}

BaseTypeOK ==
    /\ {saveNeeded, eraseKnowledge, learnDisabled, debugFileChanged} \subseteq BOOLEAN
    /\ {worker, threadRunning, closing, feedbackPending} \subseteq BOOLEAN
    /\ main \in MainPhases
    /\ owed \subseteq {"erase", "process", "predict"}

\* The main thread never locks thread_running while it is held: by itself, for
\* a thread whose end only the main thread can report.
NeverStuck == main # "stuck"

\* The lock is held exactly as long as there is a thread, and base.worker says
\* so whenever a handler looks at it.
LockMatchesThread ==
    /\ threadRunning <=> thread # "none"
    /\ main \in {"idle", "announcing", "joining"} => (worker <=> threadRunning)

\* When base_close frees the engine no thread uses it any more.
ClosedWithoutThread == main = "closed" => thread = "none"

\* A node closed with nothing left to do is closed in the end.
CloseTerminates == main = "joining" ~> main = "closed"

\* machine_learning.json, ERASE_KNOWLEDGE: the node is reset.
EraseServed == "erase" \in owed ~> "erase" \notin owed \/ closing
=============================================================================
