------------------------------ MODULE Engine ------------------------------
(***************************************************************************)
(* engine/engine.py: the CAN task engine of the Sandbag.                   *)
(*                                                                         *)
(* Every registered task owns one slot of Engine.tasks.  A slot holds a    *)
(* PeriodicSleeper thread; resume_all_tasks may replace a dead thread by a *)
(* new one, so a thread is a pair <<slot, generation>>.  Two threads of    *)
(* control call into the engine: "main" (Engine.start, interrupted by      *)
(* Ctrl-C) and "notifier" (the receive thread of can.Notifier, on which    *)
(* the stop and the resume controllers handle their CAN command).          *)
(***************************************************************************)
EXTENDS Naturals, Sequences

CONSTANTS
    NumTasks,    \* number of register_task calls made by main.py
    MaxGen,      \* bound: PeriodicSleeper objects created for one slot
    MaxCmds,     \* bound: stop and resume commands received from the bus
    MaxCrashes   \* bound: exceptions that escape a task function

ASSUME ConstantsAssumption ==
    /\ NumTasks \in Nat \ {0}
    /\ MaxGen \in Nat \ {0}
    /\ MaxCmds \in Nat
    /\ MaxCrashes \in Nat

Slots == 1 .. NumTasks
Gens == 1 .. MaxGen
Threads == Slots \X Gens
Controllers == {"main", "notifier"}

\* Where a PeriodicSleeper stands: in the while test, in task_function, in
\* sleep, out of the loop but not yet ended, ended.
ThreadPC == {"unborn", "ready", "test", "run", "sleep", "exiting", "dead"}
Alive == {"test", "run", "sleep", "exiting"}

Ops == {"starting", "serving", "off", "recv", "stopTest", "stopMark",
        "resumeClear", "resumeProbe", "join", "closed", "ended"}

VARIABLES
    tasks,        \* Engine.tasks: the generation of the thread in each slot
    pc,           \* the control point of every PeriodicSleeper
    stopEvent,    \* PeriodicSleeper._stop_event
    stoppedTasks, \* Engine.stopped_tasks
    iter,         \* the list object resume_all_tasks iterates over
    ctl,          \* what each controller is doing: operation, index, thread
    running,      \* Notifier._running
    cmds,         \* commands received so far
    crashes,      \* task functions that raised so far
    late          \* history: task_function runs of a slot since it was stopped

vars == <<tasks, pc, stopEvent, stoppedTasks, iter, ctl, running, cmds,
          crashes, late>>

Current(s) == <<s, tasks[s]>>
IterList == IF iter.live THEN stoppedTasks ELSE iter.list

Goto(c, op, i, t) == ctl' = [ctl EXCEPT ![c] = [op |-> op, i |-> i, t |-> t]]

TypeOK ==
    /\ tasks \in [Slots -> Gens]
    /\ pc \in [Threads -> ThreadPC]
    /\ stopEvent \in [Threads -> BOOLEAN]
    /\ stoppedTasks \in Seq(Threads)
    /\ iter \in [live : BOOLEAN, list : Seq(Threads)]
    /\ ctl \in [Controllers -> [op : Ops, i : Nat \ {0}, t : Threads]]
    /\ running \in BOOLEAN
    /\ cmds \in 0 .. MaxCmds
    /\ crashes \in 0 .. MaxCrashes
    /\ late \in [Slots -> Nat]

\* register_task has filled every slot with a thread that is not started.
Init ==
    /\ tasks = [s \in Slots |-> 1]
    /\ pc = [t \in Threads |-> IF t[2] = 1 THEN "ready" ELSE "unborn"]
    /\ stopEvent = [t \in Threads |-> FALSE]
    /\ stoppedTasks = <<>>
    /\ iter = [live |-> FALSE, list |-> <<>>]
    /\ ctl = [c \in Controllers |->
                [op |-> IF c = "main" THEN "starting" ELSE "off",
                 i |-> 1, t |-> <<1, 1>>]]
    /\ running = FALSE
    /\ cmds = 0
    /\ crashes = 0
    /\ late = [s \in Slots |-> 0]

-----------------------------------------------------------------------------
(* PeriodicSleeper.run *)

\* Mutant: the loop does not look at its stop event.
TestStopIgnoresEvent(t) ==
    /\ pc[t] = "test"
    /\ pc' = [pc EXCEPT ![t] = "run"]
    /\ UNCHANGED <<tasks, stopEvent, stoppedTasks, iter, ctl, running, cmds,
                   crashes, late>>

\* Mutant: a stopped thread skips the task but stays in its loop.
TestStopContinues(t) ==
    /\ pc[t] = "test"
    /\ pc' = [pc EXCEPT ![t] = IF stopEvent[t] THEN "sleep" ELSE "run"]
    /\ UNCHANGED <<tasks, stopEvent, stoppedTasks, iter, ctl, running, cmds,
                   crashes, late>>

\* while not self._stop_event.is_set()
TestStop(t) ==
    /\ pc[t] = "test"
    /\ pc' = [pc EXCEPT ![t] = IF stopEvent[t] THEN "exiting" ELSE "run"]
    /\ UNCHANGED <<tasks, stopEvent, stoppedTasks, iter, ctl, running, cmds,
                   crashes, late>>

\* self.task_function(): Task._send runs the task and sends its frame.
RunTask(t) ==
    /\ pc[t] = "run"
    /\ pc' = [pc EXCEPT ![t] = "sleep"]
    /\ late' = [late EXCEPT ![t[1]] =
                  IF stopEvent[Current(t[1])] THEN @ + 1 ELSE @]
    /\ UNCHANGED <<tasks, stopEvent, stoppedTasks, iter, ctl, running, cmds,
                   crashes>>

\* get_data, or a send error that is no CanError, escapes Task._send: the
\* thread ends with the exception and its stop event stays as it is.
TaskRaises(t) ==
    /\ pc[t] = "run"
    /\ crashes < MaxCrashes
    /\ crashes' = crashes + 1
    /\ pc' = [pc EXCEPT ![t] = "exiting"]
    /\ UNCHANGED <<tasks, stopEvent, stoppedTasks, iter, ctl, running, cmds,
                   late>>

\* self.sleep() returns
WakeUp(t) ==
    /\ pc[t] = "sleep"
    /\ pc' = [pc EXCEPT ![t] = "test"]
    /\ UNCHANGED <<tasks, stopEvent, stoppedTasks, iter, ctl, running, cmds,
                   crashes, late>>

\* the thread has left run() and is_alive() turns false
Terminate(t) ==
    /\ pc[t] = "exiting"
    /\ pc' = [pc EXCEPT ![t] = "dead"]
    /\ UNCHANGED <<tasks, stopEvent, stoppedTasks, iter, ctl, running, cmds,
                   crashes, late>>

-----------------------------------------------------------------------------
(* Engine.stop_all_task *)

\* self.stopped_tasks = [] makes a new list: a resume loop that is under way
\* on the other controller keeps iterating over the old one.
StopBegin(c) ==
    /\ stoppedTasks' = <<>>
    /\ iter' = IF iter.live THEN [live |-> FALSE, list |-> stoppedTasks] ELSE iter
    /\ Goto(c, "stopTest", 1, ctl[c].t)

\* Where a controller returns to: start() goes on to notifier.stop(); the
\* notifier thread tests Notifier._running and waits for the next frame.
Return(c) ==
    Goto(c, IF c = "main" THEN "join" ELSE IF running THEN "recv" ELSE "ended",
         1, ctl[c].t)

\* for t in self.tasks: if t._stop_event.is_set(): continue
StopTest(c) ==
    /\ ctl[c].op = "stopTest"
    /\ IF ctl[c].i > NumTasks
       THEN Return(c)
       ELSE LET t == Current(ctl[c].i)
            IN  IF stopEvent[t]
                THEN Goto(c, "stopTest", ctl[c].i + 1, t)
                ELSE Goto(c, "stopMark", ctl[c].i, t)
    /\ UNCHANGED <<tasks, pc, stopEvent, stoppedTasks, iter, running, cmds,
                   crashes, late>>

\* t._stop_event.set(); self.stopped_tasks.append(t)
StopMark(c) ==
    /\ ctl[c].op = "stopMark"
    /\ stopEvent' = [stopEvent EXCEPT ![ctl[c].t] = TRUE]
    /\ stoppedTasks' = Append(stoppedTasks, ctl[c].t)
    /\ Goto(c, "stopTest", ctl[c].i + 1, ctl[c].t)
    /\ UNCHANGED <<tasks, pc, iter, running, cmds, crashes, late>>

-----------------------------------------------------------------------------
(* Engine.resume_all_tasks, only ever called on the notifier thread *)

ResumeBegin(c) ==
    /\ iter' = [live |-> TRUE, list |-> <<>>]
    /\ Goto(c, "resumeClear", 1, ctl[c].t)
    /\ UNCHANGED stoppedTasks

\* Mutant: the record of stopped tasks is not emptied after the loop.
ResumeClearKeepsRecord(c) ==
    /\ ctl[c].op = "resumeClear"
    /\ IF ctl[c].i > Len(IterList)
       THEN /\ iter' = [live |-> FALSE, list |-> <<>>]
            /\ Return(c)
            /\ UNCHANGED <<stopEvent, late>>
       ELSE LET t == IterList[ctl[c].i]
            IN  /\ stopEvent' = [stopEvent EXCEPT ![t] = FALSE]
                /\ Goto(c, "resumeProbe", ctl[c].i, t)
                /\ UNCHANGED <<iter, late>>
    /\ UNCHANGED <<stoppedTasks, tasks, pc, running, cmds, crashes>>

\* for t in self.stopped_tasks: t._stop_event.clear()
\* after the loop: self.stopped_tasks = []
ResumeClear(c) ==
    /\ ctl[c].op = "resumeClear"
    /\ IF ctl[c].i > Len(IterList)
       THEN /\ stoppedTasks' = <<>>
            /\ iter' = [live |-> FALSE, list |-> <<>>]
            /\ Return(c)
            /\ UNCHANGED <<stopEvent, late>>
       ELSE LET t == IterList[ctl[c].i]
            IN  /\ stopEvent' = [stopEvent EXCEPT ![t] = FALSE]
                /\ late' = [late EXCEPT ![t[1]] =
                              IF t = Current(t[1]) THEN 0 ELSE @]
                /\ Goto(c, "resumeProbe", ctl[c].i, t)
                /\ UNCHANGED <<stoppedTasks, iter>>
    /\ UNCHANGED <<tasks, pc, running, cmds, crashes>>

\* if not t.is_alive(): a new PeriodicSleeper replaces t in self.tasks and is
\* started; self.tasks.index(t) raises when t has been replaced before.
Revive(t) ==
    LET s == t[1]
    IN  IF t = Current(s)
        THEN /\ tasks[s] < MaxGen
             /\ tasks' = [tasks EXCEPT ![s] = @ + 1]
             /\ pc' = [pc EXCEPT ![<<s, tasks[s] + 1>>] = "test"]
             /\ late' = [late EXCEPT ![s] = 0]
        ELSE UNCHANGED <<tasks, pc, late>>

\* Mutant: the thread is replaced without asking whether it is alive.
ResumeProbeNoAliveCheck(c) ==
    /\ ctl[c].op = "resumeProbe"
    /\ Revive(ctl[c].t)
    /\ Goto(c, "resumeClear", ctl[c].i + 1, ctl[c].t)
    /\ UNCHANGED <<stopEvent, stoppedTasks, iter, running, cmds, crashes>>

\* Mutant: the loop does not go on to the next stopped task.
ResumeProbeNoAdvance(c) ==
    /\ ctl[c].op = "resumeProbe"
    /\ Goto(c, "resumeClear", ctl[c].i, ctl[c].t)
    /\ UNCHANGED <<tasks, pc, late, stopEvent, stoppedTasks, iter, running,
                   cmds, crashes>>

ResumeProbe(c) ==
    /\ ctl[c].op = "resumeProbe"
    /\ IF pc[ctl[c].t] \in Alive
       THEN UNCHANGED <<tasks, pc, late>>
       ELSE Revive(ctl[c].t)
    /\ Goto(c, "resumeClear", ctl[c].i + 1, ctl[c].t)
    /\ UNCHANGED <<stopEvent, stoppedTasks, iter, running, cmds, crashes>>

-----------------------------------------------------------------------------
(* Task_Stop_Controller and Task_Resume_Controller.on_message_received: the *)
(* notifier thread has received the stop or the resume frame.  A frame that *)
(* recv returns after Notifier.stop is still handled; none comes from a     *)
(* bus that is shut down.                                                   *)

ReceiveCommand ==
    /\ ctl["notifier"].op = "recv"
    /\ ctl["main"].op # "closed"
    /\ cmds < MaxCmds
    /\ cmds' = cmds + 1
    /\ UNCHANGED <<tasks, pc, stopEvent, running, crashes, late>>

StopCommand ==
    /\ ReceiveCommand
    /\ StopBegin("notifier")

ResumeCommand ==
    /\ ReceiveCommand
    /\ ResumeBegin("notifier")

\* recv times out, or fails on the closed bus, after Notifier.stop
NotifierEnds ==
    /\ ctl["notifier"].op = "recv"
    /\ ~running
    /\ Goto("notifier", "ended", 1, ctl["notifier"].t)
    /\ UNCHANGED <<tasks, pc, stopEvent, stoppedTasks, iter, running, cmds,
                   crashes, late>>

-----------------------------------------------------------------------------
(* Engine.start on the main thread *)

\* for t in self.tasks: t.start(); then the Notifier starts its thread
StartTask ==
    /\ ctl["main"].op = "starting"
    /\ LET i == ctl["main"].i
       IN  IF i <= NumTasks
           THEN /\ pc' = [pc EXCEPT ![Current(i)] = "test"]
                /\ Goto("main", "starting", i + 1, ctl["main"].t)
                /\ UNCHANGED running
           ELSE /\ ctl' = [ctl EXCEPT !["main"].op = "serving",
                                      !["notifier"].op = "recv"]
                /\ running' = TRUE
                /\ UNCHANGED pc
    /\ UNCHANGED <<tasks, stopEvent, stoppedTasks, iter, cmds, crashes, late>>

\* Ctrl-C ends the wait loop; the finally clause calls stop_all_task
KeyboardInterrupt ==
    /\ ctl["main"].op = "serving"
    /\ StopBegin("main")
    /\ UNCHANGED <<tasks, pc, stopEvent, running, cmds, crashes, late>>

\* notifier.stop() clears _running and joins its thread for at most five
\* seconds, less than the ten of a recv: bus.shutdown() follows either way.
NotifierStop ==
    /\ ctl["main"].op = "join"
    /\ running
    /\ running' = FALSE
    /\ UNCHANGED <<tasks, pc, stopEvent, stoppedTasks, iter, ctl, cmds,
                   crashes, late>>

BusShutdown ==
    /\ ctl["main"].op = "join"
    /\ ~running
    /\ Goto("main", "closed", 1, ctl["main"].t)
    /\ UNCHANGED <<tasks, pc, stopEvent, stoppedTasks, iter, running, cmds,
                   crashes, late>>

-----------------------------------------------------------------------------
Worker(t) == TestStop(t) \/ RunTask(t) \/ WakeUp(t) \/ Terminate(t)

Controller(c) == StopTest(c) \/ StopMark(c) \/ ResumeClear(c) \/ ResumeProbe(c)

Next ==
    \/ \E t \in Threads : Worker(t) \/ TaskRaises(t)
    \/ \E c \in Controllers : Controller(c)
    \/ StopCommand
    \/ ResumeCommand
    \/ NotifierEnds
    \/ StartTask
    \/ KeyboardInterrupt
    \/ NotifierStop
    \/ BusShutdown

Spec == Init /\ [][Next]_vars

\* The OS schedules every thread and no loop of the engine blocks: a started
\* PeriodicSleeper, a running stop or resume loop and the main thread all
\* make progress.  Nothing obliges the tester to send a command, the user to
\* press Ctrl-C, or a task to raise.
Fairness ==
    /\ \A t \in Threads : WF_vars(Worker(t))
    /\ \A c \in Controllers : WF_vars(Controller(c))
    /\ WF_vars(StartTask)
    /\ WF_vars(NotifierEnds)
    /\ WF_vars(NotifierStop)
    /\ WF_vars(BusShutdown)

FairSpec == Spec /\ Fairness

-----------------------------------------------------------------------------
(* Properties *)

\* resume_all_tasks starts a replacement only for a thread that has ended:
\* a slot never has two live PeriodicSleepers sending its frames twice.
OneLiveThreadPerTask ==
    \A s \in Slots : \A g, h \in Gens :
        pc[<<s, g>>] \in Alive /\ pc[<<s, h>>] \in Alive => g = h

\* Once stop_all_task has marked a task, the iteration it was in may finish,
\* and that is all: at most one more frame leaves the task until a resume.
AtMostOneLateRun == \A s \in Slots : late[s] <= 1

\* While no stop or resume is in progress, every thread stop_all_task recorded
\* in stopped_tasks is the one in Engine.tasks, and is marked as stopped: the
\* record never names a thread that a resume has already replaced.
Quiet == /\ ctl["notifier"].op = "recv"
         /\ ctl["main"].op = "serving"
RecordedAreStopped ==
    Quiet => \A k \in 1 .. Len(stoppedTasks) :
        /\ stoppedTasks[k] = Current(stoppedTasks[k][1])
        /\ stopEvent[stoppedTasks[k]]

\* Every live thread that stop_all_task has marked ends, unless a resume
\* clears the mark: the stop command does silence the bus.
StopEndsThread ==
    \A t \in Threads :
        (pc[t] \in Alive /\ stopEvent[t]) ~> (pc[t] = "dead" \/ ~stopEvent[t])

\* Ctrl-C always ends in a closed bus, and a stop or resume command always
\* gives the notifier thread back, even while both loops walk the task lists
\* at once: neither loop chases a list the other keeps extending.
ControllersFinish ==
    /\ (ctl["main"].op = "stopTest") ~> (ctl["main"].op = "closed")
    /\ (ctl["notifier"].op \notin {"off", "recv", "ended"})
         ~> (ctl["notifier"].op \in {"recv", "ended"})

\* The comment in resume_all_tasks says that a thread that has ended is
\* restarted: once a resume is over, a task whose stop event is clear runs
\* again, or is stopped again, or the engine shuts down.
ResumedTaskRuns ==
    \A s \in Slots :
        (Quiet /\ ~stopEvent[Current(s)])
          ~> \/ pc[Current(s)] = "run"
             \/ stopEvent[Current(s)]
             \/ ctl["main"].op # "serving"
=============================================================================
