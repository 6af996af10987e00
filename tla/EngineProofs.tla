---------------------------- MODULE EngineProofs ----------------------------
(***************************************************************************)
(* Proofs about Engine for any number of tasks, commands and crashes: type *)
(* correctness, at most one live thread per task, at most one run of a     *)
(* task after it has been stopped, and a record of stopped tasks that      *)
(* names the threads in Engine.tasks.                                      *)
(***************************************************************************)
EXTENDS Engine, Integers, TLAPS

\* Only the thread in Engine.tasks can be alive: the ones it replaced have
\* ended, the ones that may still replace it do not exist yet.
Generations ==
    \A s \in Slots : \A g \in Gens :
        /\ g < tasks[s] => pc[<<s, g>>] = "dead"
        /\ g = tasks[s] => pc[<<s, g>>] # "unborn"
        /\ g > tasks[s] => pc[<<s, g>>] = "unborn"

\* Engine.start starts every thread before it creates the Notifier, and only
\* the notifier thread resumes tasks.
StartBeforeServe ==
    /\ ctl["main"].op \in {"starting", "serving", "stopTest", "stopMark",
                           "join", "closed"}
    /\ ctl["main"].op = "starting" =>
          /\ ctl["notifier"].op = "off"
          /\ \A s \in Slots : s < ctl["main"].i => pc[Current(s)] # "ready"
    /\ ctl["main"].op # "starting" =>
          \A s \in Slots : pc[Current(s)] # "ready"

\* Runs of a stopped task are counted only while its mark is set, and the one
\* that was in progress when the mark was set is over once it is counted.
LateCount ==
    \A s \in Slots :
        /\ ~stopEvent[Current(s)] => late[s] = 0
        /\ late[s] <= 1
        /\ late[s] # 0 => pc[Current(s)] # "run"

IInv == TypeOK /\ Generations /\ StartBeforeServe /\ LateCount

USE ConstantsAssumption

\* The thread in a slot is a thread.
LEMMA CurrentType ==
    ASSUME TypeOK, NEW s \in Slots
    PROVE  /\ Current(s) \in Threads
           /\ Current(s)[1] = s
           /\ Current(s)[2] = tasks[s]
    BY DEF TypeOK, Current, Threads

\* A thread that is neither unborn nor dead is the one Engine.tasks holds.
LEMMA LiveIsCurrent ==
    ASSUME TypeOK, Generations, NEW t \in Threads,
           pc[t] # "unborn", pc[t] # "dead"
    PROVE  t[1] \in Slots /\ t = Current(t[1])
<1>1. PICK s \in Slots, g \in Gens : t = <<s, g>>
    BY DEF Threads
<1>2. g = tasks[s]
    BY <1>1 DEF Generations, TypeOK, Gens
<1>3. QED
    BY <1>1, <1>2 DEF Current

\* Starting one thread leaves the others alone.
LEMMA PcUpdate ==
    ASSUME TypeOK, NEW s \in Slots, NEW g \in Gens,
           pc' = [pc EXCEPT ![<<s, g>>] = "test"],
           NEW r \in Slots, NEW h \in Gens
    PROVE  pc'[<<r, h>>] = IF r = s /\ h = g THEN "test" ELSE pc[<<r, h>>]
<1>1. <<r, h>> \in Threads /\ DOMAIN pc = Threads
    BY DEF Threads, TypeOK
<1>2. <<r, h>> = <<s, g>> <=> r = s /\ h = g
    OBVIOUS
<1>3. QED
    BY <1>1, <1>2

\* The initial state, in which register_task has created the threads.
LEMMA InitIInv == Init => IInv
<1>1. ASSUME Init PROVE TypeOK
    <2>1. <<1, 1>> \in Threads
        BY DEF Threads, Slots, Gens
    <2>2. ctl \in [Controllers -> [op : Ops, i : Nat \ {0}, t : Threads]]
        BY <1>1, <2>1 DEF Init, Ops
    <2>3. <<>> \in Seq(Threads)
        OBVIOUS
    <2>4. tasks \in [Slots -> Gens]
        BY <1>1 DEF Init, Gens
    <2>5. pc \in [Threads -> ThreadPC]
        BY <1>1 DEF Init, ThreadPC
    <2>6. iter \in [live : BOOLEAN, list : Seq(Threads)]
        BY <1>1, <2>3 DEF Init
    <2>7. /\ stopEvent \in [Threads -> BOOLEAN]
          /\ stoppedTasks \in Seq(Threads)
          /\ running \in BOOLEAN
        BY <1>1, <2>3 DEF Init
    <2>8. /\ cmds \in 0 .. MaxCmds
          /\ crashes \in 0 .. MaxCrashes
          /\ late \in [Slots -> Nat]
        BY <1>1 DEF Init
    <2>9. QED
        BY <2>2, <2>4, <2>5, <2>6, <2>7, <2>8 DEF TypeOK
<1>2. ASSUME Init PROVE Generations
    BY <1>2 DEF Init, Generations, Threads, Slots, Gens
<1>3. ASSUME Init PROVE StartBeforeServe
    BY <1>3 DEF Init, StartBeforeServe, Controllers, Slots
<1>4. ASSUME Init PROVE LateCount
    BY <1>4 DEF Init, LateCount
<1>5. QED
    BY <1>1, <1>2, <1>3, <1>4 DEF IInv

-----------------------------------------------------------------------------
(* Type correctness *)

\* Sending a controller to another control point keeps ctl well-typed.
LEMMA GotoType ==
    ASSUME TypeOK, NEW c \in Controllers, NEW op \in Ops,
           NEW i \in Nat \ {0}, NEW t \in Threads, Goto(c, op, i, t)
    PROVE  ctl' \in [Controllers -> [op : Ops, i : Nat \ {0}, t : Threads]]
    BY DEF TypeOK, Goto

\* The control point of a controller has the parts Goto gives it.
LEMMA CtlType ==
    ASSUME TypeOK, NEW c \in Controllers
    PROVE  /\ ctl[c].op \in Ops
           /\ ctl[c].i \in Nat \ {0}
           /\ ctl[c].t \in Threads
    BY DEF TypeOK

\* Returning from a stop or resume loop keeps ctl well-typed.
LEMMA ReturnType ==
    ASSUME TypeOK, NEW c \in Controllers, Return(c)
    PROVE  ctl' \in [Controllers -> [op : Ops, i : Nat \ {0}, t : Threads]]
<1>1. PICK op \in Ops : Goto(c, op, 1, ctl[c].t)
    BY DEF Return, Ops
<1>2. QED
    BY <1>1, CtlType, GotoType

\* StopBegin, the start of stop_all_task, keeps what it changes well-typed.
LEMMA StopBeginType ==
    ASSUME TypeOK, NEW c \in Controllers, StopBegin(c)
    PROVE  /\ stoppedTasks' \in Seq(Threads)
           /\ iter' \in [live : BOOLEAN, list : Seq(Threads)]
           /\ ctl' \in [Controllers -> [op : Ops, i : Nat \ {0}, t : Threads]]
<1>1. "stopTest" \in Ops
    BY DEF Ops
<1>2. ctl' \in [Controllers -> [op : Ops, i : Nat \ {0}, t : Threads]]
    BY <1>1, CtlType, GotoType DEF StopBegin
<1>3. QED
    BY <1>2 DEF StopBegin, TypeOK

\* Every step of the engine keeps TypeOK.
LEMMA TypeStep == TypeOK /\ [Next]_vars => TypeOK'
<1> SUFFICES ASSUME TypeOK, [Next]_vars PROVE TypeOK'
    OBVIOUS
<1>1. ASSUME NEW t \in Threads, Worker(t) \/ TaskRaises(t) PROVE TypeOK'
    <2>1. CASE TestStop(t)
        BY <2>1 DEF TestStop, TypeOK, ThreadPC
    <2>2. CASE RunTask(t)
        <3>1. t[1] \in Slots
            BY DEF Threads
        <3>2. late' \in [Slots -> Nat]
            BY <2>2, <3>1 DEF RunTask, TypeOK
        <3>3. QED
            BY <2>2, <3>2 DEF RunTask, TypeOK, ThreadPC
    <2>3. CASE WakeUp(t)
        BY <2>3 DEF WakeUp, TypeOK, ThreadPC
    <2>4. CASE Terminate(t)
        BY <2>4 DEF Terminate, TypeOK, ThreadPC
    <2>5. CASE TaskRaises(t)
        BY <2>5 DEF TaskRaises, TypeOK, ThreadPC
    <2>6. QED
        BY <1>1, <2>1, <2>2, <2>3, <2>4, <2>5 DEF Worker
<1>2. ASSUME NEW c \in Controllers, StopTest(c) PROVE TypeOK'
    <2>1. "stopTest" \in Ops /\ "stopMark" \in Ops
        BY DEF Ops
    <2>2. ctl' \in [Controllers -> [op : Ops, i : Nat \ {0}, t : Threads]]
        <3>1. CASE ctl[c].i > NumTasks
            BY <1>2, <3>1, ReturnType DEF StopTest
        <3>2. CASE ~(ctl[c].i > NumTasks)
            <4>1. ctl[c].i \in Slots /\ ctl[c].i + 1 \in Nat \ {0}
                BY <3>2, CtlType DEF Slots
            <4>2. Current(ctl[c].i) \in Threads
                BY <4>1, CurrentType
            <4>3. CASE stopEvent[Current(ctl[c].i)]
                BY <1>2, <2>1, <3>2, <4>1, <4>2, <4>3, CtlType, GotoType
                   DEF StopTest
            <4>4. CASE ~stopEvent[Current(ctl[c].i)]
                BY <1>2, <2>1, <3>2, <4>1, <4>2, <4>4, CtlType, GotoType
                   DEF StopTest
            <4>5. QED
                BY <4>3, <4>4
        <3>3. QED
            BY <3>1, <3>2
    <2>3. QED
        BY <1>2, <2>2 DEF StopTest, TypeOK
<1>3. ASSUME NEW c \in Controllers, StopMark(c) PROVE TypeOK'
    <2>1. "stopTest" \in Ops /\ ctl[c].i + 1 \in Nat \ {0}
        BY CtlType DEF Ops
    <2>2. ctl' \in [Controllers -> [op : Ops, i : Nat \ {0}, t : Threads]]
        BY <1>3, <2>1, CtlType, GotoType DEF StopMark
    <2>3. stoppedTasks' \in Seq(Threads)
        BY <1>3, CtlType DEF StopMark, TypeOK
    <2>4. QED
        BY <1>3, <2>2, <2>3, CtlType DEF StopMark, TypeOK
<1>4. ASSUME NEW c \in Controllers, ResumeClear(c) PROVE TypeOK'
    <2>1. CASE ctl[c].i > Len(IterList)
        <3>1. ctl' \in [Controllers -> [op : Ops, i : Nat \ {0}, t : Threads]]
            BY <1>4, <2>1, ReturnType DEF ResumeClear
        <3>2. <<>> \in Seq(Threads)
            OBVIOUS
        <3>3. iter' \in [live : BOOLEAN, list : Seq(Threads)]
            <4>1. iter' = [live |-> FALSE, list |-> <<>>]
                BY <1>4, <2>1 DEF ResumeClear
            <4>2. QED
                BY <3>2, <4>1
        <3>4. QED
            BY <1>4, <2>1, <3>1, <3>2, <3>3 DEF ResumeClear, TypeOK
    <2>2. CASE ~(ctl[c].i > Len(IterList))
        <3>1. IterList \in Seq(Threads)
            BY DEF IterList, TypeOK
        <3>2. IterList[ctl[c].i] \in Threads
            BY <2>2, <3>1, CtlType
        <3>3. IterList[ctl[c].i][1] \in Slots
            BY <3>2 DEF Threads
        <3>4. "resumeProbe" \in Ops
            BY DEF Ops
        <3>5. ctl' \in [Controllers -> [op : Ops, i : Nat \ {0}, t : Threads]]
            BY <1>4, <2>2, <3>2, <3>4, CtlType, GotoType DEF ResumeClear
        <3>6. late' \in [Slots -> Nat]
            BY <1>4, <2>2, <3>3 DEF ResumeClear, TypeOK
        <3>7. stopEvent' \in [Threads -> BOOLEAN]
            BY <1>4, <2>2, <3>2 DEF ResumeClear, TypeOK
        <3>8. QED
            BY <1>4, <2>2, <3>5, <3>6, <3>7 DEF ResumeClear, TypeOK
    <2>3. QED
        BY <2>1, <2>2
<1>5. ASSUME NEW c \in Controllers, ResumeProbe(c) PROVE TypeOK'
    <2>1. "resumeClear" \in Ops /\ ctl[c].i + 1 \in Nat \ {0}
        BY CtlType DEF Ops
    <2>2. ctl' \in [Controllers -> [op : Ops, i : Nat \ {0}, t : Threads]]
        BY <1>5, <2>1, CtlType, GotoType DEF ResumeProbe
    <2>3. CASE UNCHANGED <<tasks, pc, late>>
        BY <1>5, <2>2, <2>3 DEF ResumeProbe, TypeOK
    <2>4. CASE ~UNCHANGED <<tasks, pc, late>>
        <3>1. PICK s \in Slots : s = ctl[c].t[1]
            BY CtlType DEF Threads
        <3>2. /\ tasks[s] < MaxGen
              /\ tasks' = [tasks EXCEPT ![s] = @ + 1]
              /\ pc' = [pc EXCEPT ![<<s, tasks[s] + 1>>] = "test"]
              /\ late' = [late EXCEPT ![s] = 0]
            BY <1>5, <2>4, <3>1 DEF ResumeProbe, Revive
        <3>3. tasks[s] + 1 \in Gens
            BY <3>2 DEF TypeOK, Gens
        <3>4. tasks' \in [Slots -> Gens]
            BY <3>2, <3>3 DEF TypeOK
        <3>5. pc' \in [Threads -> ThreadPC] /\ late' \in [Slots -> Nat]
            BY <3>2 DEF TypeOK, ThreadPC
        <3>6. QED
            BY <1>5, <2>2, <3>4, <3>5 DEF ResumeProbe, TypeOK
    <2>5. QED
        BY <2>3, <2>4
<1>6. ASSUME StopCommand PROVE TypeOK'
    <2>1. "notifier" \in Controllers
        BY DEF Controllers
    <2>2. QED
        BY <1>6, <2>1, StopBeginType DEF StopCommand, ReceiveCommand, TypeOK
<1>7. ASSUME ResumeCommand PROVE TypeOK'
    <2>1. "notifier" \in Controllers /\ "resumeClear" \in Ops
        BY DEF Controllers, Ops
    <2>2. ctl' \in [Controllers -> [op : Ops, i : Nat \ {0}, t : Threads]]
        BY <1>7, <2>1, CtlType, GotoType DEF ResumeCommand, ResumeBegin
    <2>3. <<>> \in Seq(Threads)
        OBVIOUS
    <2>4. QED
        BY <1>7, <2>2, <2>3
           DEF ResumeCommand, ResumeBegin, ReceiveCommand, TypeOK
<1>8. ASSUME NotifierEnds PROVE TypeOK'
    <2>1. "notifier" \in Controllers /\ "ended" \in Ops
        BY DEF Controllers, Ops
    <2>2. ctl' \in [Controllers -> [op : Ops, i : Nat \ {0}, t : Threads]]
        BY <1>8, <2>1, CtlType, GotoType DEF NotifierEnds
    <2>3. QED
        BY <1>8, <2>2 DEF NotifierEnds, TypeOK
<1>9. ASSUME StartTask PROVE TypeOK'
    <2>1. "main" \in Controllers /\ "starting" \in Ops
        BY DEF Controllers, Ops
    <2>2. CASE ctl["main"].i <= NumTasks
        <3>1. ctl' \in [Controllers -> [op : Ops, i : Nat \ {0}, t : Threads]]
            <4>1. ctl["main"].i + 1 \in Nat \ {0}
                BY <2>1, CtlType
            <4>2. QED
                BY <1>9, <2>1, <2>2, <4>1, CtlType, GotoType DEF StartTask
        <3>2. pc' \in [Threads -> ThreadPC]
            BY <1>9, <2>2 DEF StartTask, TypeOK, ThreadPC
        <3>3. QED
            BY <1>9, <2>2, <3>1, <3>2 DEF StartTask, TypeOK
    <2>3. CASE ~(ctl["main"].i <= NumTasks)
        <3>1. ctl' \in [Controllers -> [op : Ops, i : Nat \ {0}, t : Threads]]
            <4> DEFINE Point == [op : Ops, i : Nat \ {0}, t : Threads]
                       m == [ctl["main"] EXCEPT !.op = "serving"]
                       n == [ctl["notifier"] EXCEPT !.op = "recv"]
            <4>1. "serving" \in Ops /\ "recv" \in Ops
                BY DEF Ops
            <4>2. m \in Point /\ n \in Point
                BY <4>1 DEF TypeOK, Controllers
            <4>3. ctl' = [[ctl EXCEPT !["main"] = m] EXCEPT !["notifier"] = n]
                BY <1>9, <2>3 DEF StartTask, TypeOK, Controllers
            <4> HIDE DEF m, n
            <4>4. QED
                BY <4>2, <4>3 DEF TypeOK
        <3>2. QED
            BY <1>9, <2>3, <3>1 DEF StartTask, TypeOK
    <2>4. QED
        BY <2>2, <2>3
<1>10. ASSUME KeyboardInterrupt PROVE TypeOK'
    <2>1. "main" \in Controllers
        BY DEF Controllers
    <2>2. QED
        BY <1>10, <2>1, StopBeginType DEF KeyboardInterrupt, TypeOK
<1>11. ASSUME NotifierStop PROVE TypeOK'
    BY <1>11 DEF NotifierStop, TypeOK
<1>12. ASSUME BusShutdown PROVE TypeOK'
    <2>1. "main" \in Controllers /\ "closed" \in Ops
        BY DEF Controllers, Ops
    <2>2. ctl' \in [Controllers -> [op : Ops, i : Nat \ {0}, t : Threads]]
        BY <1>12, <2>1, CtlType, GotoType DEF BusShutdown
    <2>3. QED
        BY <1>12, <2>2 DEF BusShutdown, TypeOK
<1>13. CASE UNCHANGED vars
    BY <1>13 DEF vars, TypeOK
<1>14. QED
    BY <1>1, <1>2, <1>3, <1>4, <1>5, <1>6, <1>7, <1>8, <1>9, <1>10, <1>11,
       <1>12, <1>13 DEF Next, Controller

-----------------------------------------------------------------------------
(* The other parts of the inductive invariant *)

\* Every step keeps Generations: threads move only while they are current, and
\* a resume replaces a thread only when that thread has ended.
LEMMA GenerationsStep == IInv /\ [Next]_vars => Generations'
<1> SUFFICES ASSUME IInv, [Next]_vars PROVE Generations'
    OBVIOUS
<1> USE DEF IInv
<1>1. ASSUME NEW t \in Threads, Worker(t) \/ TaskRaises(t) PROVE Generations'
    <2>1. /\ tasks' = tasks
          /\ pc[t] # "unborn" /\ pc[t] # "dead"
          /\ \E p \in ThreadPC \ {"unborn"} : pc' = [pc EXCEPT ![t] = p]
        BY <1>1 DEF Worker, TestStop, RunTask, WakeUp, Terminate, TaskRaises,
                    ThreadPC
    <2>2. t[1] \in Slots /\ t = Current(t[1])
        BY <2>1, LiveIsCurrent
    <2>3. \A s \in Slots, g \in Gens :
             g # tasks[s] => pc'[<<s, g>>] = pc[<<s, g>>]
        BY <2>1, <2>2 DEF TypeOK, Current, Threads, Gens
    <2>4. \A s \in Slots : pc'[Current(s)] # "unborn"
        BY <2>1, CurrentType DEF TypeOK, Generations, Current
    <2>5. QED
        <3> SUFFICES ASSUME NEW s \in Slots, NEW g \in Gens
                     PROVE  /\ g < tasks[s] => pc'[<<s, g>>] = "dead"
                            /\ g = tasks[s] => pc'[<<s, g>>] # "unborn"
                            /\ g > tasks[s] => pc'[<<s, g>>] = "unborn"
            BY <2>1 DEF Generations
        <3>1. g # tasks[s] => pc'[<<s, g>>] = pc[<<s, g>>]
            BY <2>3
        <3>2. g = tasks[s] => pc'[<<s, g>>] # "unborn"
            BY <2>4 DEF Current
        <3>3. g < tasks[s] \/ g > tasks[s] => g # tasks[s]
            BY DEF TypeOK, Gens
        <3>4. QED
            BY <3>1, <3>2, <3>3 DEF Generations
<1>2. ASSUME NEW c \in Controllers, ResumeProbe(c) PROVE Generations'
    <2>1. CASE UNCHANGED <<tasks, pc, late>>
        BY <2>1 DEF Generations
    <2>2. CASE ~UNCHANGED <<tasks, pc, late>>
        <3>1. PICK s \in Slots : s = ctl[c].t[1]
            BY CtlType DEF Threads
        <3>2. /\ ctl[c].t = Current(s)
              /\ pc[Current(s)] \notin Alive
              /\ tasks[s] < MaxGen
              /\ tasks' = [tasks EXCEPT ![s] = @ + 1]
              /\ pc' = [pc EXCEPT ![<<s, tasks[s] + 1>>] = "test"]
            BY <1>2, <2>2, <3>1 DEF ResumeProbe, Revive
        <3>3. pc[Current(s)] # "ready"
            <4>1. ctl["main"].op # "starting"
                BY <1>2 DEF ResumeProbe, StartBeforeServe, Controllers
            <4>2. QED
                BY <4>1 DEF StartBeforeServe
        <3>4. pc[Current(s)] # "unborn"
            BY DEF Generations, TypeOK, Current
        <3>5. pc[Current(s)] = "dead"
            BY <3>2, <3>3, <3>4, CurrentType DEF TypeOK, ThreadPC, Alive
        <3>6. tasks[s] \in Gens /\ tasks[s] + 1 \in Gens
            BY <3>2 DEF TypeOK, Gens
        <3>7. \A r \in Slots, h \in Gens :
                 pc'[<<r, h>>] = IF r = s /\ h = tasks[s] + 1 THEN "test"
                                                             ELSE pc[<<r, h>>]
            BY <3>2, <3>6, PcUpdate
        <3>8. \A r \in Slots : tasks'[r] = IF r = s THEN tasks[s] + 1
                                                      ELSE tasks[r]
            BY <3>2 DEF TypeOK
        <3>9. QED
            <4> SUFFICES ASSUME NEW r \in Slots, NEW h \in Gens
                         PROVE  /\ h < tasks'[r] => pc'[<<r, h>>] = "dead"
                                /\ h = tasks'[r] => pc'[<<r, h>>] # "unborn"
                                /\ h > tasks'[r] => pc'[<<r, h>>] = "unborn"
                BY DEF Generations
            <4>1. /\ h < tasks[r] => pc[<<r, h>>] = "dead"
                  /\ h = tasks[r] => pc[<<r, h>>] # "unborn"
                  /\ h > tasks[r] => pc[<<r, h>>] = "unborn"
                BY DEF Generations
            <4>2. CASE r # s
                BY <3>7, <3>8, <4>1, <4>2
            <4>3. CASE r = s
                <5>1. tasks'[r] = tasks[s] + 1
                    BY <3>8, <4>3
                <5>2. h = tasks[s] => pc[<<r, h>>] = "dead"
                    BY <3>5, <4>3 DEF Current
                <5>3. h = tasks[s] + 1 => pc'[<<r, h>>] = "test"
                    BY <3>7, <4>3
                <5>4. h # tasks[s] + 1 => pc'[<<r, h>>] = pc[<<r, h>>]
                    BY <3>7
                <5>5. h \in Int /\ tasks[s] \in Int
                    BY <3>6 DEF Gens
                <5>6. QED
                    BY <4>1, <4>3, <5>1, <5>2, <5>3, <5>4, <5>5
            <4>4. QED
                BY <4>2, <4>3
    <2>3. QED
        BY <2>1, <2>2
<1>3. ASSUME StartTask PROVE Generations'
    <2>1. CASE ctl["main"].i <= NumTasks
        <3>1. ctl["main"].i \in Slots
            BY <2>1, CtlType DEF Controllers, Slots
        <3>2. tasks[ctl["main"].i] \in Gens /\ tasks' = tasks
            BY <1>3, <3>1 DEF StartTask, TypeOK
        <3>3. \A r \in Slots, h \in Gens :
                 pc'[<<r, h>>] = IF r = ctl["main"].i /\ h = tasks[r]
                                 THEN "test" ELSE pc[<<r, h>>]
            <4>1. pc' = [pc EXCEPT ![<<ctl["main"].i, tasks[ctl["main"].i]>>] = "test"]
                BY <1>3, <2>1 DEF StartTask, Current
            <4>2. PICK k \in Slots, g \in Gens :
                       k = ctl["main"].i /\ g = tasks[ctl["main"].i]
                BY <3>1, <3>2
            <4>3. \A r \in Slots, h \in Gens :
                     pc'[<<r, h>>] = IF r = k /\ h = g THEN "test"
                                                       ELSE pc[<<r, h>>]
                BY <4>1, <4>2, PcUpdate
            <4>4. QED
                BY <4>2, <4>3
        <3>4. ASSUME NEW r \in Slots, NEW h \in Gens
              PROVE  /\ h < tasks[r] => pc'[<<r, h>>] = "dead"
                     /\ h = tasks[r] => pc'[<<r, h>>] # "unborn"
                     /\ h > tasks[r] => pc'[<<r, h>>] = "unborn"
            <4>1. h \in Int /\ tasks[r] \in Int
                BY DEF TypeOK, Gens
            <4>2. QED
                BY <3>3, <4>1 DEF Generations
        <3>5. QED
            BY <3>2, <3>4 DEF Generations
    <2>2. CASE ~(ctl["main"].i <= NumTasks)
        BY <1>3, <2>2 DEF StartTask, Generations
    <2>3. QED
        BY <2>1, <2>2
<1>4. CASE UNCHANGED <<tasks, pc>>
    BY <1>4 DEF Generations
<1>5. QED
    BY <1>1, <1>2, <1>3, <1>4
       DEF Next, Controller, StopTest, StopMark, ResumeClear, StopCommand,
           ResumeCommand, ReceiveCommand, NotifierEnds, KeyboardInterrupt,
           NotifierStop, BusShutdown, vars

\* Every step keeps StartBeforeServe.
LEMMA StartBeforeServeStep == IInv /\ [Next]_vars => StartBeforeServe'
<1> SUFFICES ASSUME IInv, [Next]_vars PROVE StartBeforeServe'
    OBVIOUS
<1> USE DEF IInv
<1>1. ASSUME NEW t \in Threads, Worker(t) \/ TaskRaises(t)
      PROVE  StartBeforeServe'
    <2>1. /\ tasks' = tasks /\ ctl' = ctl
          /\ \E p \in ThreadPC \ {"ready"} : pc' = [pc EXCEPT ![t] = p]
        BY <1>1 DEF Worker, TestStop, RunTask, WakeUp, Terminate, TaskRaises,
                    ThreadPC
    <2>2. \A s \in Slots : pc[Current(s)] # "ready" => pc'[Current(s)] # "ready"
        BY <2>1, CurrentType DEF TypeOK
    <2>3. QED
        BY <2>1, <2>2 DEF StartBeforeServe, Current
<1>2. ASSUME NEW c \in Controllers, StopTest(c) \/ StopMark(c)
      PROVE  StartBeforeServe'
    <2>1. ctl["main"].op # "starting"
        BY <1>2 DEF StopTest, StopMark, StartBeforeServe, Controllers
    <2>2. UNCHANGED <<tasks, pc>>
        BY <1>2 DEF StopTest, StopMark
    <2>3. ctl'["main"].op \in {"serving", "stopTest", "stopMark", "join", "closed"}
        BY <1>2, <2>1 DEF StopTest, StopMark, Return, Goto, StartBeforeServe,
                          Controllers, TypeOK
    <2>4. QED
        BY <2>1, <2>2, <2>3 DEF StartBeforeServe, Current
<1>3. ASSUME NEW c \in Controllers, ResumeClear(c) \/ ResumeProbe(c)
      PROVE  StartBeforeServe'
    <2>1. c = "notifier" /\ ctl["main"].op # "starting"
        BY <1>3 DEF ResumeClear, ResumeProbe, StartBeforeServe, Controllers
    <2>2. ctl'["main"] = ctl["main"]
        BY <1>3, <2>1 DEF ResumeClear, ResumeProbe, Return, Goto, TypeOK,
                          Controllers
    <2>3. CASE UNCHANGED <<tasks, pc>>
        BY <2>1, <2>2, <2>3 DEF StartBeforeServe, Current
    <2>4. CASE ~UNCHANGED <<tasks, pc>>
        <3>1. PICK s \in Slots : s = ctl[c].t[1]
            BY <2>1, CtlType DEF Threads
        <3>2. /\ tasks[s] < MaxGen
              /\ tasks' = [tasks EXCEPT ![s] = @ + 1]
              /\ pc' = [pc EXCEPT ![<<s, tasks[s] + 1>>] = "test"]
            BY <1>3, <2>4, <3>1 DEF ResumeClear, ResumeProbe, Revive
        <3>3. tasks[s] + 1 \in Gens
            BY <3>2 DEF TypeOK, Gens
        <3>4. \A r \in Slots, h \in Gens :
                 pc'[<<r, h>>] = IF r = s /\ h = tasks[s] + 1 THEN "test"
                                                             ELSE pc[<<r, h>>]
            BY <3>2, <3>3, PcUpdate
        <3>5. ASSUME NEW r \in Slots PROVE pc'[<<r, tasks'[r]>>] # "ready"
            <4>1. tasks[s] + 1 \in Gens /\ tasks[r] \in Gens
                BY <3>2 DEF TypeOK, Gens
            <4>2. tasks'[r] = IF r = s THEN tasks[s] + 1 ELSE tasks[r]
                BY <3>2 DEF TypeOK
            <4>3. r # s => pc'[<<r, tasks[r]>>] = pc[<<r, tasks[r]>>]
                BY <3>4, <4>1
            <4>4. pc'[<<s, tasks[s] + 1>>] = "test"
                BY <3>4, <4>1
            <4>5. pc[<<r, tasks[r]>>] # "ready"
                BY <2>1 DEF StartBeforeServe, Current
            <4>6. QED
                BY <4>2, <4>3, <4>4, <4>5
        <3>6. QED
            BY <2>1, <2>2, <3>5 DEF StartBeforeServe, Current
    <2>5. QED
        BY <2>3, <2>4
<1>4. ASSUME StopCommand \/ ResumeCommand \/ NotifierEnds
      PROVE  StartBeforeServe'
    <2>1. ctl["main"].op # "starting" /\ ctl["main"] = ctl'["main"]
        BY <1>4 DEF StopCommand, ResumeCommand, ReceiveCommand, NotifierEnds,
                    StopBegin, ResumeBegin, Goto, StartBeforeServe, TypeOK,
                    Controllers
    <2>2. UNCHANGED <<tasks, pc>>
        BY <1>4 DEF StopCommand, ResumeCommand, ReceiveCommand, NotifierEnds
    <2>3. QED
        BY <2>1, <2>2 DEF StartBeforeServe, Current
<1>5. ASSUME StartTask PROVE StartBeforeServe'
    <2>0. ctl["main"].op = "starting" /\ ctl["main"].i \in Nat \ {0}
        BY <1>5, CtlType DEF StartTask, Controllers
    <2>1. CASE ctl["main"].i <= NumTasks
        <3>1. ctl["main"].i \in Slots
            BY <2>0, <2>1 DEF Slots
        <3>2. /\ pc' = [pc EXCEPT ![Current(ctl["main"].i)] = "test"]
              /\ tasks' = tasks
              /\ ctl'["main"].op = "starting"
              /\ ctl'["main"].i = ctl["main"].i + 1
              /\ ctl'["notifier"] = ctl["notifier"]
            BY <1>5, <2>1 DEF StartTask, Goto, TypeOK, Controllers
        <3>3. ASSUME NEW s \in Slots, s < ctl["main"].i + 1
              PROVE  pc'[Current(s)] # "ready"
            <4>1. CASE s = ctl["main"].i
                BY <3>2, <4>1, CurrentType DEF TypeOK
            <4>2. CASE s < ctl["main"].i
                BY <2>0, <3>2, <4>2, CurrentType DEF TypeOK, StartBeforeServe
            <4>3. QED
                BY <2>0, <3>3, <4>1, <4>2 DEF Slots
        <3>4. QED
            BY <2>0, <3>2, <3>3 DEF StartBeforeServe, Current
    <2>2. CASE ~(ctl["main"].i <= NumTasks)
        <3>1. UNCHANGED <<tasks, pc>> /\ ctl'["main"].op = "serving"
            BY <1>5, <2>2 DEF StartTask, TypeOK, Controllers
        <3>2. \A s \in Slots : pc[Current(s)] # "ready"
            BY <2>0, <2>2 DEF StartBeforeServe, Slots
        <3>3. QED
            BY <3>1, <3>2 DEF StartBeforeServe, Current
    <2>3. QED
        BY <2>1, <2>2
<1>6. ASSUME KeyboardInterrupt \/ NotifierStop \/ BusShutdown
      PROVE  StartBeforeServe'
    <2>1. /\ UNCHANGED <<tasks, pc>>
          /\ ctl["main"].op # "starting"
          /\ ctl'["main"].op \in {"stopTest", "join", "closed"}
        BY <1>6 DEF KeyboardInterrupt, NotifierStop, BusShutdown, StopBegin,
                    Goto, TypeOK, Controllers
    <2>2. QED
        BY <2>1 DEF StartBeforeServe, Current
<1>7. CASE UNCHANGED vars
    BY <1>7 DEF vars, StartBeforeServe, Current
<1>8. QED
    BY <1>1, <1>2, <1>3, <1>4, <1>5, <1>6, <1>7 DEF Next, Controller

\* Every step keeps LateCount.
LEMMA LateCountStep == IInv /\ [Next]_vars => LateCount'
<1> SUFFICES ASSUME IInv, [Next]_vars PROVE LateCount'
    OBVIOUS
<1> USE DEF IInv
<1>1. ASSUME NEW t \in Threads, Worker(t) \/ TaskRaises(t) PROVE LateCount'
    <2>1. tasks' = tasks /\ stopEvent' = stopEvent
        BY <1>1 DEF Worker, TestStop, RunTask, WakeUp, Terminate, TaskRaises
    <2>2. t[1] \in Slots /\ t = Current(t[1])
        <3>1. pc[t] # "unborn" /\ pc[t] # "dead"
            BY <1>1 DEF Worker, TestStop, RunTask, WakeUp, Terminate, TaskRaises
        <3>2. QED
            BY <3>1, LiveIsCurrent
    <2>3. SUFFICES ASSUME NEW s \in Slots
                   PROVE  /\ ~stopEvent[Current(s)] => late'[s] = 0
                          /\ late'[s] <= 1
                          /\ late'[s] # 0 => pc'[Current(s)] # "run"
        BY <2>1 DEF LateCount, Current
    <2>4. CASE RunTask(t)
        <3>1. CASE t[1] = s
            BY <2>2, <2>4, <3>1 DEF RunTask, LateCount, TypeOK
        <3>2. CASE t[1] # s
            <4>1. late'[s] = late[s]
                BY <2>4, <3>2 DEF RunTask, TypeOK
            <4>2. pc'[Current(s)] = pc[Current(s)]
                BY <2>4, <3>2, CurrentType DEF RunTask, TypeOK
            <4>3. QED
                BY <4>1, <4>2 DEF LateCount
        <3>3. QED
            BY <3>1, <3>2
    <2>5. CASE ~RunTask(t)
        <3>1. late' = late
            BY <1>1, <2>5 DEF Worker, TestStop, WakeUp, Terminate, TaskRaises
        <3>2. /\ t # Current(s) => pc'[Current(s)] = pc[Current(s)]
              /\ t = Current(s) => (pc'[Current(s)] = "run" => ~stopEvent[t])
            BY <1>1, <2>5, CurrentType
               DEF Worker, TestStop, WakeUp, Terminate, TaskRaises, TypeOK
        <3>3. QED
            BY <3>1, <3>2 DEF LateCount
    <2>6. QED
        BY <2>4, <2>5
<1>2. ASSUME NEW c \in Controllers, StopMark(c) PROVE LateCount'
    <2>1. /\ UNCHANGED <<tasks, pc, late>>
          /\ stopEvent' = [stopEvent EXCEPT ![ctl[c].t] = TRUE]
        BY <1>2 DEF StopMark
    <2>2. \A s \in Slots : stopEvent[Current(s)] => stopEvent'[Current(s)]
        BY <2>1, CurrentType DEF TypeOK
    <2>3. QED
        BY <2>1, <2>2 DEF LateCount, Current
<1>3. ASSUME NEW c \in Controllers, ResumeClear(c) PROVE LateCount'
    <2>1. CASE ctl[c].i > Len(IterList)
        BY <1>3, <2>1 DEF ResumeClear, LateCount, Current
    <2>2. CASE ~(ctl[c].i > Len(IterList))
        <3>1. PICK t \in Threads : t = IterList[ctl[c].i]
            <4>1. IterList \in Seq(Threads)
                BY DEF IterList, TypeOK
            <4>2. QED
                BY <2>2, <4>1, CtlType
        <3>2. /\ UNCHANGED <<tasks, pc>>
              /\ stopEvent' = [stopEvent EXCEPT ![t] = FALSE]
              /\ late' = [late EXCEPT ![t[1]] =
                             IF t = Current(t[1]) THEN 0 ELSE @]
            BY <1>3, <2>2, <3>1 DEF ResumeClear
        <3>3. ASSUME NEW s \in Slots
              PROVE  IF t = Current(s)
                     THEN late'[s] = 0
                     ELSE /\ late'[s] = late[s]
                          /\ stopEvent'[Current(s)] = stopEvent[Current(s)]
            <4>1. t[1] \in Slots
                BY DEF Threads
            <4>2. t = Current(s) => t[1] = s
                BY CurrentType
            <4>3. CASE t = Current(s)
                BY <3>2, <4>1, <4>2, <4>3 DEF TypeOK
            <4>4. CASE t # Current(s)
                BY <3>2, <4>1, <4>4, CurrentType DEF TypeOK
            <4>5. QED
                BY <4>3, <4>4
        <3>4. ASSUME NEW s \in Slots
              PROVE  /\ ~stopEvent'[Current(s)] => late'[s] = 0
                     /\ late'[s] <= 1
                     /\ late'[s] # 0 => pc[Current(s)] # "run"
            BY <3>3 DEF LateCount
        <3>5. QED
            BY <3>2, <3>4 DEF LateCount, Current
    <2>3. QED
        BY <2>1, <2>2
<1>4. ASSUME NEW c \in Controllers, ResumeProbe(c) PROVE LateCount'
    <2>1. CASE UNCHANGED <<tasks, pc, late>>
        BY <1>4, <2>1 DEF ResumeProbe, LateCount, Current
    <2>2. CASE ~UNCHANGED <<tasks, pc, late>>
        <3>1. PICK s \in Slots : s = ctl[c].t[1]
            BY CtlType DEF Threads
        <3>2. /\ tasks[s] < MaxGen
              /\ tasks' = [tasks EXCEPT ![s] = @ + 1]
              /\ pc' = [pc EXCEPT ![<<s, tasks[s] + 1>>] = "test"]
              /\ late' = [late EXCEPT ![s] = 0]
              /\ stopEvent' = stopEvent
            BY <1>4, <2>2, <3>1 DEF ResumeProbe, Revive
        <3>3. ASSUME NEW r \in Slots
              PROVE  /\ r = s => late'[r] = 0
                     /\ r # s => /\ late'[r] = late[r]
                                 /\ tasks'[r] = tasks[r]
                                 /\ pc'[<<r, tasks[r]>>] = pc[<<r, tasks[r]>>]
            <4>1. tasks[s] + 1 \in Gens /\ tasks[r] \in Gens
                BY <3>2 DEF TypeOK, Gens
            <4>2. QED
                BY <3>2, <4>1, PcUpdate DEF TypeOK
        <3>4. ASSUME NEW r \in Slots
              PROVE  /\ ~stopEvent[<<r, tasks'[r]>>] => late'[r] = 0
                     /\ late'[r] <= 1
                     /\ late'[r] # 0 => pc'[<<r, tasks'[r]>>] # "run"
            <4>1. /\ ~stopEvent[<<r, tasks[r]>>] => late[r] = 0
                  /\ late[r] <= 1
                  /\ late[r] # 0 => pc[<<r, tasks[r]>>] # "run"
                BY DEF LateCount, Current
            <4>2. QED
                BY <3>3, <4>1
        <3>5. QED
            BY <3>2, <3>4 DEF LateCount, Current
    <2>3. QED
        BY <2>1, <2>2
<1>5. ASSUME StartTask PROVE LateCount'
    <2>1. UNCHANGED <<tasks, stopEvent, late>>
        BY <1>5 DEF StartTask
    <2>2. \A s \in Slots : pc'[Current(s)] = pc[Current(s)]
                            \/ pc'[Current(s)] = "test"
        BY <1>5, CurrentType DEF StartTask, TypeOK
    <2>3. QED
        BY <2>1, <2>2 DEF LateCount, Current
<1>6. CASE UNCHANGED <<tasks, pc, stopEvent, late>>
    BY <1>6 DEF LateCount, Current
<1>7. QED
    BY <1>1, <1>2, <1>3, <1>4, <1>5, <1>6
       DEF Next, Controller, StopTest, StopCommand, ResumeCommand,
           ReceiveCommand, NotifierEnds, KeyboardInterrupt, NotifierStop,
           BusShutdown, vars

-----------------------------------------------------------------------------
(* The theorems *)

\* The inductive invariant holds in every reachable state of the engine.
THEOREM EngineInductive == Spec => []IInv
<1>1. IInv /\ [Next]_vars => IInv'
    BY TypeStep, GenerationsStep, StartBeforeServeStep, LateCountStep DEF IInv
<1>2. QED
    BY InitIInv, <1>1, PTL DEF Spec

\* Type correctness of the engine for any number of tasks and commands.
THEOREM EngineTypeOK == Spec => []TypeOK
<1>1. IInv => TypeOK
    BY DEF IInv
<1>2. QED
    BY EngineInductive, <1>1, PTL

\* No sequence of stop and resume commands, of crashes of task functions and
\* of a concurrent shutdown makes resume_all_tasks start a second live
\* PeriodicSleeper for a task.
THEOREM EngineOneLiveThread == Spec => []OneLiveThreadPerTask
<1>1. IInv => OneLiveThreadPerTask
    <2> SUFFICES ASSUME IInv, NEW s \in Slots, NEW g \in Gens, NEW h \in Gens,
                        pc[<<s, g>>] \in Alive, pc[<<s, h>>] \in Alive
                 PROVE  g = h
        BY DEF OneLiveThreadPerTask
    <2>1. g = tasks[s] /\ h = tasks[s]
        BY DEF IInv, TypeOK, Generations, Gens, Alive
    <2>2. QED
        BY <2>1
<1>2. QED
    BY EngineInductive, <1>1, PTL

\* After stop_all_task has marked a task, the task function completes at most
\* once until a resume clears the mark.
THEOREM EngineAtMostOneLateRun == Spec => []AtMostOneLateRun
<1>1. IInv => AtMostOneLateRun
    BY DEF IInv, LateCount, AtMostOneLateRun
<1>2. QED
    BY EngineInductive, <1>1, PTL

-----------------------------------------------------------------------------
(* What stop_all_task has recorded *)

\* The threads that a loop of the notifier thread has still to come to.  In a
\* resume the entries that the loop has passed may have been replaced.
Pending(k) ==
    /\ ctl["notifier"].op = "resumeClear" => k >= ctl["notifier"].i
    /\ ctl["notifier"].op = "resumeProbe" => k > ctl["notifier"].i

\* While the main thread does not walk the lists: stop_all_task records every
\* slot once, in the order of Engine.tasks, so that a resume which clears one
\* mark and replaces one thread leaves the entries it has still to come to alone.
RecordKept ==
    /\ ctl["main"].op = "starting" => stoppedTasks = <<>>
    /\ ctl["main"].op = "serving" =>
          /\ ctl["notifier"].op \in {"resumeClear", "resumeProbe"} => iter.live
          /\ ctl["notifier"].op \in {"stopTest", "stopMark"} =>
                \A k \in 1 .. Len(stoppedTasks) : stoppedTasks[k][1] < ctl["notifier"].i
          /\ ctl["notifier"].op = "stopMark" =>
                /\ ctl["notifier"].i \in Slots
                /\ ctl["notifier"].t = Current(ctl["notifier"].i)
          /\ ctl["notifier"].op = "resumeProbe" =>
                /\ ctl["notifier"].i \in 1 .. Len(stoppedTasks)
                /\ ctl["notifier"].t = stoppedTasks[ctl["notifier"].i]
          /\ \A k, l \in 1 .. Len(stoppedTasks) :
                k < l => stoppedTasks[k][1] < stoppedTasks[l][1]
          /\ \A k \in 1 .. Len(stoppedTasks) : Pending(k) =>
                /\ stoppedTasks[k] = Current(stoppedTasks[k][1])
                /\ stopEvent[stoppedTasks[k]]

LEMMA InitRecord == Init => RecordKept
    BY DEF Init, RecordKept, Controllers

\* The steps of the notifier thread while the main thread only waits.
LEMMA RecordStopTest ==
    ASSUME IInv, RecordKept, ctl["main"].op = "serving", StopTest("notifier")
    PROVE  RecordKept'
<1> DEFINE n == ctl["notifier"]
<1>0. /\ TypeOK /\ n.i \in Nat \ {0} /\ "notifier" \in Controllers /\ "main" \in Controllers
      /\ stoppedTasks \in Seq(Threads)
    BY CtlType DEF IInv, Controllers, TypeOK
<1>1. /\ UNCHANGED <<tasks, stopEvent, stoppedTasks, iter>>
      /\ n.op = "stopTest" /\ ctl'["main"] = ctl["main"]
    BY <1>0 DEF StopTest, Return, Goto, TypeOK
<1>2. \A k \in 1 .. Len(stoppedTasks) :
          /\ stoppedTasks[k] = Current(stoppedTasks[k][1])
          /\ stopEvent[stoppedTasks[k]]
          /\ stoppedTasks[k][1] < n.i
    BY <1>1 DEF RecordKept, Pending
<1>3. CASE n.i > NumTasks
    <2>1. ctl'["notifier"].op \in {"recv", "ended"}
        BY <1>0, <1>3 DEF StopTest, Return, Goto, TypeOK
    <2>2. QED
        BY <1>1, <1>2, <2>1 DEF RecordKept, Pending, Current
<1>4. CASE ~(n.i > NumTasks) /\ stopEvent[Current(n.i)]
    <2>1. ctl'["notifier"].op = "stopTest" /\ ctl'["notifier"].i = n.i + 1
        BY <1>0, <1>4 DEF StopTest, Goto, TypeOK
    <2>2. \A k \in 1 .. Len(stoppedTasks) : stoppedTasks[k][1] < n.i + 1
        <3>1. \A k \in 1 .. Len(stoppedTasks) : stoppedTasks[k][1] \in Nat
            BY <1>0 DEF Threads, Slots
        <3>2. QED
            BY <1>0, <1>2, <3>1
    <2>3. QED
        BY <1>1, <1>2, <2>1, <2>2 DEF RecordKept, Pending, Current
<1>5. CASE ~(n.i > NumTasks) /\ ~stopEvent[Current(n.i)]
    <2>1. /\ ctl'["notifier"].op = "stopMark" /\ ctl'["notifier"].i = n.i
          /\ ctl'["notifier"].t = Current(n.i)
          /\ n.i \in Slots
        BY <1>0, <1>5 DEF StopTest, Goto, TypeOK, Slots
    <2>2. QED
        BY <1>1, <1>2, <2>1 DEF RecordKept, Pending, Current
<1>6. QED
    BY <1>3, <1>4, <1>5

LEMMA RecordStopMark ==
    ASSUME IInv, RecordKept, ctl["main"].op = "serving", StopMark("notifier")
    PROVE  RecordKept'
<1> DEFINE n == ctl["notifier"]
           m == Len(stoppedTasks)
<1>0. /\ TypeOK /\ n.i \in Nat \ {0} /\ n.t \in Threads
      /\ "notifier" \in Controllers /\ "main" \in Controllers
      /\ stoppedTasks \in Seq(Threads) /\ m \in Nat
    BY CtlType DEF IInv, Controllers, TypeOK
<1>1. /\ UNCHANGED <<tasks, iter>>
      /\ stoppedTasks' = Append(stoppedTasks, n.t)
      /\ stopEvent' = [stopEvent EXCEPT ![n.t] = TRUE]
      /\ n.op = "stopMark" /\ ctl'["main"] = ctl["main"]
      /\ ctl'["notifier"].op = "stopTest" /\ ctl'["notifier"].i = n.i + 1
    BY <1>0 DEF StopMark, Goto, TypeOK
<1>2. /\ n.i \in Slots /\ n.t = Current(n.i) /\ n.t[1] = n.i
      /\ \A k \in 1 .. m : stoppedTasks[k][1] \in Nat
    BY <1>0, <1>1 DEF RecordKept, Current, Threads, Slots
<1>3. /\ Len(stoppedTasks') = m + 1 /\ stoppedTasks'[m + 1] = n.t
      /\ \A k \in 1 .. m : stoppedTasks'[k] = stoppedTasks[k]
    BY <1>0, <1>1
<1>4. ASSUME NEW k \in 1 .. Len(stoppedTasks')
      PROVE  /\ stoppedTasks'[k][1] < n.i + 1
             /\ stoppedTasks'[k] = Current(stoppedTasks'[k][1])
             /\ stopEvent'[stoppedTasks'[k]]
    <2>1. CASE k = m + 1
        BY <1>0, <1>1, <1>2, <1>3, <2>1 DEF TypeOK
    <2>2. CASE k \in 1 .. m
        <3>1. /\ stoppedTasks[k][1] < n.i
              /\ stoppedTasks[k] = Current(stoppedTasks[k][1])
              /\ stopEvent[stoppedTasks[k]]
              /\ stoppedTasks[k] \in Threads
            BY <1>0, <1>1, <2>2 DEF RecordKept, Pending
        <3>2. stopEvent'[stoppedTasks[k]]
            BY <1>0, <1>1, <3>1 DEF TypeOK
        <3>3. QED
            BY <1>0, <1>2, <1>3, <2>2, <3>1, <3>2
    <2>3. QED
        BY <1>0, <1>3, <2>1, <2>2
<1>5. ASSUME NEW k \in 1 .. Len(stoppedTasks'), NEW l \in 1 .. Len(stoppedTasks'), k < l
      PROVE  stoppedTasks'[k][1] < stoppedTasks'[l][1]
    <2>1. k \in 1 .. m
        BY <1>0, <1>3, <1>5
    <2>2. CASE l = m + 1
        BY <1>1, <1>2, <1>3, <2>1, <2>2 DEF RecordKept
    <2>3. CASE l \in 1 .. m
        BY <1>3, <1>5, <2>1, <2>3 DEF RecordKept
    <2>4. QED
        BY <1>0, <1>3, <2>2, <2>3
<1>6. \A k \in 1 .. Len(stoppedTasks') :
          stoppedTasks'[k] = <<stoppedTasks'[k][1], tasks'[stoppedTasks'[k][1]]>>
    BY <1>1, <1>4 DEF Current
<1>7. QED
    BY <1>1, <1>4, <1>5, <1>6 DEF RecordKept, Pending, Current

LEMMA RecordResumeClear ==
    ASSUME IInv, RecordKept, ctl["main"].op = "serving", ResumeClear("notifier")
    PROVE  RecordKept'
<1> DEFINE n == ctl["notifier"]
<1>0. /\ TypeOK /\ n.i \in Nat \ {0} /\ "notifier" \in Controllers /\ "main" \in Controllers
      /\ stoppedTasks \in Seq(Threads)
    BY CtlType DEF IInv, Controllers, TypeOK
<1>1. n.op = "resumeClear" /\ iter.live /\ IterList = stoppedTasks /\ UNCHANGED tasks
    BY DEF ResumeClear, RecordKept, IterList
<1>2. CASE n.i > Len(stoppedTasks)
    <2>1. /\ stoppedTasks' = <<>> /\ ctl'["main"] = ctl["main"]
          /\ ctl'["notifier"].op \in {"recv", "ended"}
        BY <1>0, <1>1, <1>2 DEF ResumeClear, Return, Goto, TypeOK
    <2>2. QED
        BY <2>1 DEF RecordKept
<1>3. CASE ~(n.i > Len(stoppedTasks))
    <2>1. n.i \in 1 .. Len(stoppedTasks) /\ stoppedTasks[n.i] \in Threads
        BY <1>0, <1>3
    <2>2. /\ UNCHANGED <<tasks, stoppedTasks, iter>> /\ ctl'["main"] = ctl["main"]
          /\ stopEvent' = [stopEvent EXCEPT ![stoppedTasks[n.i]] = FALSE]
          /\ ctl'["notifier"].op = "resumeProbe" /\ ctl'["notifier"].i = n.i
          /\ ctl'["notifier"].t = stoppedTasks[n.i]
        BY <1>0, <1>1, <1>3 DEF ResumeClear, Goto, TypeOK
    <2>3. ASSUME NEW k \in 1 .. Len(stoppedTasks), k > n.i
          PROVE  /\ stoppedTasks[k] = Current(stoppedTasks[k][1])
                 /\ stopEvent'[stoppedTasks[k]]
        <3>1. /\ stoppedTasks[k] = Current(stoppedTasks[k][1])
              /\ stopEvent[stoppedTasks[k]]
            <4>1. Pending(k)
                BY <1>0, <1>1, <2>3 DEF Pending
            <4>2. QED
                BY <4>1 DEF RecordKept
        <3>2. stoppedTasks[n.i][1] < stoppedTasks[k][1]
            BY <2>1, <2>3 DEF RecordKept
        <3>3. stoppedTasks[k] # stoppedTasks[n.i] /\ stoppedTasks[k] \in Threads
            <4>1. stoppedTasks[k] \in Threads /\ stoppedTasks[n.i] \in Threads
                BY <1>0, <2>1
            <4>2. stoppedTasks[k][1] \in Int /\ stoppedTasks[n.i][1] \in Int
                BY <4>1 DEF Threads, Slots
            <4>3. QED
                BY <3>2, <4>1, <4>2
        <3>4. QED
            BY <1>0, <2>2, <3>1, <3>3 DEF TypeOK
    <2>4. \A k \in 1 .. Len(stoppedTasks) : k > n.i =>
             /\ stoppedTasks[k] = <<stoppedTasks[k][1], tasks'[stoppedTasks[k][1]]>>
             /\ stopEvent'[stoppedTasks[k]]
        BY <2>2, <2>3 DEF Current
    <2>5. \A k, l \in 1 .. Len(stoppedTasks) :
             k < l => stoppedTasks[k][1] < stoppedTasks[l][1]
        BY DEF RecordKept
    <2>6. QED
        BY <1>1, <2>1, <2>2, <2>4, <2>5 DEF RecordKept, Pending, Current
<1>4. QED
    BY <1>2, <1>3

LEMMA RecordResumeProbe ==
    ASSUME IInv, RecordKept, ctl["main"].op = "serving", ResumeProbe("notifier")
    PROVE  RecordKept'
<1> DEFINE n == ctl["notifier"]
           s == n.t[1]
<1>0. /\ TypeOK /\ n.i \in Nat \ {0} /\ "notifier" \in Controllers /\ "main" \in Controllers
      /\ stoppedTasks \in Seq(Threads) /\ n.t \in Threads /\ s \in Slots
    BY CtlType DEF IInv, Controllers, TypeOK, Threads
<1>1. /\ n.op = "resumeProbe" /\ iter.live /\ UNCHANGED <<stoppedTasks, stopEvent, iter>>
      /\ ctl'["main"] = ctl["main"]
      /\ ctl'["notifier"].op = "resumeClear" /\ ctl'["notifier"].i = n.i + 1
    BY <1>0 DEF ResumeProbe, RecordKept, Goto, TypeOK
<1>2. n.i \in 1 .. Len(stoppedTasks) /\ n.t = stoppedTasks[n.i]
    BY <1>1 DEF RecordKept
<1>3. \A r \in Slots : r # s => tasks'[r] = tasks[r]
    BY <1>0 DEF ResumeProbe, Revive, TypeOK
<1>4. ASSUME NEW k \in 1 .. Len(stoppedTasks), k >= n.i + 1
      PROVE  /\ stoppedTasks[k] = <<stoppedTasks[k][1], tasks'[stoppedTasks[k][1]]>>
             /\ stopEvent[stoppedTasks[k]]
    <2>1. Pending(k) /\ n.i < k
        BY <1>0, <1>1, <1>4 DEF Pending
    <2>2. /\ stoppedTasks[k] = Current(stoppedTasks[k][1])
          /\ stopEvent[stoppedTasks[k]]
        BY <2>1 DEF RecordKept
    <2>3. stoppedTasks[n.i][1] < stoppedTasks[k][1]
        BY <1>2, <2>1 DEF RecordKept
    <2>4. stoppedTasks[k][1] \in Slots
        BY <1>0 DEF Threads
    <2>5. stoppedTasks[k][1] # s
        BY <1>0, <1>2, <2>3, <2>4 DEF Slots
    <2>6. QED
        BY <1>3, <2>2, <2>4, <2>5 DEF Current
<1>5. \A k, l \in 1 .. Len(stoppedTasks) :
         k < l => stoppedTasks[k][1] < stoppedTasks[l][1]
    BY DEF RecordKept
<1>6. QED
    BY <1>1, <1>4, <1>5 DEF RecordKept, Pending, Current

\* Every step keeps RecordKept.
LEMMA RecordStep == IInv /\ RecordKept /\ [Next]_vars => RecordKept'
<1> SUFFICES ASSUME IInv, RecordKept, [Next]_vars PROVE RecordKept'
    OBVIOUS
<1> DEFINE n == ctl["notifier"]
<1>0. /\ TypeOK /\ StartBeforeServe /\ "notifier" \in Controllers /\ "main" \in Controllers
    BY DEF IInv, Controllers
<1>1. CASE UNCHANGED <<tasks, stopEvent, stoppedTasks, iter, ctl>>
    BY <1>1 DEF RecordKept, Pending, Current
<1>2. CASE ctl'["main"].op \notin {"starting", "serving"}
    BY <1>2 DEF RecordKept
<1>3. CASE StartTask
    <2>1. stoppedTasks = <<>> /\ stoppedTasks' = <<>>
        BY <1>3 DEF StartTask, RecordKept
    <2>2. ctl'["notifier"].op \in {"off", "recv"}
        <3>1. n.op = "off"
            BY <1>0, <1>3 DEF StartTask, StartBeforeServe
        <3>2. CASE ctl["main"].i <= NumTasks
            BY <1>0, <1>3, <3>1, <3>2 DEF StartTask, Goto, TypeOK
        <3>3. CASE ~(ctl["main"].i <= NumTasks)
            BY <1>0, <1>3, <3>3 DEF StartTask, TypeOK
        <3>4. QED
            BY <3>2, <3>3
    <2>3. QED
        BY <2>1, <2>2 DEF RecordKept
<1>4. ASSUME NEW c \in Controllers, Controller(c) PROVE RecordKept'
    <2>1. CASE c = "main"
        <3>1. ctl'["main"].op \in {"stopTest", "stopMark", "join"}
            BY <1>0, <1>4, <2>1 DEF Controller, StopTest, StopMark, ResumeClear, ResumeProbe,
               Return, Goto, TypeOK, StartBeforeServe
        <3>2. QED
            BY <1>2, <3>1
    <2>2. CASE c = "notifier"
        <3>1. ctl'["main"] = ctl["main"] /\ ctl["main"].op # "starting"
            <4>1. ctl["main"].op # "starting"
                BY <1>0, <1>4, <2>2 DEF Controller, StopTest, StopMark, ResumeClear,
                   ResumeProbe, StartBeforeServe
            <4>2. PICK op, i, t : Goto("notifier", op, i, t)
                BY <1>4, <2>2 DEF Controller, StopTest, StopMark, ResumeClear, ResumeProbe,
                   Return
            <4>3. QED
                BY <1>0, <4>1, <4>2 DEF Goto, TypeOK
        <3>2. CASE ctl["main"].op = "serving"
            BY <1>4, <2>2, <3>2, RecordStopTest, RecordStopMark, RecordResumeClear,
               RecordResumeProbe DEF Controller
        <3>3. QED
            BY <1>0, <1>2, <3>1, <3>2
    <2>3. QED
        BY <2>1, <2>2 DEF Controllers
<1>5. CASE StopCommand
    <2>1. /\ stoppedTasks' = <<>> /\ ctl'["main"] = ctl["main"] /\ ctl["main"].op # "starting"
          /\ ctl'["notifier"].op = "stopTest"
        BY <1>0, <1>5 DEF StopCommand, ReceiveCommand, StopBegin, Goto, TypeOK,
                          StartBeforeServe
    <2>2. QED
        BY <2>1 DEF RecordKept
<1>6. CASE ResumeCommand
    <2>1. /\ UNCHANGED <<stoppedTasks, stopEvent, tasks>> /\ iter'.live
          /\ ctl'["main"] = ctl["main"] /\ ctl["main"].op # "starting"
          /\ n.op = "recv" /\ ctl'["notifier"].op = "resumeClear"
        BY <1>0, <1>6 DEF ResumeCommand, ReceiveCommand, ResumeBegin, Goto, TypeOK,
                          StartBeforeServe
    <2>2. QED
        BY <2>1 DEF RecordKept, Pending, Current
<1>7. CASE NotifierEnds
    <2>1. /\ UNCHANGED <<stoppedTasks, stopEvent, tasks, iter>>
          /\ ctl'["main"] = ctl["main"]
          /\ n.op = "recv" /\ ctl'["notifier"].op = "ended"
        BY <1>0, <1>7 DEF NotifierEnds, Goto, TypeOK
    <2>2. QED
        BY <2>1 DEF RecordKept, Pending, Current
<1>8. CASE KeyboardInterrupt \/ NotifierStop \/ BusShutdown
    <2>1. ctl'["main"].op \in {"stopTest", "join", "closed"}
        BY <1>0, <1>8 DEF KeyboardInterrupt, NotifierStop, BusShutdown, StopBegin, Goto, TypeOK
    <2>2. QED
        BY <1>2, <2>1
<1>9. ASSUME NEW t \in Threads, Worker(t) \/ TaskRaises(t) PROVE RecordKept'
    BY <1>1, <1>9 DEF Worker, TestStop, RunTask, WakeUp, Terminate, TaskRaises
<1>10. QED
    BY <1>1, <1>3, <1>4, <1>5, <1>6, <1>7, <1>8, <1>9 DEF Next, vars

\* Between two commands, what Engine.stopped_tasks names are the threads in
\* Engine.tasks, all of them marked: however stops, resumes and crashes of task
\* functions alternate, no resume will be asked for a thread that was replaced.
THEOREM EngineRecordedAreStopped == Spec => []RecordedAreStopped
<1>1. RecordKept => RecordedAreStopped
    BY DEF RecordKept, RecordedAreStopped, Quiet, Pending
<1>2. Spec => []RecordKept
    BY InitRecord, RecordStep, EngineInductive, PTL DEF Spec
<1>3. QED
    BY <1>1, <1>2, PTL
=============================================================================
