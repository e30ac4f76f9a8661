-------------------------- MODULE SessionTasksProofs --------------------------
(***************************************************************************)
(* Safety of SessionTasks for any number of submissions and approvals: the *)
(* tasks run one after the other, approvals stay in their turn, and the    *)
(* inputs of the user enter the history once, and in order.                *)
(***************************************************************************)
EXTENDS SessionTasks, TLAPS

\* From the moment the loop has taken the active turn until it registers the
\* next one there is none.
NoTurnWhileSwitching ==
    lpc \in {"cancel", "grace", "report", "spawn", "register", "close", "stopped"}
        => active = None

\* The submission in hand has been received, and the loop does with it what
\* its kind calls for.
InHand ==
    /\ lpc \notin {"idle", "stopped"} => current \in Subs /\ current < next
    /\ lpc = "notify" => kind[current] \in {"approve", "deny"}
    /\ lpc \in {"cancel", "grace", "report"} => victim \in Subs

\* Nothing is known of submissions the client has not sent.
FutureUnknown == \A s \in Subs : s >= next => kind[s] = "none"

\* Who waits for a decision has asked for one.
WaitingAsked == \A t \in Subs : pc[t] = "await" => asks[t] \in 1 .. MaxAsks

\* A reply of "approve" was sent by the client, to that turn.
RepliesSent ==
    \A t \in Subs : reply[t] = "approve" =>
        \E s \in Subs : kind[s] = "approve" /\ answers[s][1] = t

IInv == /\ TypeOK /\ NoTurnWhileSwitching /\ InHand /\ FutureUnknown
        /\ WaitingAsked /\ RepliesSent /\ RunningTaskIsActive
        /\ ApprovedByClient

\* The initial states satisfy the invariant.
LEMMA InitInv == Init => IInv
  <1> SUFFICES ASSUME Init PROVE IInv
    OBVIOUS
  <1> USE BoundsAssumption DEF Init, Subs, None
  <1>1. TypeOK
    BY DEF TypeOK, LoopPC, TaskPC, Working, OpKinds, TaskKinds
  <1>2. NoTurnWhileSwitching /\ InHand /\ FutureUnknown /\ WaitingAsked
    BY DEF NoTurnWhileSwitching, InHand, FutureUnknown, WaitingAsked
  <1>3. RepliesSent /\ RunningTaskIsActive /\ ApprovedByClient
    BY DEF RepliesSent, RunningTaskIsActive, Running, Working, ApprovedByClient
  <1> QED
    BY <1>1, <1>2, <1>3 DEF IInv

\* Sequences of submissions stay sequences of submissions.
LEMMA AppendType ==
  ASSUME NEW S, NEW seq \in Seq(S), NEW e \in S
  PROVE  Append(seq, e) \in Seq(S)
  OBVIOUS

\* Two queues of submissions make one.
LEMMA ConcatType ==
  ASSUME NEW S, NEW seq1 \in Seq(S), NEW seq2 \in Seq(S)
  PROVE  seq1 \o seq2 \in Seq(S)
  OBVIOUS

\* The empty queue holds submissions.
LEMMA EmptyType == \A S : <<>> \in Seq(S)
  OBVIOUS

\* Dropping the active turn keeps the types.
LEMMA DropTurnType ==
  ASSUME TypeOK, DropTurn
  PROVE  /\ active' \in Subs \union {None} /\ pending' \in Seq(Subs)
         /\ approvals' \subseteq Subs
         /\ reply' \in [Subs -> {"none", "approve", "deny"}]
  <1>1. pending' \in Seq(Subs)
    BY EmptyType DEF DropTurn
  <1>2. reply' \in [Subs -> {"none", "approve", "deny"}]
    BY DEF DropTurn, TypeOK
  <1> QED
    BY <1>1, <1>2 DEF DropTurn

\* Every step of the loop keeps the types.
LEMMA LoopType ==
  ASSUME IInv, LoopStep
  PROVE  TypeOK'
  <1> USE BoundsAssumption
      DEF IInv, InHand, WaitingAsked, TypeOK, Subs, None, LoopPC, TaskPC,
          Working, OpKinds, TaskKinds, Goto, loopVars, turnVars, taskVars,
          historyVars
  <1>1. CASE Inject
    <2>1. CASE active # None
      <3>1. pending \in Seq(Subs) /\ current \in Subs
        BY <1>1 DEF Inject
      <3>2. Append(pending, current) \in Seq(Subs)
        BY <3>1, AppendType
      <3> QED
        BY <1>1, <2>1, <3>2 DEF Inject
    <2>2. CASE active = None
      BY <1>1, <2>2 DEF Inject
    <2> QED
      BY <2>1, <2>2
  <1>2. CASE CheckActive
    BY <1>2 DEF CheckActive
  <1>3. CASE Notify
    BY <1>3 DEF Notify
  <1>4. CASE Take
    <2>1. AfterAbort \in LoopPC
      BY DEF AfterAbort
    <2> QED
      BY <1>4, <2>1, DropTurnType DEF Take
  <1>5. CASE Cancel
    BY <1>5 DEF Cancel
  <1>6. CASE GraceOver
    BY <1>6 DEF GraceOver
  <1>7. CASE Report
    BY <1>7 DEF Report, AfterAbort
  <1>8. CASE Spawn
    BY <1>8 DEF Spawn
  <1>9. CASE Register
    BY <1>9 DEF Register
  <1>10. CASE Close
    BY <1>10 DEF Close
  <1> QED
    BY <1>1, <1>2, <1>3, <1>4, <1>5, <1>6, <1>7, <1>8, <1>9, <1>10 DEF LoopStep

\* Every step of a task keeps the types.
LEMMA TaskType ==
  ASSUME IInv, NEW t \in Subs, TaskStep(t)
  PROVE  TypeOK'
  <1>0. TypeOK
    BY DEF IInv
  <1> USE BoundsAssumption
      DEF IInv, InHand, WaitingAsked, TypeOK, Subs, None, LoopPC, TaskPC,
          Working, OpKinds, TaskKinds, Goto, loopVars, turnVars, taskVars,
          historyVars
  <1>1. CASE Begin(t)
    <2>1. recorded' \in Seq(Subs)
      BY <1>1, AppendType DEF Begin
    <2>2. pc' \in [Subs -> TaskPC]
      BY <1>1 DEF Begin
    <2> QED
      BY <1>1, <2>1, <2>2 DEF Begin
  <1>2. CASE TakeInput(t)
    <2>1. recorded' \in Seq(Subs) /\ pending' \in Seq(Subs)
      BY <1>2, ConcatType, EmptyType DEF TakeInput
    <2>2. pc' \in [Subs -> TaskPC]
      BY <1>2 DEF TakeInput
    <2>3. UNCHANGED <<loopVars, active, approvals, cancelled, aborted, asks,
                      reply, ran, completed, abortedBy>>
      BY <1>2 DEF TakeInput
    <2> QED
      BY ONLY <1>0, <2>1, <2>2, <2>3
  <1>3. CASE ModelReturns(t)
    <2>1. pc' \in [Subs -> TaskPC]
      BY <1>3 DEF ModelReturns
    <2>2. UNCHANGED <<loopVars, turnVars, cancelled, aborted, asks, reply, historyVars>>
      BY <1>3 DEF ModelReturns
    <2> QED
      BY ONLY <1>0, <2>1, <2>2
  <1>4. CASE WorkDone(t)
    BY <1>4 DEF WorkDone
  <1>5. CASE Ask(t)
    <2>1. asks' \in [Subs -> 0 .. MaxAsks]
      BY <1>5 DEF Ask
    <2>2. approvals' \subseteq Subs
      BY <1>5 DEF Ask
    <2>3. pc' \in [Subs -> TaskPC]
      BY <1>5 DEF Ask
    <2>4. reply' \in [Subs -> {"none", "approve", "deny"}]
      BY <1>5 DEF Ask
    <2> QED
      BY <1>5, <2>1, <2>2, <2>3, <2>4 DEF Ask
  <1>6. CASE Answered(t)
    <2>1. asks[t] \in 1 .. MaxAsks
      BY <1>6 DEF Answered
    <2>2. ran' \subseteq Subs \X (1 .. MaxAsks)
      BY <1>6, <2>1 DEF Answered
    <2>3. pc' \in [Subs -> TaskPC] /\ reply' \in [Subs -> {"none", "approve", "deny"}]
      BY <1>6 DEF Answered
    <2> QED
      BY <1>6, <2>2, <2>3 DEF Answered
  <1>7. CASE StopWaiting(t)
    BY <1>7 DEF StopWaiting
  <1>8. CASE CheckCancelled(t)
    BY <1>8 DEF CheckCancelled
  <1>9. CASE Finish(t)
    <2>1. CASE active = t
      BY <1>9, <2>1, DropTurnType DEF Finish
    <2>2. CASE active # t
      BY <1>9, <2>2 DEF Finish
    <2> QED
      BY <2>1, <2>2
  <1>10. CASE Complete(t)
    BY <1>10 DEF Complete
  <1>11. CASE Die(t)
    BY <1>11 DEF Die
  <1> QED
    BY <1>1, <1>2, <1>3, <1>4, <1>5, <1>6, <1>7, <1>8, <1>9, <1>10, <1>11 DEF TaskStep

\* Every step of the loop keeps the invariant.
LEMMA LoopInv ==
  ASSUME IInv, LoopStep
  PROVE  IInv'
  <1>0. TypeOK'
    BY LoopType
  <1> USE <1>0, BoundsAssumption
      DEF IInv, NoTurnWhileSwitching, InHand, FutureUnknown, WaitingAsked,
          RepliesSent, RunningTaskIsActive, ApprovedByClient, Running, Working,
          TypeOK, Subs, None, Goto, loopVars, turnVars, taskVars, historyVars
  <1>1. CASE Inject
    BY <1>1 DEF Inject
  <1>2. CASE CheckActive
    BY <1>2 DEF CheckActive
  <1>3. CASE Notify
    <2>1. RepliesSent'
      <3>1. kind[current] = "approve" =>
               \E s \in Subs : kind[s] = "approve" /\ answers[s][1] = answers[current][1]
        BY <1>3 DEF Notify
      <3>2. \A u \in Subs : reply'[u] = "approve" =>
               \/ reply[u] = "approve"
               \/ u = answers[current][1] /\ kind[current] = "approve"
        BY <1>3 DEF Notify
      <3>3. \A u \in Subs : reply[u] = "approve" =>
               \E s \in Subs : kind[s] = "approve" /\ answers[s][1] = u
        OBVIOUS
      <3>4. kind' = kind /\ answers' = answers
        BY <1>3 DEF Notify
      <3> QED
        BY ONLY <3>1, <3>2, <3>3, <3>4
    <2>2. RunningTaskIsActive'
      BY <1>3 DEF Notify
    <2>3. NoTurnWhileSwitching' /\ InHand'
      BY <1>3 DEF Notify
    <2>4. FutureUnknown' /\ WaitingAsked' /\ ApprovedByClient'
      BY <1>3 DEF Notify
    <2> QED
      BY ONLY <1>0, <2>1, <2>2, <2>3, <2>4
  <1>4. CASE Take
    BY <1>4 DEF Take, DropTurn, AfterAbort
  <1>5. CASE Cancel
    BY <1>5 DEF Cancel
  <1>6. CASE GraceOver
    BY <1>6 DEF GraceOver
  <1>7. CASE Report
    BY <1>7 DEF Report, AfterAbort
  <1>8. CASE Spawn
    <2>1. RunningTaskIsActive'
      <3>1. \A u \in Subs : Running(u)' => u = current
        BY <1>8 DEF Spawn
      <3> QED
        BY <1>8, <3>1 DEF Spawn
    <2>2. WaitingAsked'
      BY <1>8 DEF Spawn
    <2> QED
      BY <1>8, <2>1, <2>2 DEF Spawn
  <1>9. CASE Register
    BY <1>9 DEF Register
  <1>10. CASE Close
    BY <1>10 DEF Close
  <1> QED
    BY <1>1, <1>2, <1>3, <1>4, <1>5, <1>6, <1>7, <1>8, <1>9, <1>10 DEF LoopStep

\* What no task does: it neither touches the loop, nor the task of another turn,
\* nor registers a turn, nor goes back to work after its end; it leaves the
\* active turn to its owner.
LEMMA TaskFrame ==
  ASSUME NEW t \in Subs, TypeOK, TaskStep(t)
  PROVE  /\ UNCHANGED <<loopVars, cancelled>>
         /\ active' = active \/ (active = t /\ active' = None /\ pc'[t] \notin Working)
         /\ \A s \in Subs \ {t} : pc'[s] = pc[s] /\ asks'[s] = asks[s]
         /\ pc[t] \in Working \/ pc'[t] \notin Working
  <1> USE DEF TypeOK, Goto, turnVars, taskVars, historyVars
  <1>1. CASE Begin(t)
    BY <1>1 DEF Working, Begin
  <1>2. CASE TakeInput(t)
    BY <1>2 DEF Working, TakeInput
  <1>3. CASE ModelReturns(t)
    BY <1>3 DEF Working, ModelReturns
  <1>4. CASE WorkDone(t)
    BY <1>4 DEF Working, WorkDone
  <1>5. CASE Ask(t)
    BY <1>5 DEF Working, Ask
  <1>6. CASE Answered(t)
    BY <1>6 DEF Working, Answered
  <1>7. CASE StopWaiting(t)
    BY <1>7 DEF Working, StopWaiting
  <1>8. CASE CheckCancelled(t)
    BY <1>8 DEF Working, CheckCancelled
  <1>9. CASE Finish(t)
    BY <1>9 DEF Working, Finish, DropTurn
  <1>10. CASE Complete(t)
    BY <1>10 DEF Working, Complete
  <1>11. CASE Die(t)
    BY <1>11 DEF Working, Die
  <1> QED
    BY <1>1, <1>2, <1>3, <1>4, <1>5, <1>6, <1>7, <1>8, <1>9, <1>10, <1>11 DEF TaskStep

\* Replies of "approve" come from the loop alone.
LEMMA TaskReplies ==
  ASSUME IInv, NEW t \in Subs, TaskStep(t), TypeOK'
  PROVE  RepliesSent' /\ ApprovedByClient'
  <1>1. kind' = kind /\ answers' = answers
    BY TaskFrame DEF IInv, loopVars
  <1>2. \A s \in Subs : reply'[s] = "approve" => reply[s] = "approve"
    <2> USE DEF IInv, TypeOK, turnVars, taskVars, historyVars
    <2>1. CASE Ask(t)
      BY <2>1 DEF Ask
    <2>2. CASE Answered(t)
      BY <2>2 DEF Answered
    <2>3. CASE Finish(t)
      BY <2>3 DEF Finish, DropTurn
    <2>4. CASE ~Ask(t) /\ ~Answered(t) /\ ~Finish(t)
      BY <2>4 DEF TaskStep, Begin, TakeInput, ModelReturns, WorkDone, StopWaiting,
                  CheckCancelled, Complete, Die
    <2> QED
      BY <2>1, <2>2, <2>3, <2>4
  <1>3. \A r \in ran' : r \in ran \/ reply[r[1]] = "approve"
    <2>1. CASE Answered(t)
      BY <2>1 DEF Answered
    <2>2. CASE ~Answered(t)
      <3>1. ran' = ran
        BY <2>2 DEF TaskStep, Begin, TakeInput, ModelReturns, WorkDone, Ask,
                    StopWaiting, CheckCancelled, Finish, Complete, Die, DropTurn,
                    turnVars, taskVars, historyVars
      <3> QED
        BY <3>1
    <2> QED
      BY <2>1, <2>2
  <1>4. RepliesSent'
    BY <1>1, <1>2 DEF IInv, RepliesSent
  <1>5. ApprovedByClient'
    <2>1. RepliesSent /\ ApprovedByClient /\ kind' = kind /\ answers' = answers
          /\ ran \subseteq Subs \X (1 .. MaxAsks) /\ ran' \subseteq Subs \X (1 .. MaxAsks)
      BY <1>1, TaskType DEF IInv, TypeOK
    <2> QED
      BY ONLY <1>3, <2>1 DEF RepliesSent, ApprovedByClient
  <1> QED
    BY <1>4, <1>5

\* Every step of a task keeps the invariant.
LEMMA TaskInv ==
  ASSUME IInv, NEW t \in Subs, TaskStep(t)
  PROVE  IInv'
  <1>1. TypeOK'
    BY TaskType
  <1>2. UNCHANGED <<loopVars, cancelled>>
    BY TaskFrame DEF IInv
  <1>3. NoTurnWhileSwitching' /\ InHand' /\ FutureUnknown'
    BY <1>2, TaskFrame
    DEF IInv, NoTurnWhileSwitching, InHand, FutureUnknown, loopVars, None
  <1>4. RunningTaskIsActive'
    BY <1>1, <1>2, TaskFrame
    DEF IInv, RunningTaskIsActive, Running, TypeOK, loopVars
  <1>5. WaitingAsked'
    <2>1. CASE Ask(t)
      BY <2>1, <1>1 DEF Ask, IInv, TypeOK, WaitingAsked
    <2>2. CASE ~Ask(t)
      <3>1. asks' = asks /\ pc'[t] # "await"
        BY <2>2 DEF TaskStep, Begin, TakeInput, ModelReturns, WorkDone, Answered,
                    StopWaiting, CheckCancelled, Finish, Complete, Die, DropTurn,
               Goto, IInv, TypeOK, taskVars
      <3> QED
        BY <3>1, TaskFrame DEF IInv, WaitingAsked
    <2> QED
      BY <2>1, <2>2
  <1> QED
    BY <1>1, <1>3, <1>4, <1>5, TaskReplies DEF IInv

\* Receiving a submission keeps the invariant.
LEMMA ReceiveInv ==
  ASSUME IInv, NEW k \in OpKinds, Receive(k)
  PROVE  IInv'
  <1> USE BoundsAssumption
      DEF IInv, InHand, TypeOK, Subs, None, Receive, FirstStep, turnVars,
          taskVars, historyVars
  <1>0. next \in Subs /\ next + 1 \in 1 .. MaxSubs + 1
    OBVIOUS
  <1>1. TypeOK'
    <2>1. answers' \in [Subs -> (Subs \union {None}) \X (0 .. MaxAsks)]
      <3>1. CASE k \in {"approve", "deny"}
        <4>1. PICK t \in Subs : \E call \in 1 .. asks[t] :
                  answers' = [answers EXCEPT ![next] = <<t, call>>]
          BY <3>1
        <4>2. PICK call \in 1 .. asks[t] :
                  answers' = [answers EXCEPT ![next] = <<t, call>>]
          BY <4>1
        <4>3. call \in 0 .. MaxAsks
          BY <4>2
        <4> QED
          BY <4>2, <4>3
      <3>2. CASE k \notin {"approve", "deny"}
        BY <3>2
      <3> QED
        BY <3>1, <3>2
    <2>2. kind' \in [Subs -> OpKinds \union {"none"}]
      OBVIOUS
    <2>3. lpc' \in LoopPC
      BY DEF LoopPC
    <2> QED
      BY <1>0, <2>1, <2>2, <2>3
  <1>2. NoTurnWhileSwitching' /\ InHand' /\ FutureUnknown' /\ WaitingAsked'
    BY <1>1 DEF NoTurnWhileSwitching, FutureUnknown, WaitingAsked, OpKinds,
                TaskKinds
  <1>3. RepliesSent' /\ ApprovedByClient'
    <2>1. \A s \in Subs : kind[s] = "approve" =>
             kind'[s] = "approve" /\ answers'[s] = answers[s]
      <3>1. \A s \in Subs : kind[s] = "approve" => s # next
        BY <1>0 DEF FutureUnknown
      <3>2. \A s \in Subs \ {next} : answers'[s] = answers[s] /\ kind'[s] = kind[s]
        OBVIOUS
      <3> QED
        BY <3>1, <3>2
    <2>2. reply' = reply /\ ran' = ran
      OBVIOUS
    <2>3. RepliesSent'
      BY <2>1, <2>2 DEF RepliesSent
    <2>4. ApprovedByClient'
      <3>1. SUFFICES ASSUME NEW r \in ran
                     PROVE  \E s \in Subs : kind'[s] = "approve" /\ answers'[s][1] = r[1]
        BY <2>2 DEF ApprovedByClient
      <3>2. PICK s \in Subs : kind[s] = "approve" /\ answers[s][1] = r[1]
        BY DEF ApprovedByClient
      <3> QED
        BY <2>1, <3>2
    <2> QED
      BY <2>3, <2>4
  <1>4. RunningTaskIsActive'
    BY <1>1 DEF RunningTaskIsActive, Running
  <1> QED
    BY <1>1, <1>2, <1>3, <1>4

\* The invariant holds in every reachable state.
THEOREM Invariance == Spec => []IInv
  <1>1. IInv /\ [Next]_vars => IInv'
    <2> SUFFICES ASSUME IInv, [Next]_vars PROVE IInv'
      OBVIOUS
    <2>1. CASE Next
      BY <2>1, ReceiveInv, LoopInv, TaskInv DEF Next
    <2>2. CASE UNCHANGED vars
      BY <2>2
      DEF vars, loopVars, turnVars, taskVars, historyVars, IInv, TypeOK,
          NoTurnWhileSwitching, InHand, FutureUnknown, WaitingAsked,
          RepliesSent, RunningTaskIsActive, Running, ApprovedByClient
    <2> QED
      BY <2>1, <2>2
  <1> QED
    BY InitInv, <1>1, PTL DEF Spec

\* Every variable keeps its type.
THEOREM TypeCorrect == Spec => []TypeOK
  <1>1. IInv => TypeOK
    BY DEF IInv
  <1> QED
    BY <1>1, Invariance, PTL

\* A session never runs two tasks, and the one it runs can be reached.
THEOREM SingleTask == Spec => [](OneRunningTask /\ RunningTaskIsActive)
  <1>1. IInv => OneRunningTask /\ RunningTaskIsActive
    BY DEF IInv, TypeOK, OneRunningTask, RunningTaskIsActive,
           NoTurnWhileSwitching, Subs, None
  <1> QED
    BY <1>1, Invariance, PTL

\* Shutdown leaves no task running.
THEOREM ShutdownIsClean == Spec => []ShutdownStopsTasks
  <1>1. IInv => ShutdownStopsTasks
    BY DEF IInv, TypeOK, ShutdownStopsTasks, RunningTaskIsActive,
           NoTurnWhileSwitching, Subs, None
  <1> QED
    BY <1>1, Invariance, PTL

\* No command runs on an approval given to another turn.
THEOREM ApprovalsStayInTurn == Spec => []ApprovedByClient
  <1>1. IInv => ApprovedByClient
    BY DEF IInv
  <1> QED
    BY <1>1, Invariance, PTL

\* Only the loop or its own task takes the active turn away.
THEOREM TurnKeepsItsPlace == Spec => OnlyOwnerRemovesTurn
  <1>1. IInv /\ [Next]_vars =>
          [active # None /\ active' # active =>
              lpc = "take" \/ pc[active] = "finish"]_vars
    <2> SUFFICES ASSUME IInv, [Next]_vars, active # None, active' # active
                 PROVE  lpc = "take" \/ pc[active] = "finish"
      OBVIOUS
    <2> USE DEF loopVars, turnVars, taskVars, historyVars
    <2>1. ASSUME NEW k \in OpKinds, Receive(k) PROVE active' = active
      BY <2>1 DEF Receive
    <2>2. CASE LoopStep
      BY <2>2
      DEF LoopStep, Inject, CheckActive, Notify, Take, Cancel, GraceOver,
          Report, Spawn, Register, Close, IInv, NoTurnWhileSwitching
    <2>3. ASSUME NEW t \in Subs, TaskStep(t), ~Finish(t) PROVE active' = active
      BY <2>3
      DEF TaskStep, Begin, TakeInput, ModelReturns, WorkDone, Ask, Answered,
          StopWaiting, CheckCancelled, Complete, Die
    <2>4. ASSUME NEW t \in Subs, Finish(t) PROVE pc[active] = "finish"
      BY <2>4 DEF Finish, Goto
    <2>5. CASE UNCHANGED vars
      BY <2>5 DEF vars
    <2> QED
      BY <2>1, <2>2, <2>3, <2>4, <2>5 DEF Next
  <1> QED
    BY <1>1, Invariance, PTL DEF Spec, OnlyOwnerRemovesTurn

-----------------------------------------------------------------------------
(* The session implements OneTask.                                          *)

\* A submission has no task before the loop spawns it; a registered or taken
\* turn has one; a task that has been aborted no longer runs.
LifeInv ==
    /\ \A s \in Subs : s >= next => pc[s] = "none"
    /\ lpc \notin {"idle", "register", "stopped"} => pc[current] = "none"
    /\ lpc = "register" => pc[current] # "none"
    /\ active # None => pc[active] # "none"
    /\ lpc \in {"cancel", "grace", "report"} => pc[victim] # "none"
    /\ lpc \in {"grace", "report"} => cancelled[victim]
    /\ \A t \in Subs : pc[t] = "none" => ~cancelled[t] /\ ~aborted[t]
    /\ \A t \in Subs : aborted[t] => cancelled[t] \/ pc[t] \notin Working

\* The loop keeps the invariant of the tasks' lives.
LEMMA LifeLoop ==
  ASSUME IInv, LifeInv, LoopStep
  PROVE  LifeInv'
  <1> USE DEF LifeInv, IInv, TypeOK, InHand, NoTurnWhileSwitching, Subs, None,
              loopVars, turnVars, taskVars, historyVars
  <1>1. CASE Inject
    BY <1>1 DEF Inject
  <1>2. CASE CheckActive
    BY <1>2 DEF CheckActive
  <1>3. CASE Notify
    BY <1>3 DEF Notify
  <1>4. CASE Take
    BY <1>4 DEF Take, DropTurn, AfterAbort
  <1>5. CASE Cancel
    BY <1>5 DEF Cancel
  <1>6. CASE GraceOver
    BY <1>6 DEF GraceOver
  <1>7. CASE Report
    BY <1>7 DEF Report, AfterAbort
  <1>8. CASE Spawn
    BY <1>8 DEF Spawn
  <1>9. CASE Register
    BY <1>9 DEF Register
  <1>10. CASE Close
    BY <1>10 DEF Close
  <1> QED
    BY <1>1, <1>2, <1>3, <1>4, <1>5, <1>6, <1>7, <1>8, <1>9, <1>10 DEF LoopStep

\* So does every step of a task.
LEMMA LifeTask ==
  ASSUME IInv, LifeInv, NEW t \in Subs, TaskStep(t)
  PROVE  LifeInv'
  <1>1. UNCHANGED <<loopVars, cancelled>>
    BY TaskFrame DEF IInv
  <1>2. \A s \in Subs : aborted'[s] => aborted[s] \/ (s = t /\ pc'[t] \notin Working)
    <2> USE DEF IInv, TypeOK
    <2>1. CASE Finish(t)
      BY <2>1 DEF Finish, Goto, Working
    <2>2. CASE ~Finish(t)
      <3>1. aborted' = aborted
        BY <2>2 DEF TaskStep, Begin, TakeInput, ModelReturns, WorkDone, Ask, Answered,
             StopWaiting, CheckCancelled, Complete, Die, taskVars
      <3> QED
        BY <3>1
    <2> QED
      BY <2>1, <2>2
  <1>3. pc[t] # "none" /\ pc'[t] # "none"
    BY DEF TaskStep, Begin, TakeInput, ModelReturns, WorkDone, Ask, Answered,
           StopWaiting, CheckCancelled, Finish, Complete, Die, DropTurn, Goto,
           TaskPC, Working, IInv, TypeOK
  <1>4. \A s \in Subs : pc'[s] = "none" <=> pc[s] = "none"
    BY <1>3, TaskFrame DEF IInv
  <1>5. active' = active \/ active' = None
    BY TaskFrame DEF IInv
  <1>6. active' # None => active' \in Subs /\ active' = active
    BY <1>5 DEF IInv, TypeOK
  <1>7. /\ lpc \notin {"idle", "stopped"} => current \in Subs
        /\ lpc \in {"cancel", "grace", "report"} => victim \in Subs
    BY DEF IInv, InHand
  <1> QED
    <2>1. \A s \in Subs : aborted'[s] => cancelled'[s] \/ pc'[s] \notin Working
      BY <1>1, <1>2, TaskFrame DEF IInv, LifeInv, loopVars
    <2>2. \A s \in Subs : pc'[s] = "none" => ~cancelled'[s] /\ ~aborted'[s]
      BY <1>1, <1>2, <1>3, <1>4 DEF LifeInv, loopVars
    <2> QED
      BY <1>1, <2>1, <2>2, <1>4, <1>6, <1>7 DEF LifeInv, loopVars

\* The invariant of the tasks' lives, on top of the first one.
THEOREM LifeInvariance == Spec => []LifeInv
  <1>1. Init => LifeInv
    BY DEF Init, LifeInv, None
  <1>2. IInv /\ LifeInv /\ [Next]_vars => LifeInv'
    <2> SUFFICES ASSUME IInv, LifeInv, [Next]_vars PROVE LifeInv'
      OBVIOUS
    <2>1. ASSUME NEW k \in OpKinds, Receive(k) PROVE LifeInv'
      <3>1. next \in Subs /\ next' = next + 1 /\ current' = next
        BY <2>1, BoundsAssumption DEF Receive, IInv, TypeOK, Subs
      <3>2. lpc' \in {"inject", "notify", "check", "take"} /\ lpc = "idle"
        BY <2>1 DEF Receive, FirstStep
      <3>3. UNCHANGED <<pc, cancelled, aborted, active>>
        BY <2>1 DEF Receive, turnVars, taskVars
      <3>4. \A s \in Subs : s >= next' => pc[s] = "none"
        BY <3>1 DEF LifeInv, IInv, TypeOK, Subs
      <3> QED
        BY <3>1, <3>2, <3>3, <3>4 DEF LifeInv, Subs
    <2>2. CASE UNCHANGED vars
      BY <2>2 DEF vars, loopVars, turnVars, taskVars, LifeInv
    <2> QED
      BY <2>1, <2>2, LifeLoop, LifeTask DEF Next
  <1> QED
    BY <1>1, <1>2, Invariance, PTL DEF Spec

\* Who runs is the running task of the abstraction.
LEMMA RunningTaskIs ==
  ASSUME OneRunningTask, NEW t \in Subs, Running(t)
  PROVE  RunningTask = t
  BY DEF OneRunningTask, RunningTask

\* Without a task that runs the abstract session is idle.
LEMMA NobodyRuns ==
  ASSUME \A t \in Subs : ~Running(t)
  PROVE  RunningTask = None
  BY DEF RunningTask

\* A step after which the same tasks run, and the same are started, is none
\* of the abstraction's.
LEMMA SameTasks ==
  ASSUME \A t \in Subs : Running(t)' <=> Running(t),
         \A t \in Subs : pc'[t] # "none" <=> pc[t] # "none"
  PROVE  UNCHANGED <<RunningTask, StartedTasks>>
  <1>1. RunningTask' = RunningTask
    BY DEF RunningTask
  <1>2. StartedTasks' = StartedTasks
    BY DEF StartedTasks
  <1> QED
    BY <1>1, <1>2

\* A step by which the running task stops running.
LEMMA TaskStops ==
  ASSUME OneRunningTask, NEW v \in Subs, Running(v), ~Running(v)',
         \A t \in Subs : Running(t)' => Running(t),
         \A t \in Subs : pc'[t] # "none" <=> pc[t] # "none"
  PROVE  Tasks!Stop
  <1>1. RunningTask = v
    BY RunningTaskIs
  <1>2. \A t \in Subs : ~Running(t)'
    BY DEF OneRunningTask
  <1>3. RunningTask' = None
    BY <1>2 DEF RunningTask
  <1>4. StartedTasks' = StartedTasks
    BY DEF StartedTasks
  <1> QED
    BY <1>1, <1>3, <1>4 DEF Tasks!Stop, Subs, None

\* A step of the loop starts a task, stops one or leaves them alone.
LEMMA LoopSimulation ==
  ASSUME IInv, LifeInv, OneRunningTask, LoopStep
  PROVE  [Tasks!Next]_<<RunningTask, StartedTasks>>
  <1> USE DEF IInv, TypeOK
  <1>1. CASE Spawn
    <2>1. current \in Subs /\ pc[current] = "none" /\ ~cancelled[current]
      BY <1>1 DEF Spawn, InHand, LifeInv
    <2>2. \A t \in Subs : ~Running(t)
      BY <1>1 DEF Spawn, RunningTaskIsActive, NoTurnWhileSwitching, Subs, None
    <2>3. RunningTask = None
      BY <2>2, NobodyRuns
    <2>4. \A t \in Subs : Running(t)' <=> t = current
      BY <1>1, <2>1, <2>2 DEF Spawn, Running, Working
    <2>5. RunningTask' = current
      BY <2>1, <2>4 DEF RunningTask
    <2>6. StartedTasks' = StartedTasks \union {current} /\ current \notin StartedTasks
      BY <1>1, <2>1 DEF Spawn, StartedTasks
    <2> QED
      BY <2>1, <2>3, <2>5, <2>6 DEF Tasks!Start, Tasks!Next
  <1>2. CASE Cancel
    <2>1. victim \in Subs
      BY <1>2 DEF Cancel, InHand
    <2>2. /\ pc' = pc
          /\ \A t \in Subs : Running(t)' <=> Running(t) /\ t # victim
      BY <1>2, <2>1 DEF Cancel, Running
    <2>3. CASE Running(victim)
      BY <2>1, <2>2, <2>3, TaskStops DEF Tasks!Next
    <2>4. CASE ~Running(victim)
      BY <2>2, <2>4, SameTasks
    <2> QED
      BY <2>3, <2>4
  <1>3. CASE ~Spawn /\ ~Cancel
    <2>1. pc' = pc /\ cancelled' = cancelled
      BY <1>3
      DEF LoopStep, Inject, CheckActive, Notify, Take, GraceOver, Report,
          Register, Close, taskVars
    <2> QED
      BY <2>1, SameTasks DEF Running
  <1> QED
    BY <1>1, <1>2, <1>3

\* A step of a task stops it or leaves the tasks alone.
LEMMA TaskSimulation ==
  ASSUME IInv, LifeInv, OneRunningTask, NEW t \in Subs, TaskStep(t)
  PROVE  [Tasks!Next]_<<RunningTask, StartedTasks>>
  <1>1. pc[t] # "none" /\ pc'[t] # "none"
    BY DEF TaskStep, Begin, TakeInput, ModelReturns, WorkDone, Ask, Answered,
           StopWaiting, CheckCancelled, Finish, Complete, Die, DropTurn, Goto,
           TaskPC, Working, IInv, TypeOK
  <1>2. \A s \in Subs : pc'[s] # "none" <=> pc[s] # "none"
    BY <1>1, TaskFrame DEF IInv
  <1>3. \A s \in Subs : Running(s)' => Running(s)
    BY TaskFrame DEF IInv, Running, loopVars
  <1>4. \A s \in Subs \ {t} : Running(s)' <=> Running(s)
    BY TaskFrame DEF IInv, Running, loopVars
  <1>5. CASE Running(t) /\ ~Running(t)'
    BY <1>2, <1>3, <1>5, TaskStops DEF Tasks!Next
  <1>6. CASE Running(t) <=> Running(t)'
    <2>1. \A s \in Subs : Running(s)' <=> Running(s)
      BY <1>4, <1>6
    <2> QED
      BY <1>2, <2>1, SameTasks
  <1> QED
    BY <1>3, <1>5, <1>6

\* The tasks of a session run one after the other, for any number of
\* submissions and whatever the interleaving.
THEOREM SessionImplementsOneTask == Spec => ImplementsOneTask
  <1>1. Init => Tasks!Init
    BY DEF Init, Tasks!Init, RunningTask, StartedTasks, Running, Working
  <1>2. IInv /\ LifeInv /\ OneRunningTask /\ [Next]_vars
          => [Tasks!Next]_<<RunningTask, StartedTasks>>
    <2> SUFFICES ASSUME IInv, LifeInv, OneRunningTask, [Next]_vars
                 PROVE  [Tasks!Next]_<<RunningTask, StartedTasks>>
      OBVIOUS
    <2>1. ASSUME NEW k \in OpKinds, Receive(k)
          PROVE  [Tasks!Next]_<<RunningTask, StartedTasks>>
      <3>1. pc' = pc /\ cancelled' = cancelled
        BY <2>1 DEF Receive, taskVars
      <3> QED
        BY <3>1, SameTasks DEF Running
    <2>2. CASE UNCHANGED vars
      <3>1. pc' = pc /\ cancelled' = cancelled
        BY <2>2 DEF vars, taskVars
      <3> QED
        BY <3>1, SameTasks DEF Running
    <2> QED
      BY <2>1, <2>2, LoopSimulation, TaskSimulation DEF Next
  <1> QED
    BY <1>1, <1>2, Invariance, LifeInvariance, SingleTask, PTL
    DEF Spec, ImplementsOneTask, Tasks!Spec
-----------------------------------------------------------------------------
(* The inputs of the user                                                   *)

Entries(s) == {s[i] : i \in 1 .. Len(s)}
Distinct(s) == \A i, j \in 1 .. Len(s) : s[i] = s[j] => i = j
Increasing(s) == \A i, j \in 1 .. Len(s) : i < j => s[i] < s[j]

\* A queue that has lost everything.
LEMMA EmptyQueue == Entries(<<>>) = {} /\ Distinct(<<>>) /\ Increasing(<<>>)
  <1>1. 1 .. Len(<<>>) = {}
    OBVIOUS
  <1> QED
    BY <1>1 DEF Entries, Distinct, Increasing

\* One more entry at the end of a queue.
LEMMA AppendOrder ==
  ASSUME NEW S, NEW s \in Seq(S), NEW x \in S
  PROVE  /\ Entries(Append(s, x)) = Entries(s) \union {x}
         /\ Distinct(s) /\ x \notin Entries(s) => Distinct(Append(s, x))
         /\ Increasing(s) /\ (\A e \in Entries(s) : e < x) => Increasing(Append(s, x))
  <1>1. /\ Len(Append(s, x)) = Len(s) + 1 /\ Len(s) \in Nat /\ Append(s, x)[Len(s) + 1] = x
        /\ \A i \in 1 .. Len(s) : Append(s, x)[i] = s[i]
    OBVIOUS
  <1>2. \A i \in 1 .. Len(s) + 1 : i \in 1 .. Len(s) \/ i = Len(s) + 1
    BY <1>1
  <1>3. \A i \in 1 .. Len(s) : i \in 1 .. Len(s) + 1 /\ i # Len(s) + 1 /\ ~(Len(s) + 1 < i)
    BY <1>1
  <1>4. Len(s) + 1 \in 1 .. Len(s) + 1 /\ ~(Len(s) + 1 < Len(s) + 1)
    BY <1>1
  <1>5. Entries(Append(s, x)) = Entries(s) \union {x}
    BY <1>1, <1>2, <1>3, <1>4 DEF Entries
  <1>6. \A i \in 1 .. Len(s) : s[i] \in Entries(s)
    BY DEF Entries
  <1>7. Distinct(s) /\ x \notin Entries(s) => Distinct(Append(s, x))
    BY <1>1, <1>2, <1>6 DEF Distinct
  <1>8. Increasing(s) /\ (\A e \in Entries(s) : e < x) => Increasing(Append(s, x))
    BY <1>1, <1>2, <1>3, <1>4, <1>6 DEF Increasing
  <1> QED
    BY <1>5, <1>7, <1>8

\* A queue put behind another.
LEMMA ConcatOrder ==
  ASSUME NEW S, NEW s \in Seq(S), NEW u \in Seq(S)
  PROVE  /\ Entries(s \o u) = Entries(s) \union Entries(u)
         /\ Distinct(s) /\ Distinct(u) /\ Entries(s) \cap Entries(u) = {} => Distinct(s \o u)
         /\ Increasing(s) /\ Increasing(u) /\ (\A e \in Entries(s), f \in Entries(u) : e < f)
              => Increasing(s \o u)
  <1>1. /\ Len(s \o u) = Len(s) + Len(u) /\ Len(s) \in Nat /\ Len(u) \in Nat
        /\ \A i \in 1 .. Len(s) : (s \o u)[i] = s[i]
        /\ \A i \in 1 .. Len(s) + Len(u) : i > Len(s) => (s \o u)[i] = u[i - Len(s)]
    OBVIOUS
  <1>2. \A i \in 1 .. Len(s \o u) : \/ i \in 1 .. Len(s) /\ (s \o u)[i] = s[i]
                                    \/ /\ i > Len(s) /\ i - Len(s) \in 1 .. Len(u)
                                       /\ (s \o u)[i] = u[i - Len(s)]
    BY <1>1
  <1>3. /\ \A i \in 1 .. Len(s) : i \in 1 .. Len(s \o u)
        /\ \A i \in 1 .. Len(u) : i + Len(s) \in 1 .. Len(s \o u) /\ (s \o u)[i + Len(s)] = u[i]
    <2>1. \A i \in 1 .. Len(u) : /\ i + Len(s) \in 1 .. Len(s) + Len(u) /\ i + Len(s) > Len(s)
                                 /\ (i + Len(s)) - Len(s) = i
      BY <1>1
    <2>2. \A i \in 1 .. Len(s) : i \in 1 .. Len(s) + Len(u)
      BY <1>1
    <2> QED
      BY <1>1, <2>1, <2>2
  <1>4. /\ \A i \in 1 .. Len(s) : s[i] \in Entries(s)
        /\ \A i \in 1 .. Len(u) : u[i] \in Entries(u)
    BY DEF Entries
  <1>5. Entries(s \o u) = Entries(s) \union Entries(u)
    <2>1. Entries(s \o u) \subseteq Entries(s) \union Entries(u)
      BY <1>2, <1>4 DEF Entries
    <2>2. Entries(s) \union Entries(u) \subseteq Entries(s \o u)
      BY <1>1, <1>3 DEF Entries
    <2> QED
      BY <2>1, <2>2
  <1>6. ASSUME Distinct(s), Distinct(u), Entries(s) \cap Entries(u) = {}
        PROVE  Distinct(s \o u)
    <2> SUFFICES ASSUME NEW i \in 1 .. Len(s \o u), NEW j \in 1 .. Len(s \o u),
                        (s \o u)[i] = (s \o u)[j]
                 PROVE  i = j
      BY DEF Distinct
    <2>1. CASE i \in 1 .. Len(s) /\ j \in 1 .. Len(s)
      BY <1>1, <1>6, <2>1 DEF Distinct
    <2>2. CASE i > Len(s) /\ j > Len(s)
      <3>1. i - Len(s) \in 1 .. Len(u) /\ j - Len(s) \in 1 .. Len(u) /\ u[i - Len(s)] = u[j - Len(s)]
        BY <1>1, <1>2, <2>2
      <3>2. i - Len(s) = j - Len(s)
        BY <1>6, <3>1 DEF Distinct
      <3> QED
        BY <1>1, <3>2
    <2>3. ~(i \in 1 .. Len(s) /\ j > Len(s)) /\ ~(j \in 1 .. Len(s) /\ i > Len(s))
      BY <1>1, <1>2, <1>4, <1>6
    <2> QED
      BY <1>1, <2>1, <2>2, <2>3
  <1>7. ASSUME Increasing(s), Increasing(u), \A e \in Entries(s), f \in Entries(u) : e < f
        PROVE  Increasing(s \o u)
    <2> SUFFICES ASSUME NEW i \in 1 .. Len(s \o u), NEW j \in 1 .. Len(s \o u), i < j
                 PROVE  (s \o u)[i] < (s \o u)[j]
      BY DEF Increasing
    <2>1. CASE i \in 1 .. Len(s) /\ j \in 1 .. Len(s)
      BY <1>1, <1>7, <2>1 DEF Increasing
    <2>2. CASE i > Len(s) /\ j > Len(s)
      <3>1. /\ i - Len(s) \in 1 .. Len(u) /\ j - Len(s) \in 1 .. Len(u)
            /\ (s \o u)[i] = u[i - Len(s)] /\ (s \o u)[j] = u[j - Len(s)]
        BY <1>1, <1>2, <2>2
      <3>2. i - Len(s) < j - Len(s)
        BY <1>1
      <3> QED
        BY <1>7, <3>1, <3>2 DEF Increasing
    <2>3. CASE i \in 1 .. Len(s) /\ j > Len(s)
      <3>1. /\ (s \o u)[i] = s[i] /\ j - Len(s) \in 1 .. Len(u) /\ (s \o u)[j] = u[j - Len(s)]
        BY <1>1, <1>2, <2>3
      <3> QED
        BY <1>4, <1>7, <2>3, <3>1
    <2>4. ~(i > Len(s) /\ j \in 1 .. Len(s))
      BY <1>1
    <2> QED
      BY <1>1, <2>1, <2>2, <2>3, <2>4
  <1> QED
    BY <1>5, <1>6, <1>7

\* An input that is yet to enter a queue: it has not been sent, is in hand, or
\* is what a task begins with.
Due(s) == \/ s >= next \/ pc[s] = "spawned"
          \/ current = s /\ lpc \notin {"idle", "register", "stopped"}

\* No input that is due has entered, and none has entered twice.
InputInv ==
    /\ lpc # "idle" => current = next - 1
    /\ active = None => pending = <<>>
    /\ \A e \in Entries(recorded) \union Entries(pending) : ~Due(e)
    /\ Distinct(recorded) /\ Distinct(pending)
    /\ Entries(recorded) \cap Entries(pending) = {}

\* The loop has not had to abort a task.
Calm == \A t \in Subs : aborted[t] => ~cancelled[t]

\* Until it has, the task that begins is older than what waits, and younger
\* than what has entered.
OrderInv ==
    Calm => /\ \A t \in Subs : cancelled[t] => lpc = "grace" /\ victim = t
            /\ Increasing(recorded) /\ Increasing(pending)
            /\ \A r \in Entries(recorded), p \in Entries(pending) : r < p
            /\ \A t \in Subs : pc[t] = "spawned" =>
                  /\ \A r \in Entries(recorded) : r < t
                  /\ \A p \in Entries(pending) : t < p

\* What is in the queues are submissions.
LEMMA EntriesAreSubs ==
  ASSUME TypeOK
  PROVE  \A e \in Entries(recorded) \union Entries(pending) : e \in Subs
  <1>1. recorded \in Seq(Subs) /\ pending \in Seq(Subs)
    BY DEF TypeOK
  <1>2. ASSUME NEW s \in Seq(Subs), NEW e \in Entries(s) PROVE e \in Subs
    BY DEF Entries
  <1> QED
    BY <1>1, <1>2

\* Which steps change the queues, and what they do to the submission in hand.
LEMMA QueueStep ==
  ASSUME IInv, LifeInv, [Next]_vars
  PROVE  \/ UNCHANGED recorded /\ pending' \in {pending, <<>>}
         \/ Inject \/ \E t \in Subs : Begin(t) \/ TakeInput(t)
  <1> USE DEF loopVars, turnVars, taskVars, historyVars
  <1>1. ASSUME NEW k \in OpKinds, Receive(k) PROVE UNCHANGED <<recorded, pending>>
    BY <1>1 DEF Receive
  <1>2. CASE LoopStep
    BY <1>2 DEF LoopStep, CheckActive, Notify, Take, Cancel, GraceOver, Report, Spawn, Register,
                Close, DropTurn
  <1>3. ASSUME NEW t \in Subs, TaskStep(t), ~Begin(t), ~TakeInput(t)
        PROVE  UNCHANGED recorded /\ pending' \in {pending, <<>>}
    BY <1>3 DEF TaskStep, ModelReturns, WorkDone, Ask, Answered, StopWaiting, CheckCancelled,
                Finish, Complete, Die, DropTurn
  <1>4. CASE UNCHANGED vars
    BY <1>4 DEF vars
  <1> QED
    BY <1>1, <1>2, <1>3, <1>4 DEF Next

\* The task of a turn never goes back to its beginning.
LEMMA NotSpawnedAgain ==
  ASSUME IInv, LifeInv, NEW t \in Subs, TaskStep(t)
  PROVE  pc'[t] # "spawned" /\ pc' = [pc EXCEPT ![t] = pc'[t]]
  <1> USE DEF IInv, TypeOK, Goto, taskVars
  <1>1. CASE Begin(t) \/ TakeInput(t) \/ ModelReturns(t) \/ WorkDone(t) \/ Ask(t)
    BY <1>1 DEF Begin, TakeInput, ModelReturns, WorkDone, Ask
  <1>2. CASE Answered(t) \/ StopWaiting(t) \/ CheckCancelled(t)
    BY <1>2 DEF Answered, StopWaiting, CheckCancelled
  <1>3. CASE Finish(t) \/ Complete(t) \/ Die(t)
    BY <1>3 DEF Finish, Complete, Die
  <1> QED
    BY <1>1, <1>2, <1>3 DEF TaskStep

\* The step of one task leaves that of another where it is.
LEMMA OthersStay ==
  ASSUME IInv, LifeInv, NEW t \in Subs, TaskStep(t), NEW s \in Subs
  PROVE  pc'[s] = "spawned" => pc[s] = "spawned" /\ s # t
  BY NotSpawnedAgain DEF IInv, TypeOK

\* An input that is not due does not become due.
LEMMA NotDueAgain ==
  ASSUME IInv, LifeInv, InputInv, [Next]_vars, NEW e \in Subs, ~Due(e)
  PROVE  ~Due(e)'
  <1>0. e \in Int /\ next \in Int /\ e < next /\ pc[e] # "spawned"
        /\ ~(current = e /\ lpc \notin {"idle", "register", "stopped"})
    BY BoundsAssumption DEF Due, IInv, TypeOK, Subs
  <1>1. ASSUME NEW k \in OpKinds, Receive(k) PROVE ~Due(e)'
    <2>1. next' = next + 1 /\ current' = next /\ pc' = pc
      BY <1>1 DEF Receive, taskVars
    <2> QED
      BY <1>0, <2>1 DEF Due
  <1>2. CASE LoopStep
    <2>1. next' = next /\ current' = current
      BY <1>2 DEF LoopStep, Inject, CheckActive, Notify, Take, Cancel, GraceOver, Report, Spawn,
                  Register, Close
    <2>2. /\ lpc \notin {"idle", "stopped"}
          /\ lpc = "register" => lpc' = "idle"
      BY <1>2 DEF LoopStep, Inject, CheckActive, Notify, Take, Cancel, GraceOver, Report, Spawn,
                  Register, Close
    <2>3. pc'[e] # "spawned"
      <3>1. CASE Spawn
        BY <1>0, <3>1 DEF Spawn, IInv, TypeOK
      <3>2. CASE ~Spawn
        BY <1>0, <1>2, <3>2 DEF LoopStep, Inject, CheckActive, Notify, Take, Cancel, GraceOver,
                                Report, Register, Close, taskVars
      <3> QED
        BY <3>1, <3>2
    <2> QED
      BY <1>0, <2>1, <2>2, <2>3 DEF Due
  <1>3. ASSUME NEW t \in Subs, TaskStep(t) PROVE ~Due(e)'
    <2>1. UNCHANGED <<next, current, lpc>>
      BY <1>3, TaskFrame DEF IInv, loopVars
    <2>2. pc'[e] # "spawned"
      BY <1>0, <1>3, OthersStay
    <2> QED
      BY <1>0, <2>1, <2>2 DEF Due
  <1>4. CASE UNCHANGED vars
    BY <1>0, <1>4 DEF vars, loopVars, taskVars, Due
  <1> QED
    BY <1>1, <1>2, <1>3, <1>4 DEF Next

\* The loop has the last submission in hand, and input waits for a turn only.
LEMMA HandStep ==
  ASSUME IInv, LifeInv, InputInv, [Next]_vars
  PROVE  /\ lpc' # "idle" => current' = next' - 1
         /\ active' = None => pending' = <<>>
  <1> USE DEF InputInv
  <1>0. next \in Int
    BY BoundsAssumption DEF IInv, TypeOK
  <1>1. ASSUME NEW k \in OpKinds, Receive(k)
        PROVE  current' = next' - 1 /\ UNCHANGED <<active, pending>>
    BY <1>0, <1>1 DEF Receive, turnVars
  <1>2. CASE LoopStep
    <2>1. lpc # "idle" /\ UNCHANGED <<next, current>>
      BY <1>2 DEF LoopStep, Inject, CheckActive, Notify, Take, Cancel, GraceOver, Report, Spawn,
                  Register, Close
    <2>2. active' = None => pending' = <<>>
      BY <1>2 DEF LoopStep, Inject, CheckActive, Notify, Take, Cancel, GraceOver, Report, Spawn,
                  Register, Close, turnVars, DropTurn
    <2> QED
      BY <2>1, <2>2
  <1>3. ASSUME NEW t \in Subs, TaskStep(t)
        PROVE  UNCHANGED <<next, current, lpc>> /\ (active' = None => pending' = <<>>)
    <2>1. UNCHANGED <<next, current, lpc>>
      BY <1>3, TaskFrame DEF IInv, loopVars
    <2>2. active' = None => pending' = <<>>
      BY <1>3 DEF TaskStep, Begin, TakeInput, ModelReturns, WorkDone, Ask, Answered, StopWaiting,
                  CheckCancelled, Finish, Complete, Die, turnVars, DropTurn
    <2> QED
      BY <2>1, <2>2
  <1>4. CASE UNCHANGED vars
    BY <1>4 DEF vars, loopVars, turnVars
  <1> QED
    BY <1>1, <1>2, <1>3, <1>4 DEF Next

\* The task of a turn begins with an input that has not entered yet.
LEMMA Begins ==
  ASSUME IInv, LifeInv, InputInv, NEW t \in Subs, Begin(t)
  PROVE  /\ UNCHANGED pending /\ pc[t] = "spawned" /\ pc'[t] # "spawned"
         /\ t \notin Entries(recorded) \union Entries(pending)
         /\ UNCHANGED recorded \/ recorded' = Append(recorded, t)
  <1>1. pc[t] = "spawned" /\ UNCHANGED pending
    BY DEF Begin, Goto, turnVars
  <1>2. pc'[t] # "spawned"
    BY NotSpawnedAgain DEF TaskStep
  <1>3. Due(t)
    BY <1>1 DEF Due
  <1> QED
    BY <1>1, <1>2, <1>3 DEF Begin, InputInv

\* Every step keeps the invariant of the inputs.
LEMMA InputStep ==
  ASSUME IInv, IInv', LifeInv, InputInv, [Next]_vars
  PROVE  InputInv'
  <1>1. /\ lpc' # "idle" => current' = next' - 1
        /\ active' = None => pending' = <<>>
    BY HandStep
  <1>2. recorded \in Seq(Subs) /\ pending \in Seq(Subs)
    BY DEF IInv, TypeOK
  <1>3. /\ \A e \in Entries(recorded) \union Entries(pending) : e \in Subs /\ ~Due(e)
        /\ Distinct(recorded) /\ Distinct(pending)
        /\ Entries(recorded) \cap Entries(pending) = {}
    BY EntriesAreSubs DEF IInv, InputInv
  <1>4. \A e \in Entries(recorded) \union Entries(pending) : ~Due(e)'
    BY <1>3, NotDueAgain
  <1>5. SUFFICES
           /\ \A e \in Entries(recorded') \union Entries(pending') : ~Due(e)'
           /\ Distinct(recorded') /\ Distinct(pending')
           /\ Entries(recorded') \cap Entries(pending') = {}
    BY <1>1 DEF InputInv, Entries, Distinct
  <1>6. CASE UNCHANGED recorded /\ pending' \in {pending, <<>>}
    BY <1>3, <1>4, <1>6, EmptyQueue
  <1>7. CASE Inject
    <2>1. CASE UNCHANGED pending
      BY <1>3, <1>4, <1>7, <2>1 DEF Inject, historyVars
    <2>2. CASE pending' = Append(pending, current) /\ active # None
      <3>1. current \in Subs /\ Due(current) /\ UNCHANGED recorded
        BY <1>7 DEF Inject, IInv, InHand, Due, historyVars
      <3>2. current \notin Entries(recorded) \union Entries(pending)
        BY <1>3, <3>1
      <3>3. \A e : e = current => ~Due(e)'
        <4>1. next' = next /\ current' = current /\ pc' = pc /\ lpc' = "idle" /\ lpc = "inject"
          BY <1>7, <2>2 DEF Inject, taskVars
        <4>2. current < next /\ pc[current] = "none" /\ current \in Int /\ next \in Int
          BY <4>1, BoundsAssumption DEF IInv, InHand, LifeInv, TypeOK, Subs
        <4> QED
          BY <4>1, <4>2 DEF Due
      <3>4. Entries(pending') = Entries(pending) \union {current} /\ Distinct(pending')
        BY <1>2, <1>3, <2>2, <3>1, <3>2, AppendOrder
      <3> QED
        BY <1>3, <1>4, <3>1, <3>2, <3>3, <3>4
    <2> QED
      BY <1>7, <2>1, <2>2 DEF Inject
  <1>8. ASSUME NEW t \in Subs, Begin(t) PROVE <1>5!1
    <2>1. CASE UNCHANGED recorded
      BY <1>3, <1>4, <1>8, <2>1, Begins
    <2>2. CASE recorded' = Append(recorded, t)
      <3>1. UNCHANGED pending /\ t \notin Entries(recorded) \union Entries(pending)
        BY <1>8, Begins
      <3>2. Entries(recorded') = Entries(recorded) \union {t} /\ Distinct(recorded')
        BY <1>2, <1>3, <2>2, <3>1, AppendOrder
      <3>3. ~Due(t)'
        <4>1. UNCHANGED <<next, current, lpc>>
          BY <1>8 DEF Begin, loopVars
        <4>2. pc'[t] # "spawned" /\ pc[t] = "spawned"
          BY <1>8, Begins
        <4>3. t < next /\ t \in Int /\ next \in Int
          BY <4>2, BoundsAssumption DEF LifeInv, IInv, TypeOK, Subs
        <4>4. ~(current = t /\ lpc \notin {"idle", "register", "stopped"})
          BY <4>2 DEF LifeInv
        <4> QED
          BY <4>1, <4>2, <4>3, <4>4 DEF Due
      <3> QED
        BY <1>3, <1>4, <3>1, <3>2, <3>3
    <2> QED
      BY <1>8, <2>1, <2>2, Begins
  <1>9. ASSUME NEW t \in Subs, TakeInput(t) PROVE <1>5!1
    <2>1. recorded' = recorded \o pending /\ pending' = <<>>
      BY <1>9 DEF TakeInput
    <2>2. Entries(recorded') = Entries(recorded) \union Entries(pending) /\ Distinct(recorded')
      BY <1>2, <1>3, <2>1, ConcatOrder
    <2> QED
      BY <1>4, <2>1, <2>2, EmptyQueue
  <1> QED
    BY <1>6, <1>7, <1>8, <1>9, QueueStep

\* A task is never aborted, or cancelled, and then not any more.
LEMMA CalmBefore ==
  ASSUME IInv, LifeInv, [Next]_vars, Calm'
  PROVE  Calm
  <1>1. \A t \in Subs : (aborted[t] => aborted'[t]) /\ (cancelled[t] => cancelled'[t])
    <2> USE DEF IInv, TypeOK, loopVars, turnVars, taskVars, historyVars
    <2>1. ASSUME NEW k \in OpKinds, Receive(k) PROVE UNCHANGED <<aborted, cancelled>>
      BY <2>1 DEF Receive
    <2>2. CASE LoopStep
      <3>1. CASE Cancel \/ GraceOver
        BY <3>1 DEF Cancel, GraceOver
      <3>2. CASE ~Cancel /\ ~GraceOver
        BY <2>2, <3>2 DEF LoopStep, Inject, CheckActive, Notify, Take, Report, Spawn, Register,
                          Close
      <3> QED
        BY <3>1, <3>2
    <2>3. ASSUME NEW u \in Subs, TaskStep(u) PROVE <1>1
      <3>1. CASE Finish(u)
        BY <3>1 DEF Finish
      <3>2. CASE ~Finish(u)
        BY <2>3, <3>2 DEF TaskStep, Begin, TakeInput, ModelReturns, WorkDone, Ask, Answered,
                          StopWaiting, CheckCancelled, Complete, Die
      <3> QED
        BY <3>1, <3>2
    <2>4. CASE UNCHANGED vars
      BY <2>4 DEF vars
    <2> QED
      BY <2>1, <2>2, <2>3, <2>4 DEF Next
  <1> QED
    BY <1>1 DEF Calm

\* Before the loop has aborted a task one task at most is at work, cancelled or not.
LEMMA OneAtWork ==
  ASSUME IInv, OrderInv, Calm, NEW s \in Subs, NEW t \in Subs, pc[s] \in Working, pc[t] \in Working
  PROVE  s = t
  <1>1. ASSUME NEW u \in Subs, pc[u] \in Working
        PROVE  \/ active = u
               \/ lpc = "register" /\ current = u
               \/ lpc \in {"cancel", "grace"} /\ victim = u
    BY <1>1 DEF IInv, RunningTaskIsActive, Running, OrderInv
  <1>2. active = None => active \notin Subs
    BY DEF Subs, None
  <1> QED
    BY <1>1, <1>2 DEF IInv, NoTurnWhileSwitching

\* Who is cancelled is about to be aborted.
LEMMA CancelledStep ==
  ASSUME IInv, LifeInv, OrderInv, [Next]_vars, Calm, Calm', NEW t \in Subs, cancelled'[t]
  PROVE  lpc' = "grace" /\ victim' = t
  <1> USE DEF IInv, TypeOK, OrderInv, loopVars, turnVars, taskVars, historyVars
  <1>1. ASSUME NEW k \in OpKinds, Receive(k) PROVE FALSE
    BY <1>1 DEF Receive
  <1>2. CASE LoopStep
    <2>1. CASE Cancel
      BY <2>1 DEF Cancel
    <2>2. CASE GraceOver
      BY <2>2 DEF GraceOver, LifeInv, Calm, InHand
    <2>3. CASE ~Cancel /\ ~GraceOver
      BY <1>2, <2>3 DEF LoopStep, Inject, CheckActive, Notify, Take, Report, Spawn, Register, Close
    <2> QED
      BY <2>1, <2>2, <2>3
  <1>3. ASSUME NEW u \in Subs, TaskStep(u) PROVE lpc' = "grace" /\ victim' = t
    BY <1>3, TaskFrame
  <1>4. CASE UNCHANGED vars
    BY <1>4 DEF vars
  <1> QED
    BY <1>1, <1>2, <1>3, <1>4 DEF Next

\* A task that is about to begin is either an old one or has just been spawned.
LEMMA SpawnedStep ==
  ASSUME IInv, LifeInv, [Next]_vars, NEW t \in Subs, pc'[t] = "spawned"
  PROVE  \/ pc[t] = "spawned" /\ \A u \in Subs : TaskStep(u) => u # t
         \/ /\ UNCHANGED <<recorded, pending>> /\ active = None
            /\ t = current /\ lpc = "spawn"
  <1> USE DEF IInv, TypeOK, loopVars, turnVars, taskVars, historyVars
  <1>1. ASSUME NEW u \in Subs, TaskStep(u) PROVE pc[t] = "spawned" /\ u # t
    BY <1>1, OthersStay
  <1>2. ASSUME Spawn
        PROVE  \/ pc[t] = "spawned"
               \/ UNCHANGED <<recorded, pending>> /\ active = None /\ t = current /\ lpc = "spawn"
    BY <1>2 DEF Spawn, NoTurnWhileSwitching
  <1>3. ASSUME LoopStep, ~Spawn PROVE pc[t] = "spawned"
    BY <1>3 DEF LoopStep, Inject, CheckActive, Notify, Take, Cancel, GraceOver, Report, Register,
                Close
  <1>4. ASSUME NEW k \in OpKinds, Receive(k) PROVE pc[t] = "spawned"
    BY <1>4 DEF Receive
  <1>5. CASE UNCHANGED vars
    BY <1>1, <1>5 DEF vars
  <1> QED
    BY <1>1, <1>2, <1>3, <1>4, <1>5 DEF Next

\* Every step keeps the order of the inputs.
LEMMA OrderStep ==
  ASSUME IInv, IInv', LifeInv, InputInv, OrderInv, [Next]_vars
  PROVE  OrderInv'
  <1> SUFFICES ASSUME Calm' PROVE OrderInv'
    BY DEF OrderInv
  <1>1. Calm
    BY CalmBefore
  <1>2. \A t \in Subs : cancelled'[t] => lpc' = "grace" /\ victim' = t
    BY <1>1, CancelledStep
  <1>3. /\ recorded \in Seq(Subs) /\ pending \in Seq(Subs)
        /\ \A e \in Entries(recorded) \union Entries(pending) : e \in Subs /\ ~Due(e)
    BY EntriesAreSubs DEF IInv, TypeOK, InputInv
  <1>4. /\ Increasing(recorded) /\ Increasing(pending)
        /\ \A r \in Entries(recorded), p \in Entries(pending) : r < p
        /\ \A t \in Subs : pc[t] = "spawned" =>
             /\ \A r \in Entries(recorded) : r < t
             /\ \A p \in Entries(pending) : t < p
    BY <1>1 DEF OrderInv
  <1>5. \A e \in Subs : e \in Int
    BY BoundsAssumption DEF Subs
  <1>6. ASSUME lpc \notin {"idle", "register", "stopped"}
        PROVE  /\ current \in Subs
               /\ \A e \in Entries(recorded) \union Entries(pending) : e < current
               /\ \A t \in Subs : pc[t] = "spawned" => t < current
    <2>1. current = next - 1 /\ next \in Int /\ current \in Subs
      BY <1>6, BoundsAssumption DEF InputInv, IInv, TypeOK, InHand
    <2>2. ASSUME NEW e \in Entries(recorded) \union Entries(pending) PROVE e < current
      <3>1. e \in Subs /\ ~(e >= next) /\ ~(current = e)
        BY <1>3, <1>6, <2>2 DEF Due
      <3> QED
        BY <1>5, <2>1, <3>1
    <2>3. ASSUME NEW t \in Subs, pc[t] = "spawned" PROVE t < current
      BY <1>5, <1>6, <2>1, <2>3 DEF LifeInv
    <2> QED
      BY <2>1, <2>2, <2>3
  <1>7. SUFFICES
          /\ Increasing(recorded') /\ Increasing(pending')
          /\ \A r \in Entries(recorded'), p \in Entries(pending') : r < p
          /\ \A t \in Subs : pc'[t] = "spawned" =>
               /\ \A r \in Entries(recorded') : r < t
               /\ \A p \in Entries(pending') : t < p
    BY <1>2 DEF OrderInv, Entries, Increasing
  <1>8. CASE UNCHANGED recorded /\ pending' \in {pending, <<>>}
    <2>1. /\ Increasing(pending')
          /\ \A p \in Entries(pending') : p \in Entries(pending)
      BY <1>4, <1>8, EmptyQueue
    <2>2. ASSUME NEW t \in Subs, pc'[t] = "spawned"
          PROVE  /\ \A r \in Entries(recorded) : r < t
                 /\ \A p \in Entries(pending') : t < p
      <3>1. CASE pc[t] = "spawned"
        BY <1>4, <2>1, <3>1
      <3>2. CASE UNCHANGED <<recorded, pending>> /\ active = None /\ t = current /\ lpc = "spawn"
        <4>1. \A r \in Entries(recorded) : r < t
          BY <1>6, <3>2
        <4>2. Entries(pending') = {}
          BY <3>2, EmptyQueue DEF InputInv
        <4> QED
          BY <4>1, <4>2
      <3> QED
        BY <2>2, <3>1, <3>2, SpawnedStep
    <2> QED
      BY <1>4, <1>8, <2>1, <2>2
  <1>9. CASE Inject
    <2>1. CASE UNCHANGED pending
      <3>1. UNCHANGED recorded
        BY <1>9 DEF Inject, historyVars
      <3> QED
        BY <1>8, <2>1, <3>1
    <2>2. CASE pending' = Append(pending, current)
      <3>1. UNCHANGED <<recorded, pc>> /\ lpc = "inject"
        BY <1>9 DEF Inject, historyVars, taskVars
      <3>2. /\ current \in Subs
            /\ \A e \in Entries(recorded) \union Entries(pending) : e < current
            /\ \A t \in Subs : pc[t] = "spawned" => t < current
        BY <1>6, <3>1
      <3>3. /\ Entries(pending') = Entries(pending) \union {current}
            /\ Increasing(pending')
        BY <1>3, <1>4, <2>2, <3>2, AppendOrder
      <3> QED
        BY <1>4, <3>1, <3>2, <3>3
    <2> QED
      BY <1>9, <2>1, <2>2 DEF Inject
  <1>10. ASSUME NEW t \in Subs, Begin(t) PROVE <1>7!1
    <2>1. UNCHANGED pending /\ pc[t] = "spawned"
      BY <1>10, Begins
    <2>2. ASSUME NEW u \in Subs, pc'[u] = "spawned" PROVE FALSE
      <3>1. pc[u] = "spawned" /\ u # t
        BY <1>10, <2>2, OthersStay DEF TaskStep
      <3> QED
        BY <1>1, <2>1, <3>1, OneAtWork DEF Working
    <2>3. CASE UNCHANGED recorded
      BY <1>4, <2>1, <2>2, <2>3
    <2>4. CASE recorded' = Append(recorded, t)
      <3>1. (\A r \in Entries(recorded) : r < t) /\ \A p \in Entries(pending) : t < p
        BY <1>4, <2>1
      <3>2. Entries(recorded') = Entries(recorded) \union {t} /\ Increasing(recorded')
        BY <1>3, <1>4, <2>4, <3>1, AppendOrder
      <3> QED
        BY <1>4, <2>1, <2>2, <3>1, <3>2
    <2> QED
      BY <1>10, <2>3, <2>4, Begins
  <1>11. ASSUME NEW t \in Subs, TakeInput(t) PROVE <1>7!1
    <2>1. recorded' = recorded \o pending /\ pending' = <<>> /\ pc[t] = "take"
      BY <1>11 DEF TakeInput, Goto
    <2>2. ASSUME NEW u \in Subs, pc'[u] = "spawned" PROVE FALSE
      <3>1. pc[u] = "spawned"
        BY <1>11, <2>2, OthersStay DEF TaskStep
      <3> QED
        BY <1>1, <2>1, <3>1, OneAtWork DEF Working
    <2>3. Increasing(recorded')
      BY <1>3, <1>4, <2>1, ConcatOrder
    <2> QED
      BY <2>1, <2>2, <2>3, EmptyQueue
  <1> QED
    BY <1>8, <1>9, <1>10, <1>11, QueueStep

\* No input enters the history twice, and the inputs enter it in the order in which
\* they were submitted unless the loop had to abort a task: for any number of
\* submissions, and however they meet the tasks.
THEOREM InputsEnterInOrder == Spec => []InputsInOrder
  <1>1. Init => InputInv /\ OrderInv
    <2> SUFFICES ASSUME Init PROVE InputInv /\ OrderInv
      OBVIOUS
    <2>1. recorded = <<>> /\ pending = <<>> /\ lpc = "idle"
      BY DEF Init
    <2>2. InputInv
      BY <2>1, EmptyQueue DEF InputInv
    <2>3. OrderInv
      BY <2>1, EmptyQueue DEF Init, OrderInv
    <2> QED
      BY <2>2, <2>3
  <1>2. IInv /\ IInv' /\ LifeInv /\ InputInv /\ OrderInv /\ [Next]_vars => InputInv' /\ OrderInv'
    BY InputStep, OrderStep
  <1>3. IInv /\ InputInv /\ OrderInv => InputsInOrder
    <2> SUFFICES ASSUME IInv, InputInv, OrderInv PROVE InputsInOrder
      OBVIOUS
    <2>1. DOMAIN recorded = 1 .. Len(recorded)
      BY DEF IInv, TypeOK
    <2> QED
      BY <2>1 DEF InputsInOrder, InputInv, OrderInv, Calm, Distinct, Increasing
  <1> QED
    BY <1>1, <1>2, <1>3, Invariance, LifeInvariance, PTL DEF Spec
=============================================================================
