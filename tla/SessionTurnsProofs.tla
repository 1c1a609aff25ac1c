------------------------ MODULE SessionTurnsProofs ------------------------
(***************************************************************************)
(* Proofs about SessionTurns, for any number of turns, items and           *)
(* allocations.                                                            *)
(***************************************************************************)
EXTENDS SessionTurns, SequenceTheorems, TLAPS

Injective(s) == \A j, k \in DOMAIN s : s[j] = s[k] => j = k

-----------------------------------------------------------------------------
(* Sequences of turns: ActiveTurn::tasks and the list of drained tasks.    *)

\* add_task: the new entry is found, the others stay.
LEMMA AppendEntry ==
    ASSUME NEW s \in Seq(Turns), NEW t \in Turns
    PROVE  /\ Append(s, t) \in Seq(Turns)
           /\ \A u : InSeq(u, Append(s, t)) <=> InSeq(u, s) \/ u = t
           /\ Injective(s) /\ ~InSeq(t, s) => Injective(Append(s, t))
  <1>1. Len(s) \in Nat /\ DOMAIN s = 1 .. Len(s)
    BY LenProperties
  <1>2. /\ Append(s, t) \in Seq(Turns)
        /\ DOMAIN Append(s, t) = 1 .. (Len(s) + 1)
        /\ \A k \in 1 .. Len(s) : Append(s, t)[k] = s[k]
        /\ Append(s, t)[Len(s) + 1] = t
    BY AppendProperties, LenProperties
  <1>3. \A u : InSeq(u, Append(s, t)) <=> InSeq(u, s) \/ u = t
    BY <1>1, <1>2 DEF InSeq
  <1>4. ASSUME Injective(s), ~InSeq(t, s)
        PROVE  Injective(Append(s, t))
    BY <1>1, <1>2, <1>4 DEF InSeq, Injective
  <1> QED BY <1>2, <1>3, <1>4

\* drain_tasks is consumed from the front.
LEMMA TailEntry ==
    ASSUME NEW s \in Seq(Turns), s # <<>>
    PROVE  /\ Head(s) \in Turns /\ Tail(s) \in Seq(Turns)
           /\ InSeq(Head(s), s)
           /\ \A u : InSeq(u, s) <=> u = Head(s) \/ InSeq(u, Tail(s))
           /\ Injective(s) => Injective(Tail(s)) /\ ~InSeq(Head(s), Tail(s))
  <1>1. Len(s) \in Nat /\ Len(s) >= 1 /\ DOMAIN s = 1 .. Len(s) /\ Head(s) = s[1]
    BY EmptySeq, LenProperties
  <1>2. /\ Head(s) \in Turns /\ Tail(s) \in Seq(Turns) /\ Len(Tail(s)) = Len(s) - 1
        /\ \A k \in 1 .. (Len(s) - 1) : Tail(s)[k] = s[k + 1]
    BY HeadTailProperties
  <1>3. DOMAIN Tail(s) = 1 .. (Len(s) - 1)
    BY <1>1, <1>2
  <1>4. InSeq(Head(s), s)
    BY <1>1 DEF InSeq
  <1>5. ASSUME NEW u, InSeq(u, s)
        PROVE  u = Head(s) \/ InSeq(u, Tail(s))
    <2>1. PICK k \in 1 .. Len(s) : s[k] = u
      BY <1>1, <1>5 DEF InSeq
    <2>2. CASE k = 1
      BY <2>1, <2>2, <1>1
    <2>3. CASE k # 1
      <3>1. k - 1 \in 1 .. (Len(s) - 1) /\ Tail(s)[k - 1] = u
        BY <2>1, <2>3, <1>1, <1>2
      <3> QED BY <3>1, <1>3 DEF InSeq
    <2> QED BY <2>2, <2>3
  <1>6. ASSUME NEW u, InSeq(u, Tail(s))
        PROVE  \E k \in 1 .. (Len(s) - 1) : s[k + 1] = u
    BY <1>2, <1>3, <1>6 DEF InSeq
  <1>7. ASSUME NEW u, InSeq(u, Tail(s))
        PROVE  InSeq(u, s)
    BY <1>6, <1>7, <1>1 DEF InSeq
  <1>8. ASSUME Injective(s)
        PROVE  Injective(Tail(s)) /\ ~InSeq(Head(s), Tail(s))
    <2>1. Injective(Tail(s))
      BY <1>1, <1>2, <1>3, <1>8 DEF Injective
    <2>2. ~InSeq(Head(s), Tail(s))
      BY <1>1, <1>6, <1>8 DEF Injective
    <2> QED BY <2>1, <2>2
  <1> QED BY <1>2, <1>4, <1>5, <1>7, <1>8

\* remove_task: exactly the entry of t disappears.
LEMMA SwapRemoveEntry ==
    ASSUME NEW s \in Seq(Turns), NEW t \in Turns, Injective(s)
    PROVE  /\ SwapRemove(s, t) \in Seq(Turns)
           /\ \A u : InSeq(u, SwapRemove(s, t)) <=> InSeq(u, s) /\ u # t
           /\ Injective(SwapRemove(s, t))
  <1>1. CASE ~InSeq(t, s)
    BY <1>1 DEF SwapRemove
  <1>2. CASE InSeq(t, s)
    <2> DEFINE k == CHOOSE k \in DOMAIN s : s[k] = t
               n == Len(s) - 1
               r == [j \in 1 .. n |-> IF j = k THEN s[Len(s)] ELSE s[j]]
    <2>1. k \in DOMAIN s /\ s[k] = t
      BY <1>2 DEF InSeq
    <2>2. SwapRemove(s, t) = r
      BY <1>2 DEF SwapRemove
    <2> HIDE DEF k
    <2>3. Len(s) \in Nat /\ DOMAIN s = 1 .. Len(s) /\ k \in 1 .. Len(s) /\ n \in Nat
      BY <2>1, LenProperties
    <2>4. \A j \in 1 .. Len(s) : s[j] \in Turns
      BY <2>3, ElementOfSeq
    <2>5. r \in Seq(Turns) /\ Len(r) = n /\ DOMAIN r = 1 .. n
      <3>1. r \in [1 .. n -> Turns]
        BY <2>3, <2>4
      <3> QED BY <3>1, <2>3, IsASeq
    <2>6. \A j \in 1 .. n : r[j] = IF j = k THEN s[Len(s)] ELSE s[j]
      OBVIOUS
    <2> HIDE DEF r
    <2>7. \A u : InSeq(u, r) => InSeq(u, s) /\ u # t
      BY <2>1, <2>3, <2>5, <2>6 DEF InSeq, Injective
    <2>8. ASSUME NEW u, InSeq(u, s), u # t
          PROVE  InSeq(u, r)
      <3>1. PICK j \in 1 .. Len(s) : s[j] = u
        BY <2>3, <2>8 DEF InSeq
      <3>2. j # k
        BY <3>1, <2>1, <2>8
      <3>3. CASE j = Len(s)
        <4>1. k \in 1 .. n /\ r[k] = u
          BY <3>1, <3>2, <3>3, <2>3, <2>6
        <4> QED BY <4>1, <2>5 DEF InSeq
      <3>4. CASE j < Len(s)
        <4>1. j \in 1 .. n
          BY <3>4, <2>3
        <4>2. r[j] = u
          BY <4>1, <3>1, <3>2, <2>6
        <4> QED BY <4>1, <4>2, <2>5 DEF InSeq
      <3>5. j = Len(s) \/ j < Len(s)
        <4>1. Len(s) \in Nat
          BY <2>3
        <4> QED BY <4>1
      <3> QED BY <3>3, <3>4, <3>5
    <2>9. Injective(r)
      BY <2>3, <2>5, <2>6 DEF Injective
    <2> QED BY <2>2, <2>5, <2>7, <2>8, <2>9
  <1> QED BY <1>1, <1>2

-----------------------------------------------------------------------------
(* The inductive invariant of the control state.                           *)

\* An IndexMap has one entry per sub-id.
OneEntryPerTask == active # NoObj => Injective(tasks[active])

\* Only tasks that were spawned are aborted.
DoomedWereBorn ==
    /\ \A t \in Turns : Doomed(t) => pc[t] # "unborn"
    /\ killed \subseteq cancelled

\* start_task works for a turn that nobody else starts and that is not running.
StartTaskPcs == {"start_idle", "start_turn", "start_mail", "start_obj", "start_push",
                 "start_spawn"}
TargetsFresh ==
    /\ \A th \in Threads : tgt[th] # NoTurn => pc[tgt[th]] = "unborn"
    /\ \A th, x \in Threads : th # x /\ tgt[th] # NoTurn => tgt[th] # tgt[x]
    /\ \A th \in Threads : pc[th] \in StartTaskPcs => tgt[th] # NoTurn
    /\ \A th \in Threads : pc[th] \in AbortPcs /\ why[th] = "Replaced" => tgt[th] # NoTurn

\* An aborter holds its drained tasks exactly while it aborts them one by one;
\* the task it waits for is cancelled. A turn's own task never aborts others.
AbortersOrdered ==
    /\ \A th \in Threads : victims[th] # <<>> <=> pc[th] \in {"abort_each", "abort_kill"}
    /\ \A th \in Threads : pc[th] = "abort_kill" => Head(victims[th]) \in cancelled
    /\ \A t \in Turns : pc[t] \notin AbortPcs

ControlInv ==
    /\ ControlTypeOK
    /\ NoOrphanTask /\ NoZombieTask
    /\ OneEntryPerTask /\ DoomedWereBorn /\ TargetsFresh /\ AbortersOrdered

\* Most steps move one thread, which may choose or drop its target, and leave
\* the tasks alone: they change the slot only between states without tasks.
QuietMove(th) ==
    /\ UNCHANGED <<cancelled, killed, victims>>
    /\ \/ UNCHANGED <<active, tasks>>
       \/ ~HasActiveTask /\ ~HasActiveTask'
    /\ \A x \in Threads \ {th} : pc'[x] = pc[x] /\ tgt'[x] = tgt[x] /\ why'[x] = why[x]
    /\ tgt'[th] \in {tgt[th], NoTurn} \cup FreshTurns
    /\ pc[th] \notin {"unborn", "abort_each", "abort_kill"}
    /\ pc'[th] \notin {"unborn", "abort_each", "abort_kill"}
    /\ pc'[th] \in BodyPcs => pc[th] \in BodyPcs
    /\ pc[th] \in BodyPcs => pc'[th] \in BodyPcs \/ th \in cancelled
    /\ pc'[th] \in StartTaskPcs => tgt'[th] # NoTurn
    /\ pc'[th] \in AbortPcs => th \notin Turns
    /\ pc'[th] \in AbortPcs /\ why'[th] = "Replaced" => tgt'[th] # NoTurn

\* A quiet move keeps the invariant.
LEMMA QuietMoveInv ==
    ASSUME ControlInv, ControlTypeOK', NEW th \in Threads, QuietMove(th)
    PROVE  ControlInv'
  <1> USE DEF ControlInv, QuietMove
  <1>1. \A t \in Turns : Doomed(t)' <=> Doomed(t)
    BY DEF Doomed, BeingAborted
  <1>9. \A t \in Turns : InActiveTurn(t)' <=> InActiveTurn(t)
    <2>1. \A t : ~InSeq(t, <<>>)
      BY DEF InSeq
    <2> QED BY <2>1 DEF InActiveTurn, HasActiveTask
  <1>2. \A t \in Turns : t \in Threads
    BY DEF Threads
  <1>3. NoOrphanTask'
    BY <1>1, <1>9, <1>2 DEF NoOrphanTask, Doomed
  <1>4. NoZombieTask'
    BY <1>1, <1>9, <1>2 DEF NoZombieTask, Doomed
  <1>5. OneEntryPerTask'
    BY DEF OneEntryPerTask, HasActiveTask, Injective
  <1>6. DoomedWereBorn'
    BY <1>1, <1>2 DEF DoomedWereBorn
  <1>7. TargetsFresh'
    <2>1. \A x \in Threads \ {th} : tgt'[x] = tgt[x]
      OBVIOUS
    <2>2. tgt'[th] # tgt[th] /\ tgt'[th] # NoTurn => tgt'[th] \in FreshTurns
      OBVIOUS
    <2>3. \A x \in Threads : tgt'[x] # NoTurn => tgt'[x] \in Turns /\ pc[tgt'[x]] = "unborn"
      <3>1. \A x \in Threads : tgt[x] # NoTurn => tgt[x] \in Turns /\ pc[tgt[x]] = "unborn"
        BY DEF TargetsFresh, ControlTypeOK
      <3>2. tgt'[th] \in FreshTurns => tgt'[th] \in Turns /\ pc[tgt'[th]] = "unborn"
        BY DEF FreshTurns
      <3> QED BY <2>1, <2>2, <3>1, <3>2
    <2>4. \A x \in Threads : tgt'[x] # NoTurn => pc'[tgt'[x]] = "unborn"
      BY <2>3, <1>2
    <2>5. \A y, x \in Threads : y # x /\ tgt'[y] # NoTurn => tgt'[y] # tgt'[x]
      <3>1. CASE tgt'[th] \in {tgt[th], NoTurn}
        BY <2>1, <3>1 DEF TargetsFresh
      <3>2. CASE tgt'[th] \in FreshTurns
        BY <2>1, <3>2 DEF TargetsFresh, FreshTurns
      <3> QED BY <3>1, <3>2
    <2>6. \A x \in Threads : pc'[x] \in StartTaskPcs => tgt'[x] # NoTurn
      BY <2>1 DEF TargetsFresh
    <2>7. \A x \in Threads : pc'[x] \in AbortPcs /\ why'[x] = "Replaced" => tgt'[x] # NoTurn
      BY <2>1 DEF TargetsFresh
    <2> QED BY <2>4, <2>5, <2>6, <2>7 DEF TargetsFresh
  <1>8. AbortersOrdered'
    BY <1>2 DEF AbortersOrdered
  <1> QED BY <1>3, <1>4, <1>5, <1>6, <1>7, <1>8

\* The body of a task never touches the slot, the tasks or the aborters' lists.
LEMMA BodyIsQuiet ==
    ASSUME ControlInv, NEW t \in Turns, Body(t)
    PROVE  ControlTypeOK' /\ QuietMove(t)
  <1> USE DEF ControlInv, ControlTypeOK, QuietMove, Goto, slot, turnState, queues, signals,
          params, log, env, locals, BodyUnchanged, Pcs, BodyPcs, StartTaskPcs, AbortPcs
  <1>0. t \in Threads
    BY DEF Threads
  <1>1. CASE RunStandalone(t)
    BY <1>0, <1>1 DEF RunStandalone
  <1>2. CASE BeginWithInput(t)
    BY <1>0, <1>2 DEF BeginWithInput
  <1>3. CASE BeginWithoutInput(t)
    BY <1>0, <1>3 DEF BeginWithoutInput
  <1>4. CASE EnterRunTurn(t)
    BY <1>0, <1>4 DEF EnterRunTurn
  <1>5. CASE ReturnFromRunTurn(t)
    BY <1>0, <1>5 DEF ReturnFromRunTurn
  <1>6. CASE DrainTurn(t)
    BY <1>0, <1>6 DEF DrainTurn, TakePending
  <1>7. CASE DrainMail(t)
    BY <1>0, <1>7 DEF DrainMail, DrainMailbox
  <1>8. CASE InspectPending(t)
    BY <1>0, <1>8 DEF InspectPending
  <1>9. CASE ToolCall(t)
    BY <1>0, <1>9 DEF ToolCall
  <1>10. CASE FollowUp(t)
    BY <1>0, <1>10 DEF FollowUp
  <1>11. CASE RequestApproval(t)
    BY <1>0, <1>11 DEF RequestApproval
  <1>12. CASE ReceiveApproval(t)
    BY <1>0, <1>12 DEF ReceiveApproval
  <1>13. CASE ApprovalCancelled(t)
    BY <1>0, <1>13 DEF ApprovalCancelled
  <1>14. CASE AssistantMessage(t)
    BY <1>0, <1>14 DEF AssistantMessage
  <1>20. CASE ResponseCompleted(t)
    BY <1>0, <1>20 DEF ResponseCompleted
  <1>21. CASE PrewarmCancelled(t)
    BY <1>0, <1>21 DEF PrewarmCancelled
  <1>22. CASE SessionStartHookStops(t)
    BY <1>0, <1>22 DEF SessionStartHookStops
  <1>15. CASE SamplingFails(t)
    BY <1>0, <1>15 DEF SamplingFails
  <1>16. CASE AfterAnswer(t)
    BY <1>0, <1>16 DEF AfterAnswer
  <1>17. CASE StopHookContinues(t)
    BY <1>0, <1>17 DEF StopHookContinues
  <1>18. CASE RegularTaskLoop(t)
    BY <1>0, <1>18 DEF RegularTaskLoop
  <1>19. CASE AfterRun(t)
    BY <1>0, <1>19 DEF AfterRun
  <1> QED BY <1>1, <1>2, <1>3, <1>4, <1>5, <1>6, <1>7, <1>8, <1>9, <1>10,
             <1>11, <1>12, <1>13, <1>14, <1>15, <1>16, <1>17, <1>18, <1>19, <1>20, <1>21, <1>22
          DEF Body

\* Choosing a sub-id that nobody uses.
LEMMA FreshTurnIsFresh ==
    ASSUME FreshTurns # {}
    PROVE  FreshTurn \in FreshTurns /\ FreshTurn \in Turns
  BY DEF FreshTurn, FreshTurns

\* Allocating an ActiveTurn that nobody refers to.
LEMMA FreshObjIsFresh ==
    ASSUME FreshObjs # {}
    PROVE  FreshObj \in Objs /\ ~Live(FreshObj)
  BY DEF FreshObj, FreshObjs

\* The end of a procedure forgets the target.
LEMMA ReturnMoves ==
    ASSUME ControlTypeOK, NEW th \in Threads, Return(th)
    PROVE  /\ pc' \in [Threads -> Pcs] /\ pc'[th] \in {"done", "exited", "ready"}
           /\ tgt' \in [Threads -> Turns \cup {NoTurn}] /\ tgt'[th] = NoTurn
           /\ obj' \in [Threads -> Objs \cup {NoObj}]
           /\ why' \in [Threads -> Reasons]
           /\ \A x \in Threads \ {th} : pc'[x] = pc[x] /\ tgt'[x] = tgt[x] /\ why'[x] = why[x]
  BY DEF Return, Goto, ControlTypeOK, Pcs, Reasons

\* Receiving an Op moves only the submission loop.
LEMMA SubmissionIsQuiet ==
    ASSUME ControlInv, Submission
    PROVE  ControlTypeOK' /\ QuietMove(Loop)
  <1> USE DEF ControlInv, ControlTypeOK, QuietMove, Goto, Return, slot, turnState, queues,
          signals, params, log, env, locals, Pcs, BodyPcs, StartTaskPcs, AbortPcs, StartPcs,
          FinPcs, HasActiveTask, Reasons, Kinds
  <1>0. Loop \in Threads /\ Loop \notin Turns /\ MaxOps \in Nat
        /\ NoTurn \notin Turns /\ StandaloneKinds \subseteq Kinds
    BY ThreadsAssumption, InputsAssumption, SentinelsAssumption DEF Threads
  <1>1. CASE \E i \in UserItems : SteerInput(i)
    BY <1>0, FreshTurnIsFresh, <1>1 DEF SteerInput
  <1>2. CASE \E i \in UserItems : SteerRefused(i)
    BY <1>0, FreshTurnIsFresh, <1>2 DEF SteerRefused
  <1>3. CASE \E i \in UserItems : UserTurn(i)
    BY <1>0, FreshTurnIsFresh, <1>3 DEF UserTurn, SpawnTask
  <1>4. CASE \E i \in MailItems : InterAgentCommunication(i)
    BY <1>0, FreshTurnIsFresh, <1>4 DEF InterAgentCommunication
  <1>5. CASE \E i \in DeniedItems : ApproveDeniedAction(i)
    <2>1. PICK i \in DeniedItems : ApproveDeniedAction(i)
      BY <1>5
    <2>2. CASE active # NoObj
      BY <1>0, <2>1, <2>2 DEF ApproveDeniedAction
    <2>3. CASE active = NoObj
      BY ZenonT(40), <1>0, <2>1, <2>3 DEF ApproveDeniedAction
    <2> QED BY <2>2, <2>3
  <1>6. CASE \E k \in StandaloneKinds : StandaloneTask(k)
    BY <1>0, FreshTurnIsFresh, <1>6 DEF StandaloneTask, SpawnTask
  <1>7. CASE \E t \in Turns : ExecApproval(t)
    BY <1>0, FreshTurnIsFresh, <1>7 DEF ExecApproval
  <1>8. CASE Interrupt
    BY <1>0, FreshTurnIsFresh, <1>8 DEF Interrupt
  <1>9. CASE Shutdown
    BY <1>0, FreshTurnIsFresh, <1>9 DEF Shutdown
  <1> QED BY <1>1, <1>2, <1>3, <1>4, <1>5, <1>6, <1>7, <1>8, <1>9 DEF Submission

\* So does the scheduler.
LEMMA BackgroundIsQuiet ==
    ASSUME ControlInv,
           \/ \E i \in SchedItems : FireScheduledPrompt(i)
           \/ \E i \in AuxItems : AuxiliaryOutput(i)
    PROVE  ControlTypeOK' /\ QuietMove(Background)
  <1> USE DEF ControlInv, ControlTypeOK, QuietMove, Goto, Return, slot, turnState, queues,
          signals, params, log, env, locals, Pcs, BodyPcs, StartTaskPcs, AbortPcs, StartPcs,
          FinPcs, HasActiveTask, Reasons, Kinds
  <1>0. Background \in Threads /\ Background \notin Turns
    BY ThreadsAssumption DEF Threads
  <1>1. CASE \E i \in SchedItems : FireScheduledPrompt(i)
    BY <1>0, <1>1 DEF FireScheduledPrompt
  <1>2. CASE \E i \in AuxItems : AuxiliaryOutput(i)
    BY <1>0, <1>2 DEF AuxiliaryOutput
  <1> QED BY <1>1, <1>2

\* The steps of the procedures that handle no task.
LEMMA ProcedureIsQuiet ==
    ASSUME ControlInv, NEW th \in Threads,
           \/ AbortTake(th) /\ ~HasActiveTask
           \/ AbortPending(th) \/ AbortClear(th) \/ QueueItems(th)
           \/ MaybeStartIdle(th) \/ MaybeStartMail(th) \/ MaybeStartReserve(th)
           \/ StartTakeIdle(th) \/ StartTakePending(th) \/ StartDrainMailbox(th)
           \/ StartGetTurn(th) \/ StartPush(th)
    PROVE  ControlTypeOK' /\ QuietMove(th)
  <1> USE DEF ControlInv, ControlTypeOK, QuietMove, Goto, Return, slot, turnState, queues,
          signals, params, log, env, locals, Pcs, BodyPcs, StartTaskPcs, AbortPcs, StartPcs,
          FinPcs, HasActiveTask, Reasons, Kinds, AbortersOrdered, TargetsFresh
  <1>0. NoTurn \notin Turns /\ NoObj \notin Objs
    BY SentinelsAssumption
  <1>1. CASE AbortTake(th) /\ ~HasActiveTask
    <2>1. CASE why[th] = "Replaced"
      <3>9. /\ pc' = [pc EXCEPT ![th] = "start_idle"] /\ active' = NoObj
            /\ UNCHANGED <<tasks, approvals, cancelled, killed, ended, kind>>
            /\ UNCHANGED <<ops, closing, granted, locals>>
        BY <1>0, <1>1, <2>1 DEF AbortTake
      <3>10. ControlTypeOK'
        BY <1>0, <3>9
      <3>11. ~HasActiveTask /\ ~HasActiveTask'
        BY <1>0, <1>1, <2>1 DEF AbortTake
      <3>12. QuietMove(th)
        BY <3>11, <1>0, <1>1, <2>1 DEF AbortTake
      <3> QED BY <3>10, <3>12
    <2>2. CASE why[th] = "Interrupted"
      <3>1. Return(th) /\ active' = NoObj /\ pc[th] = "abort_take"
            /\ UNCHANGED <<tasks, victims, turnState, signals, params, env>>
        BY <1>1, <2>2 DEF AbortTake
      <3> HIDE DEF Return
      <3> QED BY <1>0, <1>1, <3>1, ReturnMoves
    <2> QED BY <1>1, <2>1, <2>2 DEF AbortTake
  <1>2. CASE AbortPending(th)
    BY <1>0, <1>2 DEF AbortPending
  <1>3. CASE AbortClear(th)
    <2>1. CASE why[th] = "Replaced"
      <3>10. ControlTypeOK'
        BY <1>0, <1>3, <2>1 DEF AbortClear
      <3>11. UNCHANGED <<active, tasks>>
        BY <1>0, <1>3, <2>1 DEF AbortClear
      <3>12. QuietMove(th)
        BY <3>11, <1>0, <1>3, <2>1 DEF AbortClear
      <3> QED BY <3>10, <3>12
    <2>2. CASE why[th] # "Replaced"
      <3>1. pc'[th] \in {"requeue", "maybe_idle"} /\ pc' = [pc EXCEPT ![th] = pc'[th]]
        BY <1>3, <2>2 DEF AbortClear
      <3>10. ControlTypeOK'
        BY <1>0, <1>3, <3>1 DEF AbortClear
      <3>11. UNCHANGED <<active, tasks>>
        BY <1>0, <1>3, <3>1 DEF AbortClear
      <3>12. QuietMove(th)
        BY <3>11, <1>0, <1>3, <3>1 DEF AbortClear
      <3> QED BY <3>10, <3>12
    <2> QED BY <2>1, <2>2
  <1>4. CASE QueueItems(th)
    <2>1. CASE pc[th] = "queue"
      <3>1. Return(th) /\ UNCHANGED <<slot, approvals, victims, signals, kind, env>>
        BY <1>4, <2>1 DEF QueueItems
      <3> HIDE DEF Return
      <3> QED BY <1>0, <2>1, <3>1, ReturnMoves
    <2>2. CASE pc[th] = "requeue"
      <3>9. /\ pc' = [pc EXCEPT ![th] = "maybe_idle"]
            /\ UNCHANGED <<active, tasks, approvals, cancelled, killed, ended, kind>>
            /\ UNCHANGED <<ops, closing, granted, tgt, obj, victims, why>>
        BY <1>0, <1>4, <2>2 DEF QueueItems
      <3>10. ControlTypeOK'
        BY <1>0, <3>9
      <3>11. UNCHANGED <<active, tasks>>
        BY <1>0, <1>4, <2>2 DEF QueueItems
      <3>12. QuietMove(th)
        BY <3>11, <1>0, <1>4, <2>2 DEF QueueItems
      <3> QED BY <3>10, <3>12
    <2> QED BY <1>4, <2>1, <2>2 DEF QueueItems
  <1>5. CASE MaybeStartIdle(th)
    BY <1>0, <1>5 DEF MaybeStartIdle
  <1>6. CASE MaybeStartMail(th)
    <2>1. CASE \E m \in TriggerMail : InSeq(m, mailbox)
      <3>9. /\ pc' = [pc EXCEPT ![th] = "maybe_reserve"]
            /\ UNCHANGED <<active, tasks, approvals, cancelled, killed, ended, kind>>
            /\ UNCHANGED <<ops, closing, granted, tgt, obj, victims, why>>
        BY <1>0, <1>6, <2>1 DEF MaybeStartMail
      <3>10. ControlTypeOK'
        BY <1>0, <3>9
      <3>11. UNCHANGED <<active, tasks>>
        BY <1>0, <1>6, <2>1 DEF MaybeStartMail
      <3>12. QuietMove(th)
        BY <3>11, <1>0, <1>6, <2>1 DEF MaybeStartMail
      <3> QED BY <3>10, <3>12
    <2>2. CASE ~\E m \in TriggerMail : InSeq(m, mailbox)
      <3>1. Return(th) /\ pc[th] = "maybe_mail"
            /\ UNCHANGED <<slot, approvals, victims, signals, kind, env>>
        BY <1>6, <2>2 DEF MaybeStartMail
      <3> HIDE DEF Return
      <3> QED BY <1>0, <3>1, ReturnMoves
    <2> QED BY <2>1, <2>2
  <1>7. CASE MaybeStartReserve(th)
    <2>1. CASE active # NoObj
      <3>1. Return(th) /\ pc[th] = "maybe_reserve"
            /\ UNCHANGED <<slot, approvals, victims, signals, kind, env>>
        BY <1>7, <2>1 DEF MaybeStartReserve
      <3> HIDE DEF Return
      <3> QED BY <1>0, <3>1, ReturnMoves
    <2>2. CASE active = NoObj
      <3>1. FreshTurn \in FreshTurns /\ FreshTurn \in Turns /\ FreshObj \in Objs
        BY <1>7, <2>2, FreshTurnIsFresh, FreshObjIsFresh DEF MaybeStartReserve
      <3>9. /\ pc' = [pc EXCEPT ![th] = "start_idle"] /\ active' = FreshObj
            /\ tasks' = [tasks EXCEPT ![FreshObj] = <<>>]
            /\ approvals' = [approvals EXCEPT ![FreshObj] = {}]
            /\ tgt' = [tgt EXCEPT ![th] = FreshTurn]
            /\ kind' = [kind EXCEPT ![FreshTurn] = "Regular"]
            /\ UNCHANGED <<cancelled, killed, ended, ops, closing, granted, obj, victims, why>>
        BY <1>0, <1>7, <2>2, <3>1 DEF MaybeStartReserve, InstallFresh
      <3>10. ControlTypeOK'
        BY <1>0, <3>9, <3>1
      <3>11. ~HasActiveTask /\ ~HasActiveTask'
        BY <1>0, <1>7, <2>2, <3>1 DEF MaybeStartReserve, InstallFresh
      <3>12. QuietMove(th)
        BY <3>11, <1>0, <1>7, <2>2, <3>1 DEF MaybeStartReserve, InstallFresh
      <3> QED BY <3>10, <3>12
    <2> QED BY <2>1, <2>2
  <1>8. CASE StartTakeIdle(th)
    BY <1>0, <1>8 DEF StartTakeIdle
  <1>9. CASE StartTakePending(th)
    BY <1>0, <1>9 DEF StartTakePending, TakePending
  <1>10. CASE StartDrainMailbox(th)
    BY <1>0, <1>10 DEF StartDrainMailbox, DrainMailbox
  <1>11. CASE StartGetTurn(th)
    <2>1. CASE active # NoObj
      <3>9. /\ pc' = [pc EXCEPT ![th] = "start_push"]
            /\ obj' = [obj EXCEPT ![th] = active]
            /\ UNCHANGED <<active, tasks, approvals, cancelled, killed, ended, kind>>
            /\ UNCHANGED <<ops, closing, granted, tgt, victims, why>>
        BY <1>0, <1>11, <2>1 DEF StartGetTurn
      <3>10. ControlTypeOK'
        BY <1>0, <3>9
      <3>11. UNCHANGED <<active, tasks>>
        BY <1>0, <1>11, <2>1 DEF StartGetTurn
      <3>12. QuietMove(th)
        BY <3>11, <1>0, <1>11, <2>1 DEF StartGetTurn
      <3> QED BY <3>10, <3>12
    <2>2. CASE active = NoObj
      <3>1. FreshObj \in Objs
        BY <1>11, <2>2, FreshObjIsFresh DEF StartGetTurn
      <3>9. /\ pc' = [pc EXCEPT ![th] = "start_push"] /\ active' = FreshObj
            /\ tasks' = [tasks EXCEPT ![FreshObj] = <<>>]
            /\ approvals' = [approvals EXCEPT ![FreshObj] = {}]
            /\ obj' = [obj EXCEPT ![th] = FreshObj]
            /\ UNCHANGED <<cancelled, killed, ended, ops, closing, granted, kind, tgt, victims, why>>
        BY <1>0, <1>11, <2>2, <3>1 DEF StartGetTurn, InstallFresh
      <3>10. ControlTypeOK'
        BY <1>0, <3>9, <3>1
      <3>11. ~HasActiveTask /\ ~HasActiveTask'
        BY <1>0, <1>11, <2>2, <3>1 DEF StartGetTurn, InstallFresh
      <3>12. QuietMove(th)
        BY <3>11, <1>0, <1>11, <2>2, <3>1 DEF StartGetTurn, InstallFresh
      <3> QED BY <3>10, <3>12
    <2> QED BY <2>1, <2>2
  <1>12. CASE StartPush(th)
    BY <1>0, <1>12 DEF StartPush
  <1> QED BY <1>1, <1>2, <1>3, <1>4, <1>5, <1>6, <1>7, <1>8, <1>9, <1>10, <1>11, <1>12

\* After its removal a task only moves itself; a killed task is a doomed one.
LEMMA FinishIsQuiet ==
    ASSUME ControlInv, NEW t \in Turns,
           FinishTakePending(t) \/ FinishRecord(t) \/ FinishClear(t) \/ Die(t)
    PROVE  ControlTypeOK' /\ QuietMove(t)
  <1> USE DEF ControlInv, ControlTypeOK, QuietMove, Goto, Return, slot, turnState, queues,
          signals, params, log, env, locals, Pcs, BodyPcs, StartTaskPcs, AbortPcs, StartPcs,
          FinPcs, HasActiveTask, Reasons, Kinds, AbortersOrdered
  <1>0. t \in Threads
    BY DEF Threads
  <1>1. CASE FinishTakePending(t)
    BY <1>0, <1>1 DEF FinishTakePending
  <1>2. CASE FinishRecord(t)
    BY <1>0, <1>2 DEF FinishRecord
  <1>3. CASE FinishClear(t)
    <2>1. CASE active = obj[t] /\ tasks[active] = <<>>
      <3>10. ControlTypeOK'
        BY ZenonT(40), <1>0, <1>3, <2>1 DEF FinishClear
      <3>11. ~HasActiveTask /\ ~HasActiveTask'
        BY <1>0, <1>3, <2>1 DEF FinishClear
      <3>12. QuietMove(t)
        BY <3>11, <1>0, <1>3, <2>1 DEF FinishClear
      <3> QED BY <3>10, <3>12
    <2>2. CASE ~(active = obj[t] /\ tasks[active] = <<>>)
      <3>1. ControlTypeOK'
        BY ZenonT(40), <1>0, <1>3, <2>2 DEF FinishClear
      <3>2. UNCHANGED <<active, tasks>>
        BY <1>0, <1>3, <2>2 DEF FinishClear
      <3>3. QuietMove(t)
        BY <1>0, <1>3, <2>2 DEF FinishClear
      <3> QED BY <3>1, <3>3
    <2> QED BY <2>1, <2>2
  <1>4. CASE Die(t)
    BY <1>0, <1>4 DEF Die, DoomedWereBorn, Doomed
  <1> QED BY <1>1, <1>2, <1>3, <1>4

-----------------------------------------------------------------------------
(* The steps that move tasks between the slot and the aborters.            *)

\* take_active_turn and drain_tasks: the tasks pass from the slot to th.
DrainsTasks(th) ==
    /\ HasActiveTask
    /\ active' = NoObj
    /\ tasks' = [tasks EXCEPT ![active] = <<>>]
    /\ victims' = [victims EXCEPT ![th] = tasks[active]]
    /\ pc[th] \in {"abort_take", "ready"} /\ pc' = [pc EXCEPT ![th] = "abort_each"]
    /\ \A x \in Threads \ {th} : why'[x] = why[x]
    /\ why'[th] = "Replaced" => tgt[th] # NoTurn
    /\ UNCHANGED <<cancelled, killed, tgt>>

\* Every drained task was running; from now on it is doomed.
LEMMA DrainsTasksInv ==
    ASSUME ControlInv, ControlTypeOK', NEW th \in Threads \ Turns, DrainsTasks(th)
    PROVE  ControlInv'
  <1> USE DEF ControlInv
  <1>1. \A t \in Turns : t \in Threads /\ t # th
    BY DEF Threads
  <1>2. active \in Objs /\ tasks[active] \in Seq(Turns) /\ tasks[active] # <<>>
    BY DEF DrainsTasks, HasActiveTask, ControlTypeOK
  <1>3. victims[th] = <<>>
    BY DEF DrainsTasks, AbortersOrdered
  <1>4. victims'[th] = tasks[active] /\ \A x \in Threads \ {th} : victims'[x] = victims[x]
    BY DEF DrainsTasks, ControlTypeOK
  <1>5. \A t \in Turns : BeingAborted(t)' <=> BeingAborted(t) \/ InActiveTurn(t)
    <2>1. \A t : ~InSeq(t, <<>>)
      BY DEF InSeq
    <2>2. \A t \in Turns : InActiveTurn(t) <=> InSeq(t, tasks[active])
      BY DEF InActiveTurn, DrainsTasks, HasActiveTask
    <2> QED BY <1>3, <1>4, <2>1, <2>2 DEF BeingAborted
  <1>6. \A t \in Turns : Doomed(t)' <=> Doomed(t) \/ InActiveTurn(t)
    BY <1>5 DEF Doomed, DrainsTasks
  <1>7. pc'[th] = "abort_each" /\ \A x \in Threads \ {th} : pc'[x] = pc[x]
    BY DEF DrainsTasks, ControlTypeOK
  <1>8. active' = NoObj /\ \A t \in Turns : ~InActiveTurn(t)'
    BY DEF DrainsTasks, InActiveTurn
  <1>9. NoOrphanTask'
    BY <1>1, <1>6, <1>7 DEF NoOrphanTask
  <1>10. NoZombieTask' /\ OneEntryPerTask'
    BY <1>8 DEF NoZombieTask, OneEntryPerTask
  <1>11. DoomedWereBorn'
    BY <1>1, <1>6, <1>7 DEF DoomedWereBorn, NoZombieTask, BodyPcs, DrainsTasks
  <1>12. TargetsFresh'
    <2>1. UNCHANGED tgt
      BY DEF DrainsTasks
    <2>2. \A x \in Threads : tgt[x] # NoTurn => tgt[x] \in Turns
      BY DEF ControlTypeOK
    <2>3. \A x \in Threads : tgt'[x] # NoTurn => pc'[tgt'[x]] = "unborn"
      BY <1>1, <1>7, <2>1, <2>2 DEF TargetsFresh
    <2>4. \A y, x \in Threads : y # x /\ tgt'[y] # NoTurn => tgt'[y] # tgt'[x]
      BY <2>1 DEF TargetsFresh
    <2>5. \A x \in Threads : pc'[x] \in StartTaskPcs => tgt'[x] # NoTurn
      BY <1>7, <2>1 DEF TargetsFresh, StartTaskPcs
    <2>6. \A x \in Threads : pc'[x] \in AbortPcs /\ why'[x] = "Replaced" => tgt'[x] # NoTurn
      BY <1>7, <2>1 DEF TargetsFresh, DrainsTasks
    <2> QED BY <2>3, <2>4, <2>5, <2>6 DEF TargetsFresh
  <1>13. AbortersOrdered'
    <2>1. UNCHANGED cancelled
      BY DEF DrainsTasks
    <2> QED BY <1>1, <1>2, <1>4, <1>7, <2>1 DEF AbortersOrdered
  <1> QED BY <1>9, <1>10, <1>11, <1>12, <1>13

\* handle_task_abort: th goes on with the first task it has drained.
AbortsFirst(th) ==
    LET v == Head(victims[th])
    IN  /\ pc[th] \in {"abort_each", "abort_kill"}
        /\ cancelled' = cancelled \cup {v}
        /\ killed' \subseteq killed \cup {v}
        /\ \/ victims' = victims /\ pc' = [pc EXCEPT ![th] = "abort_kill"]
           \/ /\ victims' = [victims EXCEPT ![th] = Tail(@)]
              /\ pc' = [pc EXCEPT ![th] = AbortNext(th, Tail(victims[th]))]
        /\ UNCHANGED <<active, tasks, tgt, why>>

\* The task it has dealt with stays doomed, because it is cancelled.
LEMMA AbortsFirstInv ==
    ASSUME ControlInv, ControlTypeOK', NEW th \in Threads, AbortsFirst(th)
    PROVE  ControlInv'
  <1> USE DEF ControlInv
  <1> DEFINE v == Head(victims[th])
             rest == Tail(victims[th])
  <1>1. th \notin Turns /\ \A t \in Turns : t \in Threads /\ t # th
    BY DEF Threads, AbortersOrdered, AbortsFirst, AbortPcs
  <1>2. victims[th] \in Seq(Turns) /\ victims[th] # <<>>
    BY DEF AbortsFirst, AbortersOrdered, ControlTypeOK
  <1>3. /\ v \in Turns /\ rest \in Seq(Turns) /\ InSeq(v, victims[th])
        /\ \A u : InSeq(u, victims[th]) <=> u = v \/ InSeq(u, rest)
    BY <1>2, TailEntry
  <1>4. /\ victims'[th] = victims[th] \/ victims'[th] = rest
        /\ \A x \in Threads \ {th} : victims'[x] = victims[x]
    BY DEF AbortsFirst, ControlTypeOK
  <1>5. pc'[th] \in AbortPcs /\ \A x \in Threads \ {th} : pc'[x] = pc[x]
    BY DEF AbortsFirst, AbortNext, AbortPcs, ControlTypeOK
  <1>6. cancelled' = cancelled \cup {v} /\ killed' \subseteq killed \cup {v}
    BY DEF AbortsFirst
  <1>7. \A t \in Turns : BeingAborted(t)' \/ t = v <=> BeingAborted(t) \/ t = v
    BY <1>3, <1>4 DEF BeingAborted
  <1>8. BeingAborted(v)
    BY <1>3 DEF BeingAborted
  <1>9. \A t \in Turns : Doomed(t)' <=> Doomed(t)
    BY <1>6, <1>7, <1>8 DEF Doomed
  <1>10. UNCHANGED <<active, tasks, tgt, why>>
    BY DEF AbortsFirst
  <1>11. NoOrphanTask' /\ NoZombieTask'
    BY <1>1, <1>5, <1>9, <1>10 DEF NoOrphanTask, NoZombieTask, InActiveTurn
  <1>12. OneEntryPerTask'
    BY <1>10 DEF OneEntryPerTask
  <1>13. DoomedWereBorn'
    BY <1>1, <1>5, <1>6, <1>9 DEF DoomedWereBorn
  <1>14. TargetsFresh'
    <2>1. \A x \in Threads : tgt[x] # NoTurn => tgt[x] \in Turns
      BY DEF ControlTypeOK
    <2>2. pc[th] \in AbortPcs
      BY DEF AbortsFirst, AbortPcs
    <2>3. \A x \in Threads : tgt'[x] # NoTurn => pc'[tgt'[x]] = "unborn"
      BY <1>1, <1>5, <1>10, <2>1 DEF TargetsFresh
    <2>4. \A y, x \in Threads : y # x /\ tgt'[y] # NoTurn => tgt'[y] # tgt'[x]
      BY <1>10 DEF TargetsFresh
    <2>5. \A x \in Threads : pc'[x] \in StartTaskPcs => tgt'[x] # NoTurn
      BY <1>5, <1>10 DEF TargetsFresh, StartTaskPcs, AbortPcs
    <2>6. \A x \in Threads : pc'[x] \in AbortPcs /\ why'[x] = "Replaced" => tgt'[x] # NoTurn
      BY <1>5, <1>10, <2>2 DEF TargetsFresh
    <2> QED BY <2>3, <2>4, <2>5, <2>6 DEF TargetsFresh
  <1>15. AbortersOrdered'
    <2>1. victims'[th] # <<>> <=> pc'[th] \in {"abort_each", "abort_kill"}
      BY <1>2 DEF AbortsFirst, AbortNext, ControlTypeOK
    <2>2. pc'[th] = "abort_kill" => victims'[th] = victims[th]
      BY DEF AbortsFirst, AbortNext, ControlTypeOK
    <2> QED BY <1>1, <1>4, <1>5, <1>6, <2>1, <2>2 DEF AbortersOrdered
  <1> QED BY <1>11, <1>12, <1>13, <1>14, <1>15

\* add_task: the target begins to run, as a task of the installed turn.
LEMMA StartSpawnInv ==
    ASSUME ControlInv, NEW th \in Threads, StartSpawn(th)
    PROVE  ControlInv'
  <1> USE DEF ControlInv
  <1> DEFINE t == tgt[th]
  <1>1. NoTurn \notin Turns /\ NoObj \notin Objs /\ \A u \in Turns : u \in Threads
    BY SentinelsAssumption DEF Threads
  <1>2. t \in Turns /\ pc[t] = "unborn" /\ t # th /\ t \in Threads
    <2>1. pc[th] = "start_spawn"
      BY DEF StartSpawn
    <2>2. t # NoTurn
      BY <2>1 DEF TargetsFresh, StartTaskPcs
    <2>3. t \in Turns
      BY <2>2 DEF ControlTypeOK
    <2> QED BY <1>1, <2>1, <2>2, <2>3 DEF TargetsFresh
  <1>3. ~Doomed(t) /\ ~InActiveTurn(t)
    BY <1>2 DEF DoomedWereBorn, NoZombieTask, BodyPcs
  <1>4. /\ pc'[t] = "begin" /\ pc'[th] \in {"done", "exited", "ready"}
        /\ \A x \in Threads \ {th, t} : pc'[x] = pc[x]
        /\ pc' \in [Threads -> Pcs]
    BY <1>2 DEF StartSpawn, ControlTypeOK, Pcs, BodyPcs
  <1>5. /\ tgt'[th] = NoTurn /\ \A x \in Threads \ {th} : tgt'[x] = tgt[x]
        /\ why'[th] = "none" /\ \A x \in Threads \ {th} : why'[x] = why[x]
        /\ UNCHANGED <<cancelled, killed, ended, kind, ops, closing, granted, victims>>
        /\ tgt' = [tgt EXCEPT ![th] = NoTurn]
        /\ obj' = [obj EXCEPT ![th] = NoObj]
        /\ why' = [why EXCEPT ![th] = "none"]
    BY DEF StartSpawn, ControlTypeOK, signals, params, env
  <1>6. PICK o \in Objs, s \in Seq(Turns) :
            /\ active' = o /\ tasks' = [tasks EXCEPT ![o] = Append(s, t)]
            /\ \A u : InSeq(u, s) <=> InActiveTurn(u)
            /\ Injective(s)
            /\ approvals' \in [Objs -> SUBSET Turns]
    <2>1. CASE active # NoObj
      <3>1. /\ active' = active /\ tasks' = [tasks EXCEPT ![active] = Append(@, t)]
            /\ approvals' = approvals
        BY <2>1 DEF StartSpawn, turnState
      <3>2. active \in Objs /\ tasks[active] \in Seq(Turns)
        BY <2>1 DEF ControlTypeOK
      <3>3. tasks' = [tasks EXCEPT ![active] = Append(tasks[active], t)]
        BY <3>1, <3>2
      <3>4. Injective(tasks[active]) /\ \A u : InSeq(u, tasks[active]) <=> InActiveTurn(u)
        BY <2>1 DEF OneEntryPerTask, InActiveTurn
      <3>5. approvals' \in [Objs -> SUBSET Turns]
        BY <3>1 DEF ControlTypeOK
      <3> QED BY <3>1, <3>2, <3>3, <3>4, <3>5
    <2>2. CASE active = NoObj
      <3>1. /\ FreshObj \in Objs /\ active' = FreshObj
            /\ tasks' = [tasks EXCEPT ![FreshObj] = <<t>>]
            /\ approvals' = [approvals EXCEPT ![FreshObj] = {}]
        BY <2>2, FreshObjIsFresh DEF StartSpawn
      <3>2. <<>> \in Seq(Turns) /\ <<t>> = Append(<<>>, t)
        BY <1>2
      <3>3. Injective(<<>>) /\ \A u : InSeq(u, <<>>) <=> InActiveTurn(u)
        BY <2>2 DEF Injective, InSeq, InActiveTurn
      <3>4. approvals' \in [Objs -> SUBSET Turns]
        BY <3>1 DEF ControlTypeOK
      <3> QED BY <3>1, <3>2, <3>3, <3>4
    <2> QED BY <2>1, <2>2
  <1>7. /\ Append(s, t) \in Seq(Turns) /\ Injective(Append(s, t))
        /\ \A u : InSeq(u, Append(s, t)) <=> InActiveTurn(u) \/ u = t
    BY <1>2, <1>3, <1>6, AppendEntry
  <1>8. active' # NoObj /\ tasks'[active'] = Append(s, t)
        /\ tasks' \in [Objs -> Seq(Turns)]
    BY <1>1, <1>6, <1>7 DEF ControlTypeOK
  <1>9. \A u \in Turns : InActiveTurn(u)' <=> InActiveTurn(u) \/ u = t
    BY <1>7, <1>8 DEF InActiveTurn
  <1>10. \A u \in Turns : Doomed(u)' <=> Doomed(u)
    BY <1>5 DEF Doomed, BeingAborted
  <1>11. ControlTypeOK'
    BY <1>4, <1>5, <1>6, <1>8 DEF ControlTypeOK, Reasons
  <1>12. NoOrphanTask'
    BY <1>1, <1>4, <1>9, <1>10 DEF NoOrphanTask, BodyPcs
  <1>13. NoZombieTask'
    <2>1. pc[th] = "start_spawn"
      BY DEF StartSpawn
    <2> QED BY <1>1, <1>3, <1>4, <1>9, <1>10, <2>1 DEF NoZombieTask, BodyPcs
  <1>14. OneEntryPerTask'
    BY <1>7, <1>8 DEF OneEntryPerTask
  <1>15. DoomedWereBorn'
    BY <1>1, <1>4, <1>5, <1>10 DEF DoomedWereBorn
  <1>16. TargetsFresh'
    <2>1. \A x \in Threads \ {th} : tgt'[x] = tgt[x] /\ tgt[x] # t
      BY <1>1, <1>2, <1>5 DEF TargetsFresh
    <2>2. \A x \in Threads : tgt'[x] # NoTurn => tgt'[x] \in Turns /\ tgt'[x] # t
                                                 /\ pc[tgt'[x]] = "unborn"
      BY <1>5, <2>1 DEF TargetsFresh, ControlTypeOK
    <2>3. \A x \in Threads : tgt'[x] # NoTurn => pc'[tgt'[x]] = "unborn"
      <3>1. pc[th] # "unborn"
        BY DEF StartSpawn
      <3> QED BY <1>1, <1>4, <2>2, <3>1
    <2>4. \A y, x \in Threads : y # x /\ tgt'[y] # NoTurn => tgt'[y] # tgt'[x]
      BY <1>5 DEF TargetsFresh
    <2>5. \A x \in Threads : pc'[x] \in StartTaskPcs => tgt'[x] # NoTurn
      BY <1>2, <1>4, <1>5 DEF TargetsFresh, StartTaskPcs
    <2>6. \A x \in Threads : pc'[x] \in AbortPcs /\ why'[x] = "Replaced" => tgt'[x] # NoTurn
      BY <1>2, <1>4, <1>5 DEF TargetsFresh, AbortPcs
    <2> QED BY <2>3, <2>4, <2>5, <2>6 DEF TargetsFresh
  <1>17. AbortersOrdered'
    <2>1. pc[th] = "start_spawn"
      BY DEF StartSpawn
    <2>2. victims[th] = <<>> /\ victims[t] = <<>>
      BY <1>2, <2>1 DEF AbortersOrdered
    <2> QED BY <1>1, <1>2, <1>4, <1>5, <2>2 DEF AbortersOrdered, AbortPcs
  <1> QED BY <1>11, <1>12, <1>13, <1>14, <1>15, <1>16, <1>17

\* remove_task: a task that leaves the installed turn is past its body. When
\* the slot holds another turn, or none, nothing is removed.
LEMMA FinishRemoveInv ==
    ASSUME ControlInv, NEW t \in Turns, FinishRemove(t)
    PROVE  ControlInv'
  <1> USE DEF ControlInv
  <1>1. t \in Threads /\ NoObj \notin Objs /\ pc[t] = "fin_remove" /\ \A u \in Turns : u \in Threads
    BY SentinelsAssumption DEF Threads, FinishRemove
  <1>2. /\ pc'[t] \in {"fin_take", "fin_record"}
        /\ \A x \in Threads \ {t} : pc'[x] = pc[x]
        /\ pc' \in [Threads -> Pcs]
    BY <1>1 DEF FinishRemove, Goto, ControlTypeOK, Pcs, FinPcs
  <1>3. UNCHANGED <<active, approvals, cancelled, killed, ended, kind, ops, closing, granted,
                    tgt, victims, why>>
    BY DEF FinishRemove, turnState, signals, params, env
  <1>4. /\ tasks' \in [Objs -> Seq(Turns)]
        /\ obj' \in [Threads -> Objs \cup {NoObj}]
        /\ \A u : InActiveTurn(u)' <=> InActiveTurn(u) /\ u # t
        /\ OneEntryPerTask'
    <2>1. CASE active # NoObj
      <3> DEFINE left == SwapRemove(tasks[active], t)
      <3>1. active \in Objs /\ tasks[active] \in Seq(Turns) /\ Injective(tasks[active])
        BY <2>1 DEF ControlTypeOK, OneEntryPerTask
      <3>2. /\ tasks' = [tasks EXCEPT ![active] = left]
            /\ obj' = [obj EXCEPT ![t] = IF left = <<>> THEN active ELSE NoObj]
        BY <2>1 DEF FinishRemove
      <3>3. /\ left \in Seq(Turns) /\ Injective(left)
            /\ \A u : InSeq(u, left) <=> InSeq(u, tasks[active]) /\ u # t
        BY <3>1, SwapRemoveEntry
      <3> HIDE DEF left
      <3>4. tasks'[active] = left /\ tasks' \in [Objs -> Seq(Turns)]
        BY <3>1, <3>2, <3>3 DEF ControlTypeOK
      <3>5. obj' \in [Threads -> Objs \cup {NoObj}]
        BY <3>1, <3>2 DEF ControlTypeOK
      <3> QED BY <1>3, <2>1, <3>3, <3>4, <3>5 DEF InActiveTurn, OneEntryPerTask
    <2>2. CASE active = NoObj
      <3>1. UNCHANGED <<tasks, obj>>
        BY <2>2 DEF FinishRemove
      <3> QED BY <1>3, <2>2, <3>1 DEF InActiveTurn, OneEntryPerTask, ControlTypeOK
    <2> QED BY <2>1, <2>2
  <1>5. \A u \in Turns : Doomed(u)' <=> Doomed(u)
    BY <1>3 DEF Doomed, BeingAborted
  <1>6. ControlTypeOK'
    BY <1>2, <1>3, <1>4 DEF ControlTypeOK
  <1>7. NoOrphanTask' /\ NoZombieTask'
    BY <1>1, <1>2, <1>4, <1>5 DEF NoOrphanTask, NoZombieTask, BodyPcs
  <1>8. DoomedWereBorn'
    BY <1>1, <1>2, <1>3, <1>5 DEF DoomedWereBorn
  <1>9. TargetsFresh'
    <2>1. \A x \in Threads : tgt[x] # NoTurn => tgt[x] \in Turns
      BY DEF ControlTypeOK
    <2> QED BY <1>1, <1>2, <1>3, <2>1 DEF TargetsFresh, StartTaskPcs, AbortPcs
  <1>10. AbortersOrdered'
    BY <1>1, <1>2, <1>3 DEF AbortersOrdered, AbortPcs
  <1> QED BY <1>4, <1>6, <1>7, <1>8, <1>9, <1>10

-----------------------------------------------------------------------------
\* A new session has no active turn and no task.
LEMMA ControlInit ==
    Init => ControlInv
  <1> SUFFICES ASSUME Init PROVE ControlInv
    OBVIOUS
  <1> USE DEF Init
  <1>0. /\ Loop \notin Turns /\ NoTurn \notin Turns /\ NoObj \notin Objs /\ MaxOps \in Nat
        /\ \A t \in Turns : t \in Threads
    BY ThreadsAssumption, SentinelsAssumption, InputsAssumption DEF Threads
  <1>1. ControlTypeOK
    <2>1. /\ active \in Objs \cup {NoObj} /\ tasks \in [Objs -> Seq(Turns)]
          /\ approvals \in [Objs -> SUBSET Turns]
          /\ ended \in [Turns -> Seq({"TurnComplete", "TurnAborted"})]
          /\ victims \in [Threads -> Seq(Turns)]
      OBVIOUS
    <2>2. /\ cancelled \subseteq Turns /\ killed \subseteq Turns /\ granted \subseteq Turns
          /\ kind \in [Turns -> Kinds] /\ why \in [Threads -> Reasons]
          /\ tgt \in [Threads -> Turns \cup {NoTurn}] /\ obj \in [Threads -> Objs \cup {NoObj}]
      BY DEF Kinds, Reasons
    <2>3. ops \in 0 .. MaxOps
      BY <1>0
    <2>5. closing \in BOOLEAN
      OBVIOUS
    <2>4. pc \in [Threads -> Pcs]
      BY DEF Pcs
    <2> QED BY <2>1, <2>2, <2>3, <2>4, <2>5 DEF ControlTypeOK
  <1>2. \A t \in Turns : pc[t] = "unborn"
    BY <1>0
  <1>3. \A t \in Turns : ~InActiveTurn(t) /\ ~Doomed(t)
    BY DEF InActiveTurn, Doomed, BeingAborted, InSeq
  <1>4. NoOrphanTask /\ NoZombieTask /\ OneEntryPerTask /\ DoomedWereBorn
    BY <1>2, <1>3 DEF NoOrphanTask, NoZombieTask, OneEntryPerTask, DoomedWereBorn, BodyPcs
  <1>5. \A th \in Threads : pc[th] \in {"unborn", "ready"} /\ tgt[th] = NoTurn
                            /\ victims[th] = <<>>
    OBVIOUS
  <1>6. TargetsFresh /\ AbortersOrdered
    BY <1>0, <1>5 DEF TargetsFresh, AbortersOrdered, StartTaskPcs, AbortPcs
  <1> QED BY <1>1, <1>4, <1>6 DEF ControlInv

\* The procedures the threads share: the two steps of an abort and the start
\* of a task touch the tasks, the others are quiet.
LEMMA ProcedureInv ==
    ASSUME ControlInv, NEW th \in Threads, Procedure(th)
    PROVE  ControlInv'
  <1>1. CASE AbortTake(th) /\ HasActiveTask
    <2>1. /\ active' = NoObj /\ tasks' = [tasks EXCEPT ![active] = <<>>]
          /\ obj' = [obj EXCEPT ![th] = active]
          /\ victims' = [victims EXCEPT ![th] = tasks[active]]
          /\ pc[th] = "abort_take" /\ pc' = [pc EXCEPT ![th] = "abort_each"]
          /\ UNCHANGED <<approvals, cancelled, killed, ended, kind, ops, closing, granted>>
          /\ UNCHANGED <<tgt, why>>
      BY <1>1 DEF AbortTake, Goto, turnState, signals, params, env
    <2>2. th \in Threads \ Turns
      BY <2>1 DEF ControlInv, AbortersOrdered, AbortPcs
    <2>3. ControlTypeOK'
      <3>1. active \in Objs /\ tasks[active] \in Seq(Turns)
        BY <1>1 DEF HasActiveTask, ControlInv, ControlTypeOK
      <3>2. tasks' \in [Objs -> Seq(Turns)] /\ victims' \in [Threads -> Seq(Turns)]
        BY <2>1, <3>1 DEF ControlInv, ControlTypeOK
      <3>3. /\ pc' \in [Threads -> Pcs] /\ obj' \in [Threads -> Objs \cup {NoObj}]
            /\ why' \in [Threads -> Reasons]
        BY <2>1, <3>1 DEF ControlInv, ControlTypeOK, Pcs, AbortPcs, Reasons
      <3> QED BY <2>1, <3>2, <3>3 DEF ControlInv, ControlTypeOK
    <2>4. DrainsTasks(th)
      BY <1>1, <2>1 DEF DrainsTasks, ControlInv, TargetsFresh, AbortPcs
    <2> QED BY <2>2, <2>3, <2>4, DrainsTasksInv
  <1>2. CASE AbortCancel(th)
    <2>1. pc[th] = "abort_each" /\ victims[th] \in Seq(Turns) /\ victims[th] # <<>>
      BY <1>2 DEF AbortCancel, ControlInv, AbortersOrdered, ControlTypeOK
    <2>2. Head(victims[th]) \in Turns /\ Tail(victims[th]) \in Seq(Turns)
      BY <2>1, TailEntry
    <2>3. AbortsFirst(th)
      BY <1>2 DEF AbortCancel, AbortsFirst, Goto, slot
    <2>4. UNCHANGED <<approvals, ended, kind, ops, closing, granted, obj>>
      BY <1>2 DEF AbortCancel, turnState, params, env
    <2>5. ControlTypeOK'
      BY ZenonT(40), <2>2, <2>3, <2>4 DEF ControlInv, ControlTypeOK, AbortsFirst, AbortNext, Pcs, AbortPcs
    <2> QED BY <2>3, <2>5, AbortsFirstInv
  <1>3. CASE AbortKill(th)
    <2>1. pc[th] = "abort_kill" /\ victims[th] \in Seq(Turns) /\ victims[th] # <<>>
          /\ Head(victims[th]) \in cancelled
      BY <1>3 DEF AbortKill, ControlInv, AbortersOrdered, ControlTypeOK
    <2>2. Head(victims[th]) \in Turns /\ Tail(victims[th]) \in Seq(Turns)
      BY <2>1, TailEntry
    <2>3. AbortsFirst(th)
      BY <1>3, <2>1 DEF AbortKill, AbortsFirst, Goto, slot
    <2>4. /\ ended' = [ended EXCEPT ![Head(victims[th])] = Append(@, "TurnAborted")]
          /\ UNCHANGED <<approvals, kind, ops, closing, granted, obj>>
      BY <1>3 DEF AbortKill, turnState, params, env
    <2>5. ended' \in [Turns -> Seq({"TurnComplete", "TurnAborted"})]
      BY <2>2, <2>4 DEF ControlInv, ControlTypeOK
    <2>6. ControlTypeOK'
      BY ZenonT(40), <2>2, <2>3, <2>4, <2>5 DEF ControlInv, ControlTypeOK, AbortsFirst, AbortNext, Pcs, AbortPcs
    <2> QED BY <2>3, <2>6, AbortsFirstInv
  <1>4. CASE StartSpawn(th)
    BY <1>4, StartSpawnInv
  <1> QED BY <1>1, <1>2, <1>3, <1>4, ProcedureIsQuiet, QuietMoveInv DEF Procedure

\* The scheduler is quiet; abort_turn_if_active drains the tasks.
LEMMA ExternalInv ==
    ASSUME ControlInv, External
    PROVE  ControlInv'
  <1>0. Guardian \in Threads \ Turns /\ Background \in Threads
    BY ThreadsAssumption DEF Threads
  <1>1. ASSUME NEW t \in Turns, AbortTurnIfActive(t)
        PROVE  ControlInv'
    <2>1. /\ active' = NoObj /\ tasks' = [tasks EXCEPT ![active] = <<>>]
          /\ obj' = [obj EXCEPT ![Guardian] = active]
          /\ victims' = [victims EXCEPT ![Guardian] = tasks[active]]
          /\ why' = [why EXCEPT ![Guardian] = "Interrupted"]
          /\ pc[Guardian] = "ready" /\ pc' = [pc EXCEPT ![Guardian] = "abort_each"]
          /\ UNCHANGED <<approvals, cancelled, killed, ended, kind, ops, closing, granted, tgt>>
      BY <1>1 DEF AbortTurnIfActive, Goto, turnState, signals, params, env
    <2>2. HasActiveTask
      BY <1>1 DEF AbortTurnIfActive, HasActiveTask, InSeq
    <2>3. ControlTypeOK'
      <3>1. active \in Objs /\ tasks[active] \in Seq(Turns)
        BY <2>2 DEF HasActiveTask, ControlInv, ControlTypeOK
      <3>2. /\ tasks' \in [Objs -> Seq(Turns)]
            /\ victims' \in [Threads -> Seq(Turns)]
        <4>1. tasks \in [Objs -> Seq(Turns)] /\ victims \in [Threads -> Seq(Turns)]
          BY DEF ControlInv, ControlTypeOK
        <4>2. tasks' \in [Objs -> Seq(Turns)]
          BY <2>1, <3>1, <4>1
        <4>3. victims' \in [Threads -> Seq(Turns)]
          BY <2>1, <3>1, <4>1
        <4> QED BY <4>2, <4>3
      <3>3. /\ pc' \in [Threads -> Pcs] /\ obj' \in [Threads -> Objs \cup {NoObj}]
            /\ why' \in [Threads -> Reasons]
        BY <2>1, <3>1 DEF ControlInv, ControlTypeOK, Pcs, AbortPcs, Reasons
      <3> QED BY <2>1, <3>2, <3>3 DEF ControlInv, ControlTypeOK
    <2>4. DrainsTasks(Guardian)
      BY <1>0, <2>1, <2>2 DEF DrainsTasks, ControlInv, ControlTypeOK
    <2> QED BY <1>0, <2>3, <2>4, DrainsTasksInv
  <1> QED BY <1>0, <1>1, BackgroundIsQuiet, QuietMoveInv DEF External

\* The invariant is inductive.
LEMMA ControlNext ==
    ASSUME ControlInv, [Next]_vars
    PROVE  ControlInv'
  <1>0. Loop \in Threads /\ \A t \in Turns : t \in Threads
    BY DEF Threads
  <1>1. CASE Submission
    BY <1>0, <1>1, SubmissionIsQuiet, QuietMoveInv
  <1>2. CASE External
    BY <1>2, ExternalInv
  <1>3. ASSUME NEW th \in Threads, Procedure(th)
        PROVE  ControlInv'
    BY <1>3, ProcedureInv
  <1>4. ASSUME NEW t \in Turns, Body(t)
        PROVE  ControlInv'
    BY <1>0, <1>4, BodyIsQuiet, QuietMoveInv
  <1>5. ASSUME NEW t \in Turns, Finish(t) \/ Die(t)
        PROVE  ControlInv'
    BY <1>0, <1>5, FinishIsQuiet, FinishRemoveInv, QuietMoveInv DEF Finish
  <1>6. CASE UNCHANGED vars
    BY <1>6 DEF vars, slot, turnState, queues, signals, params, log, env, locals,
       ControlInv, ControlTypeOK, NoOrphanTask, NoZombieTask, OneEntryPerTask,
       DoomedWereBorn, TargetsFresh, AbortersOrdered, InActiveTurn, Doomed, BeingAborted
  <1> QED BY <1>1, <1>2, <1>3, <1>4, <1>5, <1>6 DEF Next

\* The control state keeps its types and the invariant that makes the two
\* theorems below inductive.
THEOREM ControlCorrect == Spec => []ControlInv
  BY ControlInit, ControlNext, PTL DEF Spec

\* For any number of turns and any schedule: a running task can be found by
\* abort_all_tasks and steer_input, or is being aborted.
THEOREM NoOrphan == Spec => []NoOrphanTask
  <1>1. ControlInv => NoOrphanTask
    BY DEF ControlInv
  <1> QED BY <1>1, ControlCorrect, PTL

\* For any number of turns and any schedule: a task of the installed ActiveTurn
\* is running and nobody has begun to abort it.
THEOREM NoZombie == Spec => []NoZombieTask
  <1>1. ControlInv => NoZombieTask
    BY DEF ControlInv
  <1> QED BY <1>1, ControlCorrect, PTL

-----------------------------------------------------------------------------
(* Terminal events.                                                        *)

\* A cancelled task has its terminal event, or the thread that cancelled it
\* waits for it and sends TurnAborted next. This is what lets another aborter
\* skip a task that is already cancelled.
CancelledIsTold ==
    \A t \in cancelled : \/ ended[t] # <<>>
                         \/ \E th \in Threads : pc[th] = "abort_kill" /\ Head(victims[th]) = t

EndsInv == NoSilentEnd /\ CancelledIsTold

\* Where a turn need not have been told about its end.
Untold == BodyPcs \cup {"unborn", "fin_take", "fin_record"}

\* The thread that waits for a cancelled task is aborting it.
LEMMA CancelledIsAborted ==
    ASSUME ControlInv, CancelledIsTold, NEW t \in cancelled
    PROVE  ended[t] # <<>> \/ BeingAborted(t)
  <1>1. ASSUME NEW th \in Threads, pc[th] = "abort_kill", Head(victims[th]) = t
        PROVE  BeingAborted(t)
    <2>1. victims[th] \in Seq(Turns) /\ victims[th] # <<>>
      BY <1>1 DEF ControlInv, ControlTypeOK, AbortersOrdered
    <2> QED BY <1>1, <2>1, TailEntry DEF BeingAborted
  <1> QED BY <1>1 DEF CancelledIsTold

\* A step that moves one thread, and no thread that waits for a task, keeps the
\* invariant when it ends a turn only after telling it.
LEMMA EndsMove ==
    ASSUME ControlInv, EndsInv, NEW th \in Threads,
           UNCHANGED <<cancelled, victims>>,
           \A t \in Turns : ended[t] # <<>> => ended'[t] # <<>>,
           \A x \in Threads \ {th} : pc'[x] = pc[x],
           pc[th] # "abort_kill",
           pc'[th] \notin Untold
               => pc[th] \notin Untold \/ th \in cancelled \/ th \notin Turns \/ ended'[th] # <<>>
    PROVE  EndsInv'
  <1>0. cancelled \subseteq Turns /\ \A t \in Turns : t \in Threads
    BY DEF ControlInv, ControlTypeOK, Threads
  <1>1. \A t \in Turns : BeingAborted(t)' <=> BeingAborted(t)
    BY DEF BeingAborted
  <1>2. CancelledIsTold'
    BY <1>0 DEF EndsInv, CancelledIsTold
  <1>3. ASSUME NEW t \in Turns, pc'[t] \notin Untold
        PROVE  ended'[t] # <<>> \/ BeingAborted(t)'
    <2>1. CASE t \in cancelled
      BY <2>1, <1>1, CancelledIsAborted DEF EndsInv
    <2>2. CASE pc[t] \notin Untold
      BY <2>2, <1>1 DEF EndsInv, NoSilentEnd, Untold
    <2> QED BY <1>0, <1>3, <2>1, <2>2
  <1> QED BY <1>2, <1>3 DEF EndsInv, NoSilentEnd, Untold

\* The first victim of th is cancelled, or gets its event and is dropped.
LEMMA EndsAbort ==
    ASSUME ControlInv, EndsInv, NEW th \in Threads, AbortCancel(th) \/ AbortKill(th)
    PROVE  EndsInv'
  <1>8. PICK v : v = Head(victims[th])
    OBVIOUS
  <1>9. PICK rest : rest = Tail(victims[th])
    OBVIOUS
  <1>1. /\ th \notin Turns /\ \A t \in Turns : t \in Threads
        /\ pc \in [Threads -> Pcs] /\ victims \in [Threads -> Seq(Turns)]
        /\ cancelled \subseteq Turns
        /\ ended \in [Turns -> Seq({"TurnComplete", "TurnAborted"})]
    BY DEF Threads, AbortCancel, AbortKill, ControlInv, ControlTypeOK, AbortersOrdered, AbortPcs
  <1>2. victims[th] \in Seq(Turns) /\ victims[th] # <<>>
    BY <1>1 DEF AbortCancel, AbortKill, ControlInv, AbortersOrdered
  <1>3. v \in Turns /\ \A u : InSeq(u, victims[th]) <=> u = v \/ InSeq(u, rest)
    BY <1>2, <1>8, <1>9, TailEntry
  <1>4. /\ \A x \in Threads \ {th} : pc'[x] = pc[x] /\ victims'[x] = victims[x]
        /\ \A u \in Turns : u # v => ended'[u] = ended[u]
        /\ ended[v] # <<>> => ended'[v] # <<>>
        /\ victims'[th] = victims[th] \/ victims'[th] = rest
    BY <1>1, <1>3, <1>8, <1>9 DEF AbortCancel, AbortKill, Goto
  <1>5. \A u \in Turns : u # v /\ BeingAborted(u) => BeingAborted(u)'
    BY <1>3, <1>4 DEF BeingAborted
  <1>6. CancelledIsTold' /\ (ended'[v] # <<>> \/ BeingAborted(v)')
    <2>1. CASE AbortKill(th)
      <3>1. ended'[v] = Append(ended[v], "TurnAborted") /\ cancelled' = cancelled
            /\ v \in cancelled
        BY <2>1, <1>1, <1>3, <1>8 DEF AbortKill, ControlInv, AbortersOrdered
      <3>2. ended'[v] # <<>>
        <4>1. ended[v] \in Seq({"TurnComplete", "TurnAborted"})
          BY <1>1, <1>3
        <4>2. Append(ended[v], "TurnAborted") # <<>>
          BY <4>1
        <4> QED BY <3>1, <4>2
      <3> QED BY <3>1, <3>2, <1>1, <1>4, <1>8 DEF EndsInv, CancelledIsTold
    <2>2. CASE AbortCancel(th) /\ v \in cancelled
      <3>1. cancelled' = cancelled /\ pc[th] = "abort_each"
        BY <2>2, <1>8 DEF AbortCancel
      <3>2. ASSUME NEW u \in cancelled, ended'[u] = <<>>
            PROVE  \E x \in Threads : x # th /\ pc'[x] = "abort_kill" /\ Head(victims'[x]) = u
        BY <3>1, <3>2, <1>1, <1>4 DEF EndsInv, CancelledIsTold
      <3>3. CancelledIsTold'
        BY <3>1, <3>2 DEF CancelledIsTold
      <3>4. ended'[v] = <<>> => BeingAborted(v)'
        <4> SUFFICES ASSUME ended'[v] = <<>> PROVE BeingAborted(v)'
          OBVIOUS
        <4>1. PICK x \in Threads : x # th /\ pc'[x] = "abort_kill" /\ Head(victims'[x]) = v
          BY <2>2, <3>2
        <4>2. pc[x] = "abort_kill" /\ victims'[x] = victims[x]
          BY <4>1, <1>4
        <4>3. victims[x] \in Seq(Turns) /\ victims[x] # <<>>
          BY <4>2, <1>1 DEF ControlInv, AbortersOrdered
        <4>4. InSeq(v, victims'[x])
          BY <4>1, <4>2, <4>3, TailEntry
        <4> QED BY <4>4 DEF BeingAborted
      <3> QED BY <3>3, <3>4
    <2>3. CASE AbortCancel(th) /\ v \notin cancelled
      <3>1. /\ cancelled' = cancelled \cup {v} /\ victims' = victims /\ ended' = ended
            /\ pc'[th] = "abort_kill" /\ pc[th] = "abort_each"
        BY <2>3, <1>1, <1>8 DEF AbortCancel, Goto
      <3>2. CancelledIsTold'
        BY <3>1, <1>4, <1>8 DEF EndsInv, CancelledIsTold
      <3> QED BY <3>1, <3>2, <1>3 DEF BeingAborted
    <2> QED BY <2>1, <2>2, <2>3
  <1>7. ASSUME NEW t \in Turns, pc'[t] \notin Untold
        PROVE  ended'[t] # <<>> \/ BeingAborted(t)'
    <2>1. ended[t] # <<>> \/ BeingAborted(t)
      BY <1>1, <1>4, <1>7 DEF EndsInv, NoSilentEnd, Untold
    <2> QED BY <2>1, <1>4, <1>5, <1>6
  <1> QED BY <1>6, <1>7 DEF EndsInv, NoSilentEnd, Untold

\* Draining the slot gives th victims where it had none.
LEMMA EndsDrain ==
    ASSUME ControlInv, EndsInv, NEW th \in Threads \ Turns, DrainsTasks(th), ended' = ended
    PROVE  EndsInv'
  <1>1. /\ victims[th] = <<>> /\ pc[th] # "abort_kill"
        /\ \A t \in Turns : t \in Threads /\ t # th
        /\ cancelled \subseteq Turns
    BY DEF DrainsTasks, ControlInv, ControlTypeOK, AbortersOrdered, Threads
  <1>2. \A x \in Threads \ {th} : pc'[x] = pc[x] /\ victims'[x] = victims[x]
    BY DEF DrainsTasks, ControlInv, ControlTypeOK
  <1>3. \A t \in Turns : BeingAborted(t) => BeingAborted(t)'
    BY <1>1, <1>2 DEF BeingAborted, InSeq
  <1>4. CancelledIsTold'
    BY <1>1, <1>2 DEF EndsInv, CancelledIsTold, DrainsTasks
  <1> QED BY <1>1, <1>2, <1>3, <1>4 DEF EndsInv, NoSilentEnd

\* Each step of the procedures, ...
LEMMA ProcedureEnds ==
    ASSUME ControlInv, EndsInv, NEW th \in Threads, Procedure(th)
    PROVE  EndsInv'
  <1>0. pc \in [Threads -> Pcs] /\ tgt \in [Threads -> Turns \cup {NoTurn}]
    BY DEF ControlInv, ControlTypeOK
  <1>1. CASE AbortTake(th) /\ HasActiveTask
    <2>1. /\ th \in Threads \ Turns
      BY <1>1 DEF AbortTake, ControlInv, AbortersOrdered, AbortPcs
    <2>2. DrainsTasks(th) /\ ended' = ended
      BY <1>1 DEF AbortTake, Goto, DrainsTasks, ControlInv, TargetsFresh, AbortPcs, signals
    <2> QED BY <2>1, <2>2, EndsDrain
  <1>2. CASE AbortCancel(th) \/ AbortKill(th)
    BY <1>2, EndsAbort
  <1>3. CASE StartSpawn(th)
    <2>1. /\ ended' = ended /\ cancelled' = cancelled /\ victims' = victims
          /\ pc[th] = "start_spawn" /\ pc'[tgt[th]] = "begin"
          /\ \A x \in Threads \ {th, tgt[th]} : pc'[x] = pc[x]
      <3>1. tgt[th] \in Threads
        BY <1>0, <1>3 DEF StartSpawn, ControlInv, TargetsFresh, StartTaskPcs, Threads
      <3> QED BY <1>0, <1>3, <3>1 DEF StartSpawn, signals
    <2>2. pc[tgt[th]] = "unborn"
      BY <1>3 DEF StartSpawn, ControlInv, TargetsFresh, StartTaskPcs
    <2>3. CancelledIsTold'
      BY <2>1, <2>2 DEF EndsInv, CancelledIsTold
    <2>4. \A t \in Turns : t \in Threads /\ (BeingAborted(t)' <=> BeingAborted(t))
      BY <2>1 DEF BeingAborted, Threads
    <2>5. NoSilentEnd'
      BY <2>1, <2>4 DEF EndsInv, NoSilentEnd, BodyPcs
    <2> QED BY <2>3, <2>5 DEF EndsInv
  <1>4. CASE \/ AbortTake(th) /\ ~HasActiveTask
             \/ AbortPending(th) \/ AbortClear(th) \/ QueueItems(th)
             \/ MaybeStartIdle(th) \/ MaybeStartMail(th) \/ MaybeStartReserve(th)
             \/ StartTakeIdle(th) \/ StartTakePending(th) \/ StartDrainMailbox(th)
             \/ StartGetTurn(th) \/ StartPush(th)
    <2>1. QuietMove(th)
      BY <1>4, ProcedureIsQuiet
    <2>2. ended' = ended /\ pc[th] \in AbortPcs \cup StartPcs
      BY <1>4 DEF AbortTake, AbortPending, AbortClear, QueueItems, MaybeStartIdle,
         MaybeStartMail, MaybeStartReserve, StartTakeIdle, StartTakePending, TakePending,
         StartDrainMailbox, DrainMailbox, StartGetTurn, StartPush, signals, AbortPcs, StartPcs
    <2>3. pc[th] \notin Untold
      BY <2>2 DEF Untold, AbortPcs, StartPcs, BodyPcs
    <2> QED BY <2>1, <2>2, <2>3, EndsMove DEF QuietMove
  <1> QED BY <1>1, <1>2, <1>3, <1>4 DEF Procedure

\* ... of the body of a task ...
LEMMA BodyEnds ==
    ASSUME ControlInv, EndsInv, NEW t \in Turns, Body(t)
    PROVE  EndsInv'
  <1>1. t \in Threads /\ QuietMove(t)
    BY BodyIsQuiet DEF Threads
  <1>2. ended' = ended /\ pc[t] \in BodyPcs
    BY DEF Body, RunStandalone, PrewarmCancelled, BeginWithInput, BeginWithoutInput,
       EnterRunTurn, ReturnFromRunTurn, SessionStartHookStops, DrainTurn, TakePending, DrainMail,
       DrainMailbox, InspectPending, ToolCall, FollowUp, RequestApproval, ReceiveApproval,
       ApprovalCancelled, AssistantMessage, ResponseCompleted, SamplingFails, AfterAnswer,
       StopHookContinues, RegularTaskLoop, AfterRun, BodyUnchanged, signals, BodyPcs
  <1>3. pc'[t] \in Untold \/ t \in cancelled
    BY <1>1, <1>2 DEF QuietMove, Untold
  <1> QED BY <1>1, <1>2, <1>3, EndsMove DEF QuietMove

\* ... and of its end.
LEMMA FinishEnds ==
    ASSUME ControlInv, EndsInv, NEW t \in Turns, Finish(t) \/ Die(t)
    PROVE  EndsInv'
  <1>0. /\ t \in Threads /\ pc \in [Threads -> Pcs] /\ killed \subseteq cancelled
        /\ ended \in [Turns -> Seq({"TurnComplete", "TurnAborted"})]
    BY DEF Threads, ControlInv, ControlTypeOK, DoomedWereBorn
  <1>1. CASE FinishRemove(t)
    <2>1. /\ UNCHANGED <<cancelled, victims, ended>> /\ pc[t] = "fin_remove"
          /\ pc'[t] \in {"fin_take", "fin_record"} /\ \A x \in Threads \ {t} : pc'[x] = pc[x]
      BY <1>0, <1>1 DEF FinishRemove, Goto, signals
    <2> QED BY <1>0, <2>1, EndsMove DEF Untold
  <1>2. CASE FinishRecord(t)
    <2>1. /\ UNCHANGED <<cancelled, victims>> /\ pc[t] = "fin_record"
          /\ ended' = [ended EXCEPT ![t] = Append(@, "TurnComplete")]
          /\ \A x \in Threads \ {t} : pc'[x] = pc[x]
      BY <1>0, <1>2 DEF FinishRecord, Goto
    <2>2. ended'[t] # <<>>
      BY <1>0, <2>1
    <2> QED BY <1>0, <2>1, <2>2, EndsMove
  <1>3. CASE FinishTakePending(t) \/ FinishClear(t) \/ Die(t)
    <2>1. /\ UNCHANGED <<cancelled, victims, ended>> /\ pc[t] # "abort_kill"
          /\ \A x \in Threads \ {t} : pc'[x] = pc[x]
          /\ pc'[t] = "fin_record" \/ pc[t] = "fin_clear" \/ t \in killed
      BY <1>0, <1>3 DEF FinishTakePending, FinishClear, Die, Goto, signals, ControlInv,
         AbortersOrdered, AbortPcs
    <2>2. pc'[t] \notin Untold => pc[t] \notin Untold \/ t \in cancelled
      BY <1>0, <2>1 DEF Untold, BodyPcs
    <2> QED BY <1>0, <2>1, <2>2, EndsMove
  <1> QED BY <1>1, <1>2, <1>3 DEF Finish

\* The invariant of the terminal events is inductive.
LEMMA EndsNext ==
    ASSUME ControlInv, EndsInv, [Next]_vars
    PROVE  EndsInv'
  <1>0. /\ Loop \in Threads \ Turns /\ Background \in Threads \ Turns
        /\ Guardian \in Threads \ Turns
    BY ThreadsAssumption DEF Threads
  <1>1. CASE Submission
    <2>1. QuietMove(Loop)
      BY <1>1, SubmissionIsQuiet
    <2>2. ended' = ended
      BY <1>1 DEF Submission, SteerInput, SteerRefused, UserTurn, StandaloneTask,
         InterAgentCommunication, ApproveDeniedAction, ExecApproval, Interrupt, Shutdown, signals
    <2> QED BY <1>0, <2>1, <2>2, EndsMove DEF QuietMove
  <1>2. CASE \/ \E i \in SchedItems : FireScheduledPrompt(i)
             \/ \E i \in AuxItems : AuxiliaryOutput(i)
    <2>1. QuietMove(Background)
      BY <1>2, BackgroundIsQuiet
    <2>2. ended' = ended
      BY <1>2 DEF FireScheduledPrompt, AuxiliaryOutput, signals
    <2> QED BY <1>0, <2>1, <2>2, EndsMove DEF QuietMove
  <1>3. ASSUME NEW t \in Turns, AbortTurnIfActive(t)
        PROVE  EndsInv'
    <2>1. DrainsTasks(Guardian)
      BY <1>0, <1>3 DEF AbortTurnIfActive, DrainsTasks, HasActiveTask, InSeq, Goto, signals,
         ControlInv, ControlTypeOK
    <2>2. ended' = ended
      BY <1>3 DEF AbortTurnIfActive, signals
    <2> QED BY <1>0, <2>1, <2>2, EndsDrain
  <1>4. CASE UNCHANGED vars
    BY <1>4 DEF vars, signals, locals, EndsInv, NoSilentEnd, CancelledIsTold, BeingAborted
  <1> QED BY <1>1, <1>2, <1>3, <1>4, ProcedureEnds, BodyEnds, FinishEnds DEF Next, External

\* For any number of turns and any schedule: a turn that is over was told so, or
\* the thread that drained its task is still about to send TurnAborted.
THEOREM NoEndIsSilent == Spec => []NoSilentEnd
  <1>1. Init => EndsInv
    BY ThreadsAssumption DEF Init, EndsInv, NoSilentEnd, CancelledIsTold, Threads
  <1>2. EndsInv => NoSilentEnd
    BY DEF EndsInv
  <1> QED BY <1>1, <1>2, EndsNext, ControlCorrect, PTL DEF Spec

-----------------------------------------------------------------------------
(* The queues. A thread that reads the pending input of an ActiveTurn      *)
(* through its own reference has one.                                      *)

ObjPcs == {"abort_each", "abort_kill", "abort_pending", "abort_clear", "start_push", "fin_take"}
ObjHeld == \A th \in Threads : pc[th] \in ObjPcs => obj[th] \in Objs

\* Only th moves, besides a task that begins; where it goes it has what it needs.
HoldsObj(th) ==
    /\ \A x \in Threads \ {th} : pc'[x] \in {pc[x], "begin"} /\ obj'[x] = obj[x]
    /\ pc'[th] \in ObjPcs => obj'[th] \in Objs

\* Such a move keeps ObjHeld.
LEMMA HoldsObjInv ==
    ASSUME ObjHeld, NEW th \in Threads, HoldsObj(th)
    PROVE  ObjHeld'
  BY DEF ObjHeld, HoldsObj, ObjPcs

\* The body of a task never holds an ActiveTurn across an await.
LEMMA BodyHoldsObj ==
    ASSUME ControlTypeOK, NEW t \in Turns, Body(t)
    PROVE  HoldsObj(t)
  <1>1. t \in Threads
    BY DEF Threads
  <1>2. PICK label : pc' = [pc EXCEPT ![t] = label] /\ label \notin ObjPcs /\ UNCHANGED obj
    <2> USE DEF Goto, locals, ObjPcs, BodyUnchanged
    <2>1. CASE DrainTurn(t) \/ DrainMail(t) \/ InspectPending(t)
      BY <2>1 DEF DrainTurn, DrainMail, InspectPending, TakePending, DrainMailbox
    <2>2. CASE \/ RunStandalone(t) \/ PrewarmCancelled(t) \/ BeginWithInput(t)
               \/ BeginWithoutInput(t) \/ EnterRunTurn(t) \/ ReturnFromRunTurn(t)
               \/ SessionStartHookStops(t)
      BY <2>2 DEF RunStandalone, PrewarmCancelled, BeginWithInput, BeginWithoutInput,
                  EnterRunTurn, ReturnFromRunTurn, SessionStartHookStops
    <2>3. CASE \/ ToolCall(t) \/ FollowUp(t) \/ RequestApproval(t) \/ ReceiveApproval(t)
               \/ ApprovalCancelled(t) \/ ResponseCompleted(t) \/ SamplingFails(t)
      BY <2>3 DEF ToolCall, FollowUp, RequestApproval, ReceiveApproval, ApprovalCancelled,
                  ResponseCompleted, SamplingFails
    <2>5. CASE AssistantMessage(t)
      BY <1>1, <2>5 DEF AssistantMessage, ControlTypeOK
    <2>4. CASE \/ AfterAnswer(t) \/ StopHookContinues(t) \/ RegularTaskLoop(t) \/ AfterRun(t)
      BY <2>4 DEF AfterAnswer, StopHookContinues, RegularTaskLoop, AfterRun
    <2> QED BY <2>1, <2>2, <2>3, <2>4, <2>5 DEF Body
  <1> QED BY <1>1, <1>2 DEF HoldsObj, ControlTypeOK

\* Nor does the handler of an Op before its first step.
LEMMA SubmissionHoldsObj ==
    ASSUME ControlTypeOK, Submission
    PROVE  HoldsObj(Loop)
  <1>1. Loop \in Threads /\ obj \in [Threads -> Objs \cup {NoObj}]
    BY DEF Threads, ControlTypeOK
  <1>2. UNCHANGED obj /\ pc[Loop] = "ready"
    BY DEF Submission, SteerInput, SteerRefused, UserTurn, InterAgentCommunication,
       ApproveDeniedAction, StandaloneTask, ExecApproval, Interrupt, Shutdown, locals
  <1>3. \E label \in {"ready", "abort_take", "maybe_idle", "queue"} :
            pc' = [pc EXCEPT ![Loop] = label]
    <2>1. UNCHANGED pc => pc' = [pc EXCEPT ![Loop] = "ready"]
      BY <1>1, <1>2 DEF ControlTypeOK
    <2> QED BY <2>1 DEF Submission, SteerInput, SteerRefused, UserTurn,
                InterAgentCommunication, ApproveDeniedAction, StandaloneTask, ExecApproval,
                Interrupt, Shutdown, SpawnTask, Goto
  <1> QED BY <1>1, <1>2, <1>3 DEF HoldsObj, ObjPcs, ControlTypeOK

\* abort_turn_if_active keeps the turn it has taken.
LEMMA ExternalHoldsObj ==
    ASSUME ControlTypeOK, External
    PROVE  HoldsObj(Background) \/ HoldsObj(Guardian)
  <1>0. Background \in Threads /\ Guardian \in Threads
    BY DEF Threads
  <1> USE DEF HoldsObj, ObjPcs, ControlTypeOK, Goto, locals
  <1>1. CASE \E i \in SchedItems : FireScheduledPrompt(i)
    BY <1>0, <1>1 DEF FireScheduledPrompt
  <1>2. CASE \E i \in AuxItems : AuxiliaryOutput(i)
    BY <1>0, <1>2 DEF AuxiliaryOutput
  <1>3. CASE \E t \in Turns : AbortTurnIfActive(t)
    BY <1>0, <1>3 DEF AbortTurnIfActive
  <1> QED BY <1>1, <1>2, <1>3 DEF External

\* An abort keeps the turn it has taken, a start the one it has installed.
LEMMA ProcedureHoldsObj ==
    ASSUME ControlTypeOK, ObjHeld, NEW th \in Threads, Procedure(th)
    PROVE  HoldsObj(th)
  <1> USE DEF HoldsObj, ObjPcs, ObjHeld, ControlTypeOK, Goto, locals
  <1>1. CASE AbortTake(th)
    BY <1>1 DEF AbortTake, HasActiveTask, Return
  <1>2. CASE AbortCancel(th)
    BY <1>2 DEF AbortCancel
  <1>3. CASE AbortKill(th)
    BY <1>3 DEF AbortKill
  <1>4. CASE AbortPending(th) \/ AbortClear(th)
    BY <1>4 DEF AbortPending, AbortClear
  <1>5. CASE QueueItems(th) \/ MaybeStartIdle(th) \/ MaybeStartMail(th)
    BY <1>5 DEF QueueItems, MaybeStartIdle, MaybeStartMail, Return
  <1>6. CASE MaybeStartReserve(th)
    BY <1>6 DEF MaybeStartReserve, Return
  <1>7. CASE StartTakeIdle(th) \/ StartTakePending(th) \/ StartDrainMailbox(th)
    BY <1>7 DEF StartTakeIdle, StartTakePending, StartDrainMailbox, TakePending, DrainMailbox
  <1>8. CASE StartGetTurn(th)
    BY <1>8, FreshObjIsFresh DEF StartGetTurn
  <1>9. CASE StartPush(th)
    BY <1>9 DEF StartPush
  <1>10. CASE StartSpawn(th)
    BY <1>10 DEF StartSpawn
  <1> QED BY <1>1, <1>2, <1>3, <1>4, <1>5, <1>6, <1>7, <1>8, <1>9, <1>10 DEF Procedure

\* on_task_finished keeps the turn it has removed its task from.
LEMMA FinishHoldsObj ==
    ASSUME ControlTypeOK, NEW t \in Turns, Finish(t) \/ Die(t)
    PROVE  HoldsObj(t)
  <1>0. t \in Threads
    BY DEF Threads
  <1> USE DEF HoldsObj, ObjPcs, ControlTypeOK, Goto
  <1>1. CASE FinishRemove(t)
    BY <1>0, <1>1 DEF FinishRemove
  <1>2. CASE FinishTakePending(t)
    BY <1>0, <1>2 DEF FinishTakePending
  <1>3. CASE FinishRecord(t)
    BY <1>0, <1>3 DEF FinishRecord
  <1>4. CASE FinishClear(t)
    BY <1>0, <1>4 DEF FinishClear
  <1>5. CASE Die(t)
    BY <1>0, <1>5 DEF Die
  <1> QED BY <1>1, <1>2, <1>3, <1>4, <1>5 DEF Finish

\* ObjHeld is inductive.
LEMMA ObjHeldNext ==
    ASSUME ControlTypeOK, ObjHeld, [Next]_vars
    PROVE  ObjHeld'
  <1>0. /\ Loop \in Threads /\ Background \in Threads /\ Guardian \in Threads
        /\ \A t \in Turns : t \in Threads
    BY DEF Threads
  <1>1. CASE Submission \/ External
    BY <1>0, <1>1, SubmissionHoldsObj, ExternalHoldsObj, HoldsObjInv
  <1>2. ASSUME NEW th \in Threads, Procedure(th)
        PROVE  ObjHeld'
    BY <1>2, ProcedureHoldsObj, HoldsObjInv
  <1>3. ASSUME NEW t \in Turns, Body(t) \/ Finish(t) \/ Die(t)
        PROVE  ObjHeld'
    BY <1>0, <1>3, BodyHoldsObj, FinishHoldsObj, HoldsObjInv
  <1>4. CASE UNCHANGED vars
    BY <1>4 DEF vars, locals, ObjHeld
  <1> QED BY <1>1, <1>2, <1>3, <1>4 DEF Next

\* Where the items of a queue go when it is cut and joined again.
LEMMA ItemSeqs ==
    /\ <<>> \in Seq(Items)
    /\ \A i \in Items : <<i>> \in Seq(Items)
    /\ \A r, s \in Seq(Items) : r \o s \in Seq(Items)
    /\ \A s \in Seq(Items), i \in Items : Append(s, i) \in Seq(Items)
    /\ \A s \in Seq(Items) : {s[k] : k \in DOMAIN s} \subseteq Items
  <1>1. \A s \in Seq(Items) : {s[k] : k \in DOMAIN s} \subseteq Items
    BY ElementOfSeq, LenProperties
  <1> QED BY <1>1, ConcatProperties, AppendProperties

\* What InspectPending keeps, and puts back, is made of items.
LEMMA ItemSubSeqs ==
    ASSUME NEW s \in Seq(Items), NEW n \in 0 .. Len(s)
    PROVE  /\ SubSeq(s, 1, n) \in Seq(Items)
           /\ SubSeq(s, n + 2, Len(s)) \in Seq(Items)
           /\ n < Len(s) => SubSeq(s, n + 1, n + 1)[1] \in Items
  <1>1. Len(s) \in Nat /\ n \in Int /\ Len(s) \in Int /\ \A k \in 1 .. Len(s) : s[k] \in Items
    BY ElementOfSeq, LenProperties
  <1>2. SubSeq(s, 1, n) \in Seq(Items)
    <2>1. \A k \in 1 .. n : s[k] \in Items
      BY <1>1
    <2> QED BY <1>1, <2>1, SubSeqProperties
  <1>3. SubSeq(s, n + 2, Len(s)) \in Seq(Items)
    <2>1. n + 2 \in Int /\ \A k \in n + 2 .. Len(s) : s[k] \in Items
      BY <1>1
    <2> QED BY <1>1, <2>1, SubSeqProperties
  <1>4. ASSUME n < Len(s)
        PROVE  SubSeq(s, n + 1, n + 1)[1] \in Items
    <2>1. n + 1 \in Int /\ s[n + 1] \in Items /\ \A k \in n + 1 .. n + 1 : s[k] \in Items
      BY <1>1, <1>4
    <2>2. \A i \in 1 .. (n + 1) - (n + 1) + 1 : SubSeq(s, n + 1, n + 1)[i] = s[(n + 1) + i - 1]
      BY <2>1, SubSeqProperties
    <2>3. SubSeq(s, n + 1, n + 1)[1] = s[n + 1]
      BY <1>1, <2>2
    <2> QED BY <2>1, <2>3
  <1> QED BY <1>2, <1>3, <1>4

\* The types of the queues, group by group of actions: the Ops ...
LEMMA SubmissionData ==
    ASSUME ControlTypeOK, DataTypeOK, Submission
    PROVE  DataTypeOK'
  <1> USE DEF DataTypeOK, slot, turnState, queues, params, log, env, locals
  <1>0. Loop \in Threads /\ NoObj \notin Objs /\ active \in Objs \cup {NoObj}
        /\ UserItems \subseteq Items /\ MailItems \subseteq Items /\ DeniedItems \subseteq Items
    BY SentinelsAssumption DEF Threads, ControlTypeOK, Items
  <1>1. ASSUME NEW i \in UserItems, SteerInput(i)
        PROVE  DataTypeOK'
    <2>1. active \in Objs
      BY <1>0, <1>1 DEF SteerInput, HasActiveTask
    <2> QED BY <1>0, <1>1, <2>1, ItemSeqs DEF SteerInput
  <1>2. ASSUME NEW i \in UserItems, SteerRefused(i)
        PROVE  DataTypeOK'
    BY <1>0, <1>2 DEF SteerRefused
  <1>3. ASSUME NEW i \in UserItems, UserTurn(i)
        PROVE  DataTypeOK'
    BY <1>0, <1>3, ItemSeqs DEF UserTurn, SpawnTask
  <1>4. ASSUME NEW i \in MailItems, InterAgentCommunication(i)
        PROVE  DataTypeOK'
    BY <1>0, <1>4, ItemSeqs DEF InterAgentCommunication
  <1>5. ASSUME NEW i \in DeniedItems, ApproveDeniedAction(i)
        PROVE  DataTypeOK'
    <2>1. CASE active # NoObj
      <3>1. /\ i \in Items /\ active \in Objs /\ pend[active] \in Seq(Items)
            /\ pend' = [pend EXCEPT ![active] = Append(@, i)] /\ unsent' = unsent \ {i}
            /\ UNCHANGED <<phase, idle, mailbox, input, hand, recorded, refused>>
        BY <1>0, <1>5, <2>1 DEF ApproveDeniedAction
      <3>2. Append(pend[active], i) \in Seq(Items)
        BY <3>1, ItemSeqs
      <3> QED BY <3>1, <3>2
    <2>2. CASE active = NoObj
      <3>1. /\ i \in Items /\ hand' = [hand EXCEPT ![Loop] = <<i>>]
            /\ unsent' = unsent \ {i}
            /\ UNCHANGED <<pend, phase, idle, mailbox, input, recorded, refused>>
        BY <1>0, <1>5, <2>2 DEF ApproveDeniedAction
      <3> QED BY <3>1, ItemSeqs
    <2> QED BY <2>1, <2>2
  <1>6. ASSUME NEW k \in StandaloneKinds, StandaloneTask(k)
        PROVE  DataTypeOK'
    BY <1>6, ItemSeqs DEF StandaloneTask, SpawnTask
  <1>7. CASE (\E t \in Turns : ExecApproval(t)) \/ Interrupt \/ Shutdown
    BY <1>7 DEF ExecApproval, Interrupt, Shutdown
  <1> QED BY <1>1, <1>2, <1>3, <1>4, <1>5, <1>6, <1>7 DEF Submission

\* ... the scheduler and the guardian ...
LEMMA ExternalData ==
    ASSUME ControlTypeOK, DataTypeOK, External
    PROVE  DataTypeOK'
  <1> USE DEF DataTypeOK, slot, turnState, queues, params, log, env, locals
  <1>0. /\ Background \in Threads /\ active \in Objs \cup {NoObj}
        /\ SchedItems \subseteq Items /\ AuxItems \subseteq Items
    BY DEF Threads, ControlTypeOK, Items
  <1>1. ASSUME NEW i \in SchedItems, FireScheduledPrompt(i)
        PROVE  DataTypeOK'
    BY <1>0, <1>1, ItemSeqs DEF FireScheduledPrompt
  <1>2. ASSUME NEW i \in AuxItems, AuxiliaryOutput(i)
        PROVE  DataTypeOK'
    <2>1. CASE active # NoObj
      <3>1. /\ i \in Items /\ active \in Objs /\ pend[active] \in Seq(Items)
            /\ pend' = [pend EXCEPT ![active] = Append(@, i)] /\ unsent' = unsent \ {i}
            /\ UNCHANGED <<phase, idle, mailbox, input, hand, recorded, refused>>
        BY <1>0, <1>2, <2>1 DEF AuxiliaryOutput
      <3>2. Append(pend[active], i) \in Seq(Items)
        BY <3>1, ItemSeqs
      <3> QED BY <3>1, <3>2
    <2>2. CASE active = NoObj
      BY <1>0, <1>2, <2>2, ItemSeqs DEF AuxiliaryOutput
    <2> QED BY <2>1, <2>2
  <1>3. CASE \E t \in Turns : AbortTurnIfActive(t)
    BY <1>3 DEF AbortTurnIfActive
  <1> QED BY <1>1, <1>2, <1>3 DEF External

\* ... get_pending_input ...
LEMMA TakePendingData ==
    ASSUME ControlTypeOK, DataTypeOK, NEW th \in Threads, NEW mailLabel, NEW doneLabel,
           TakePending(th, mailLabel, doneLabel)
    PROVE  DataTypeOK'
  <1> USE DEF DataTypeOK, slot, queues, params, log, env, TakePending
  <1>0. active \in Objs \cup {NoObj}
    BY DEF ControlTypeOK
  <1>1. CASE active # NoObj
    <2>1. /\ hand' = [hand EXCEPT ![th] = @ \o pend[active]]
          /\ pend' = [pend EXCEPT ![active] = <<>>]
          /\ UNCHANGED <<phase, idle, mailbox, input, unsent, recorded, refused>>
      BY <1>1
    <2>2. active \in Objs /\ pend[active] \in Seq(Items) /\ hand[th] \in Seq(Items)
      BY <1>0, <1>1
    <2>3. hand[th] \o pend[active] \in Seq(Items)
      BY <2>2, ItemSeqs
    <2> QED BY <2>1, <2>2, <2>3, ItemSeqs
  <1>2. CASE active = NoObj
    BY <1>2, ItemSeqs
  <1> QED BY <1>1, <1>2

\* ... the shared procedures ...
LEMMA ProcedureData ==
    ASSUME ControlTypeOK, ObjHeld, DataTypeOK, NEW th \in Threads, Procedure(th)
    PROVE  DataTypeOK'
  <1> USE DEF DataTypeOK, slot, turnState, queues, params, log, env, locals
  <1>0. active \in Objs \cup {NoObj} /\ (pc[th] \in ObjPcs => obj[th] \in Objs)
    BY DEF ControlTypeOK, ObjHeld
  <1>1. CASE AbortTake(th)
    BY <1>1, ItemSeqs DEF AbortTake, Return
  <1>2. CASE AbortCancel(th) \/ AbortKill(th)
    BY <1>2 DEF AbortCancel, AbortKill
  <1>3. CASE AbortPending(th)
    BY <1>0, <1>3, ItemSeqs DEF AbortPending, ObjPcs
  <1>4. CASE AbortClear(th)
    BY <1>0, <1>4, ItemSeqs DEF AbortClear, ObjPcs
  <1>5. CASE QueueItems(th)
    BY <1>5, ItemSeqs DEF QueueItems, Return
  <1>6. CASE MaybeStartIdle(th) \/ MaybeStartMail(th)
    BY <1>6, ItemSeqs DEF MaybeStartIdle, MaybeStartMail, Return
  <1>7. CASE MaybeStartReserve(th)
    <2>1. CASE active # NoObj
      BY <1>7, <2>1, ItemSeqs DEF MaybeStartReserve, Return
    <2>2. CASE active = NoObj
      <3>1. /\ FreshObj \in Objs
            /\ pend' = [pend EXCEPT ![FreshObj] = <<>>]
            /\ phase' = [phase EXCEPT ![FreshObj] = "CurrentTurn"]
            /\ input' = [input EXCEPT ![FreshTurn] = <<>>]
            /\ UNCHANGED <<idle, mailbox, hand, unsent, recorded, refused>>
        BY <1>7, <2>2, FreshObjIsFresh DEF MaybeStartReserve, InstallFresh
      <3> QED BY <3>1, ItemSeqs
    <2> QED BY <2>1, <2>2
  <1>8. CASE StartTakeIdle(th)
    BY <1>8, ItemSeqs DEF StartTakeIdle
  <1>9. CASE StartTakePending(th)
    BY <1>9, TakePendingData DEF StartTakePending
  <1>10. CASE StartDrainMailbox(th)
    BY <1>10, ItemSeqs DEF StartDrainMailbox, DrainMailbox
  <1>11. CASE StartGetTurn(th)
    BY <1>11, ItemSeqs, FreshObjIsFresh DEF StartGetTurn, InstallFresh
  <1>12. CASE StartPush(th)
    BY <1>0, <1>12, ItemSeqs DEF StartPush, ObjPcs
  <1>13. CASE StartSpawn(th)
    BY <1>13, ItemSeqs, FreshObjIsFresh DEF StartSpawn
  <1> QED BY <1>1, <1>2, <1>3, <1>4, <1>5, <1>6, <1>7, <1>8, <1>9, <1>10, <1>11, <1>12,
             <1>13 DEF Procedure

\* ... the body of a task ...
LEMMA BodyData ==
    ASSUME ControlTypeOK, DataTypeOK, NEW t \in Turns, Body(t)
    PROVE  DataTypeOK'
  <1> USE DEF DataTypeOK, slot, turnState, queues, params, log, env, locals, BodyUnchanged
  <1>0. t \in Threads /\ active \in Objs \cup {NoObj}
    BY DEF Threads, ControlTypeOK
  <1>1. CASE \/ RunStandalone(t) \/ BeginWithoutInput(t) \/ EnterRunTurn(t)
             \/ ReturnFromRunTurn(t) \/ FollowUp(t) \/ RequestApproval(t)
             \/ ReceiveApproval(t) \/ ApprovalCancelled(t) \/ SamplingFails(t)
             \/ ResponseCompleted(t) \/ PrewarmCancelled(t) \/ SessionStartHookStops(t)
    BY <1>1 DEF ResponseCompleted, PrewarmCancelled, SessionStartHookStops, RunStandalone,
                BeginWithoutInput, EnterRunTurn, ReturnFromRunTurn, FollowUp, RequestApproval, ReceiveApproval, ApprovalCancelled, SamplingFails
  <1>2. CASE \/ AfterAnswer(t) \/ StopHookContinues(t) \/ RegularTaskLoop(t) \/ AfterRun(t)
    BY <1>2 DEF AfterAnswer, StopHookContinues, RegularTaskLoop, AfterRun
  <1>3. CASE ToolCall(t) \/ AssistantMessage(t)
    BY <1>0, <1>3 DEF ToolCall, AssistantMessage
  <1>4. CASE BeginWithInput(t)
    <2>1. input[t] \in Seq(Items) /\ input[t] # <<>>
      BY <1>4 DEF BeginWithInput
    <2>2. Head(input[t]) \in Items
      BY <2>1
    <2> QED BY <1>4, <2>2, ItemSeqs DEF BeginWithInput
  <1>5. CASE DrainTurn(t)
    BY <1>0, <1>5, TakePendingData DEF DrainTurn
  <1>6. CASE DrainMail(t)
    BY <1>0, <1>6, ItemSeqs DEF DrainMail, DrainMailbox
  <1>7. CASE InspectPending(t)
    <2> DEFINE accepted(n) == SubSeq(hand[t], 1, n)
               blocked(n)  == SubSeq(hand[t], n + 1, n + 1)
               rest(n)     == SubSeq(hand[t], n + 2, Len(hand[t]))
    <2>1. hand[t] \in Seq(Items)
      BY <1>0
    <2>2. PICK n \in 0 .. Len(hand[t]) :
              /\ recorded' = recorded \cup {accepted(n)[k] : k \in DOMAIN accepted(n)}
              /\ refused' = IF n < Len(hand[t]) THEN refused \cup {blocked(n)[1]} ELSE refused
              /\ pend' = IF active = NoObj THEN pend
                         ELSE [pend EXCEPT ![active] = rest(n) \o @]
      BY <1>7 DEF InspectPending
    <2>3. /\ accepted(n) \in Seq(Items) /\ rest(n) \in Seq(Items)
          /\ n < Len(hand[t]) => blocked(n)[1] \in Items
      BY <2>1, <2>2, ItemSubSeqs
    <2> HIDE DEF accepted, blocked, rest
    <2>4. recorded' \subseteq Items
      BY <2>2, <2>3, ItemSeqs
    <2>5. refused' \subseteq Items
      BY <2>2, <2>3
    <2>6. pend' \in [Objs -> Seq(Items)]
      BY <1>0, <2>2, <2>3, ItemSeqs
    <2>7. hand' \in [Threads -> Seq(Items)] /\ UNCHANGED <<phase, idle, mailbox, input, unsent>>
      BY <1>7, ItemSeqs DEF InspectPending
    <2> QED BY <2>4, <2>5, <2>6, <2>7
  <1> QED BY <1>1, <1>2, <1>3, <1>4, <1>5, <1>6, <1>7 DEF Body

\* ... and its end.
LEMMA FinishData ==
    ASSUME ControlTypeOK, ObjHeld, DataTypeOK, NEW t \in Turns, Finish(t) \/ Die(t)
    PROVE  DataTypeOK'
  <1> USE DEF DataTypeOK, slot, turnState, queues, params, log, env
  <1>0. t \in Threads /\ (pc[t] \in ObjPcs => obj[t] \in Objs)
    BY DEF Threads, ObjHeld
  <1>1. CASE FinishRemove(t) \/ FinishClear(t)
    BY <1>1 DEF FinishRemove, FinishClear
  <1>2. CASE FinishTakePending(t)
    BY <1>0, <1>2, ItemSeqs DEF FinishTakePending, ObjPcs
  <1>3. CASE FinishRecord(t)
    <2>1. {hand[t][k] : k \in DOMAIN hand[t]} \subseteq Items
      BY <1>0, ItemSeqs
    <2>2. recorded' \subseteq Items /\ refused' \subseteq Items
      BY <1>3, <2>1 DEF FinishRecord
    <2> QED BY <1>3, <2>2, ItemSeqs DEF FinishRecord
  <1>4. CASE Die(t)
    BY <1>4, ItemSeqs DEF Die
  <1> QED BY <1>1, <1>2, <1>3, <1>4 DEF Finish

\* The queues of a new session are empty.
LEMMA DataInit ==
    Init => DataTypeOK /\ ObjHeld
  <1> SUFFICES ASSUME Init PROVE DataTypeOK /\ ObjHeld
    OBVIOUS
  <1>1. DataTypeOK
    BY ItemSeqs DEF Init, DataTypeOK
  <1>2. ObjHeld
    BY DEF Init, ObjHeld, ObjPcs
  <1> QED BY <1>1, <1>2

\* The types of the queues are inductive.
LEMMA DataNext ==
    ASSUME ControlTypeOK, ObjHeld, DataTypeOK, [Next]_vars
    PROVE  DataTypeOK'
  <1>1. CASE UNCHANGED vars
    BY <1>1 DEF vars, turnState, queues, params, log, locals, DataTypeOK
  <1> QED BY <1>1, SubmissionData, ExternalData, ProcedureData, BodyData, FinishData DEF Next

\* Every queue, hand and log holds items of the outside world, and every local
\* of every thread has its type, for any number of turns and any schedule.
THEOREM TypeCorrect == Spec => []TypeOK
  <1>1. ControlInv => ControlTypeOK
    BY DEF ControlInv
  <1>2. Init => DataTypeOK /\ ObjHeld
    BY DataInit
  <1>3. ControlTypeOK /\ DataTypeOK /\ ObjHeld /\ [Next]_vars => DataTypeOK' /\ ObjHeld'
    BY DataNext, ObjHeldNext
  <1>4. ControlTypeOK /\ DataTypeOK => TypeOK
    BY DEF TypeOK
  <1> QED BY <1>1, <1>2, <1>3, <1>4, ControlCorrect, PTL DEF Spec

-----------------------------------------------------------------------------
(* Approvals.                                                              *)

\* A tool that waits for an answer has it, or the installed ActiveTurn holds its
\* sender, unless its turn is being aborted.
SenderKept ==
    \A t \in Turns : pc[t] = "approval" /\ ~Doomed(t)
                        => t \in granted \/ (active # NoObj /\ t \in approvals[active])

\* The ActiveTurn an aborter clears at the end is never installed again.
LettingGoPcs == {"abort_each", "abort_kill", "abort_pending", "abort_clear"}
AbortersLetGo == \A th \in Threads : pc[th] \in LettingGoPcs => obj[th] # active

ApprovalInv == SenderKept /\ AbortersLetGo

\* A drained task is cancelled before the list of its aborter forgets it.
LEMMA DoomedForever ==
    ASSUME ControlInv, [Next]_vars, NEW t \in Turns, Doomed(t)
    PROVE  Doomed(t)'
  <1> SUFFICES ASSUME t \notin cancelled' PROVE BeingAborted(t)'
    BY DEF Doomed
  <1>0. /\ Loop \in Threads /\ Background \in Threads /\ Guardian \in Threads \ Turns
        /\ \A u \in Turns : u \in Threads
    BY ThreadsAssumption DEF Threads
  <1>1. ASSUME UNCHANGED victims, cancelled \subseteq cancelled'
        PROVE  BeingAborted(t)'
    BY <1>1 DEF Doomed, BeingAborted
  <1>2. ASSUME NEW th \in Threads \ Turns, DrainsTasks(th)
        PROVE  BeingAborted(t)'
    <2>1. victims[th] = <<>> /\ \A x \in Threads \ {th} : victims'[x] = victims[x]
      BY <1>2 DEF DrainsTasks, ControlInv, ControlTypeOK, AbortersOrdered
    <2> QED BY <1>2, <2>1 DEF Doomed, BeingAborted, InSeq, DrainsTasks
  <1>3. ASSUME NEW th \in Threads, AbortCancel(th) \/ AbortKill(th)
        PROVE  BeingAborted(t)'
    <2>1. PICK v : v = Head(victims[th])
      OBVIOUS
    <2>2. PICK rest : rest = Tail(victims[th])
      OBVIOUS
    <2>3. /\ victims \in [Threads -> Seq(Turns)] /\ victims[th] # <<>>
          /\ AbortKill(th) => v \in cancelled
      BY <1>3, <2>1 DEF AbortCancel, AbortKill, ControlInv, ControlTypeOK, AbortersOrdered
    <2>4. \A u : InSeq(u, victims[th]) <=> u = v \/ InSeq(u, rest)
      BY <2>1, <2>2, <2>3, TailEntry
    <2>5. /\ v \in cancelled' /\ cancelled \subseteq cancelled'
          /\ victims'[th] = victims[th] \/ victims'[th] = rest
          /\ \A x \in Threads \ {th} : victims'[x] = victims[x]
      BY <1>3, <2>1, <2>2, <2>3 DEF AbortCancel, AbortKill
    <2> QED BY <2>4, <2>5 DEF Doomed, BeingAborted
  <1>4. CASE Submission
    BY <1>0, <1>1, <1>4, SubmissionIsQuiet DEF QuietMove
  <1>5. CASE External
    <2>1. ASSUME NEW u \in Turns, AbortTurnIfActive(u)
          PROVE  DrainsTasks(Guardian)
      BY <1>0, <2>1 DEF AbortTurnIfActive, DrainsTasks, HasActiveTask, InSeq, Goto, signals,
         ControlInv, ControlTypeOK
    <2> QED BY <1>0, <1>1, <1>2, <1>5, <2>1, BackgroundIsQuiet DEF External, QuietMove
  <1>6. ASSUME NEW th \in Threads, Procedure(th)
        PROVE  BeingAborted(t)'
    <2>1. CASE AbortTake(th) /\ HasActiveTask
      <3>1. th \in Threads \ Turns
        BY <2>1 DEF AbortTake, ControlInv, AbortersOrdered, AbortPcs
      <3>2. DrainsTasks(th)
        BY <2>1 DEF AbortTake, Goto, DrainsTasks, ControlInv, TargetsFresh, AbortPcs, signals
      <3> QED BY <3>1, <3>2, <1>2
    <2>2. CASE StartSpawn(th)
      BY <1>1, <2>2 DEF StartSpawn, signals
    <2>3. CASE AbortCancel(th) \/ AbortKill(th)
      BY <1>3, <2>3
    <2> QED BY <1>1, <1>6, <2>1, <2>2, <2>3, ProcedureIsQuiet DEF Procedure, QuietMove
  <1>7. ASSUME NEW u \in Turns, Body(u) \/ Finish(u) \/ Die(u)
        PROVE  BeingAborted(t)'
    <2>1. CASE FinishRemove(u)
      BY <1>1, <2>1 DEF FinishRemove, signals
    <2> QED BY <1>0, <1>1, <1>7, <2>1, BodyIsQuiet, FinishIsQuiet DEF Finish, QuietMove
  <1>8. CASE UNCHANGED vars
    BY <1>1, <1>8 DEF vars, signals, locals
  <1> QED BY <1>4, <1>5, <1>6, <1>7, <1>8 DEF Next

\* A step under which the slot keeps its ActiveTurn, or had or has no task, loses
\* no sender when it loses none of that ActiveTurn.
LEMMA SenderMove ==
    ASSUME ControlInv, [Next]_vars, SenderKept,
           active' = active \/ ~HasActiveTask \/ ~HasActiveTask',
           \A t \in Turns : pc'[t] = "approval" => pc[t] \in BodyPcs,
           \A t \in Turns : pc'[t] = "approval" /\ active' = active /\ InActiveTurn(t) =>
               \/ t \in approvals'[active]
               \/ /\ pc[t] = "approval" /\ (t \in granted => t \in granted')
                  /\ t \in approvals[active] => t \in approvals'[active] \cup granted'
    PROVE  SenderKept'
  <1> SUFFICES ASSUME NEW t \in Turns, pc'[t] = "approval", ~Doomed(t)'
               PROVE  t \in granted' \/ (active' # NoObj /\ t \in approvals'[active'])
    BY DEF SenderKept
  <1>1. ~Doomed(t) /\ ControlInv'
    BY DoomedForever, ControlNext
  <1>2. HasActiveTask'
    BY <1>1 DEF ControlInv, NoOrphanTask, BodyPcs, InActiveTurn, HasActiveTask, InSeq
  <1>3. InActiveTurn(t)
    BY <1>1 DEF ControlInv, NoOrphanTask
  <1>4. HasActiveTask /\ active' = active /\ active # NoObj
    BY <1>2, <1>3 DEF InActiveTurn, HasActiveTask, InSeq
  <1> QED BY <1>1, <1>3, <1>4 DEF SenderKept

\* The Ops: an answer takes the sender and hands it to the tool.
LEMMA SubmissionSender ==
    ASSUME ControlInv, SenderKept, Submission
    PROVE  SenderKept'
  <1>0. Loop \in Threads /\ Loop \notin Turns /\ [Next]_vars
    BY ThreadsAssumption DEF Threads, Next
  <1>1. QuietMove(Loop)
    BY SubmissionIsQuiet
  <1>2. \A t \in Turns : pc'[t] = pc[t] /\ (pc[t] = "approval" => pc[t] \in BodyPcs)
    BY <1>0, <1>1 DEF QuietMove, Threads, BodyPcs
  <1>3. \/ UNCHANGED <<approvals, granted>>
        \/ \E t \in Turns : /\ active # NoObj /\ granted' = granted \cup {t}
                            /\ approvals' = [approvals EXCEPT ![active] = @ \ {t}]
    BY DEF Submission, SteerInput, SteerRefused, UserTurn, StandaloneTask,
       InterAgentCommunication, ApproveDeniedAction, ExecApproval, Interrupt, Shutdown,
       turnState, env
  <1>4. active # NoObj => active \in Objs
    BY DEF ControlInv, ControlTypeOK
  <1>5. approvals \in [Objs -> SUBSET Turns]
    BY DEF ControlInv, ControlTypeOK
  <1>6. \A t \in Turns : InActiveTurn(t) =>
            /\ t \in granted => t \in granted'
            /\ t \in approvals[active] => t \in approvals'[active] \cup granted'
    BY <1>3, <1>4, <1>5 DEF InActiveTurn
  <1> QED BY <1>0, <1>1, <1>2, <1>6, SenderMove DEF QuietMove

\* The threads that shut down, start and hand over tasks: an aborter only drops
\* the senders of an ActiveTurn that is no longer installed.
LEMMA ProcedureSender ==
    ASSUME ControlInv, ObjHeld, ApprovalInv, NEW th \in Threads, Procedure(th)
    PROVE  SenderKept'
  <1>0. [Next]_vars /\ granted' = granted /\ (active # NoObj => active \in Objs)
    BY DEF Next, Procedure, AbortTake, AbortCancel, AbortKill, AbortPending, AbortClear,
       QueueItems, MaybeStartIdle, MaybeStartMail, MaybeStartReserve, StartTakeIdle,
       StartTakePending, TakePending, StartDrainMailbox, DrainMailbox, StartGetTurn, StartPush,
       StartSpawn, env, ControlInv, ControlTypeOK
  <1>1. active' = active => active = NoObj \/ approvals'[active] = approvals[active]
    <2>1. CASE AbortClear(th)
      BY <2>1 DEF AbortClear, ApprovalInv, AbortersLetGo, LettingGoPcs, ControlInv, ControlTypeOK
    <2>2. CASE MaybeStartReserve(th) \/ StartGetTurn(th) \/ StartSpawn(th)
      BY <2>2, FreshObjIsFresh DEF MaybeStartReserve, StartGetTurn, StartSpawn, InstallFresh,
         turnState, Live
    <2> QED BY <2>1, <2>2 DEF Procedure, AbortTake, AbortCancel, AbortKill, AbortPending,
                QueueItems, MaybeStartIdle, MaybeStartMail, StartTakeIdle,
                StartTakePending, TakePending, StartDrainMailbox, DrainMailbox, StartPush,
                turnState
  <1>2. active' = active \/ ~HasActiveTask \/ ~HasActiveTask'
    BY DEF Procedure, AbortTake, AbortCancel, AbortKill, AbortPending, AbortClear,
       QueueItems, MaybeStartIdle, MaybeStartMail, MaybeStartReserve, StartTakeIdle,
       StartTakePending, TakePending, StartDrainMailbox, DrainMailbox, StartGetTurn, StartPush,
       StartSpawn, slot, HasActiveTask
  <1>3. \A t \in Turns : pc'[t] = "approval" => pc[t] = "approval"
    <2>1. \A t \in Turns : t \in Threads
      BY DEF Threads
    <2>2. CASE StartSpawn(th)
      BY <2>1, <2>2 DEF StartSpawn, ControlInv, ControlTypeOK
    <2>3. CASE (AbortTake(th) /\ HasActiveTask) \/ AbortCancel(th) \/ AbortKill(th)
      BY <2>1, <2>3 DEF AbortTake, AbortCancel, AbortKill, AbortNext, Goto, ControlInv,
         ControlTypeOK
    <2>4. CASE \/ AbortTake(th) /\ ~HasActiveTask
               \/ AbortPending(th) \/ AbortClear(th) \/ QueueItems(th)
               \/ MaybeStartIdle(th) \/ MaybeStartMail(th) \/ MaybeStartReserve(th)
               \/ StartTakeIdle(th) \/ StartTakePending(th) \/ StartDrainMailbox(th)
               \/ StartGetTurn(th) \/ StartPush(th)
      <3>1. QuietMove(th)
        BY <2>4, ProcedureIsQuiet
      <3>2. pc[th] \notin BodyPcs
        BY <2>4 DEF AbortTake, AbortPending, AbortClear, QueueItems, MaybeStartIdle,
           MaybeStartMail, MaybeStartReserve, StartTakeIdle, StartTakePending,
           StartDrainMailbox, StartGetTurn, StartPush, BodyPcs
      <3>3. pc'[th] # "approval"
        BY <3>1, <3>2 DEF QuietMove, BodyPcs
      <3> QED BY <2>1, <3>1, <3>3 DEF QuietMove
    <2> QED BY <2>2, <2>3, <2>4 DEF Procedure
  <1> QED BY <1>0, <1>1, <1>2, <1>3, SenderMove DEF ApprovalInv, BodyPcs, InActiveTurn

\* The tools of a turn: a request is put where the turn is installed, and an
\* answer is consumed by the tool it is for.
LEMMA BodySender ==
    ASSUME ControlInv, SenderKept, NEW t \in Turns, Body(t)
    PROVE  SenderKept'
  <1>0. t \in Threads /\ [Next]_vars /\ QuietMove(t)
    BY BodyIsQuiet DEF Next, Threads
  <1>1. active' = active /\ pc[t] \in BodyPcs
    BY DEF Body, RunStandalone, PrewarmCancelled, BeginWithInput, BeginWithoutInput,
       EnterRunTurn, ReturnFromRunTurn, SessionStartHookStops, DrainTurn, TakePending, DrainMail,
       DrainMailbox, InspectPending, ToolCall, FollowUp, RequestApproval, ReceiveApproval,
       ApprovalCancelled, AssistantMessage, ResponseCompleted, SamplingFails, AfterAnswer,
       StopHookContinues, RegularTaskLoop, AfterRun, BodyUnchanged, slot, BodyPcs
  <1>2. \A u \in Turns \ {t} : u \in Threads /\ pc'[u] = pc[u]
    BY <1>0 DEF QuietMove, Threads
  <1>3. /\ approvals \in [Objs -> SUBSET Turns] /\ pc \in [Threads -> Pcs]
        /\ active # NoObj => active \in Objs
    BY DEF ControlInv, ControlTypeOK
  <1>4. CASE RequestApproval(t)
    <2>1. granted' = granted
      BY <1>4 DEF RequestApproval, BodyUnchanged, env
    <2>2. active # NoObj => approvals' = [approvals EXCEPT ![active] = @ \cup {t}]
      BY <1>4 DEF RequestApproval
    <2> QED BY <1>0, <1>1, <1>2, <1>3, <2>1, <2>2, SenderMove DEF BodyPcs, InActiveTurn
  <1>5. CASE ReceiveApproval(t)
    <2>1. /\ granted' = granted \ {t} /\ approvals' = approvals /\ pc'[t] = "tool"
      BY <1>0, <1>3, <1>5 DEF ReceiveApproval, Goto, turnState
    <2> QED BY <1>0, <1>1, <1>2, <2>1, SenderMove DEF BodyPcs
  <1>6. CASE \/ RunStandalone(t) \/ PrewarmCancelled(t) \/ BeginWithInput(t)
             \/ BeginWithoutInput(t) \/ EnterRunTurn(t) \/ ReturnFromRunTurn(t)
             \/ SessionStartHookStops(t) \/ DrainTurn(t) \/ DrainMail(t) \/ InspectPending(t)
             \/ ToolCall(t) \/ FollowUp(t) \/ ApprovalCancelled(t) \/ AssistantMessage(t)
             \/ ResponseCompleted(t) \/ SamplingFails(t) \/ AfterAnswer(t)
             \/ StopHookContinues(t) \/ RegularTaskLoop(t) \/ AfterRun(t)
    <2>1. UNCHANGED <<approvals, granted>>
      BY <1>6 DEF RunStandalone, PrewarmCancelled, BeginWithInput, BeginWithoutInput,
         EnterRunTurn, ReturnFromRunTurn, SessionStartHookStops, DrainTurn, TakePending,
         DrainMail, DrainMailbox, InspectPending, ToolCall, FollowUp, ApprovalCancelled,
         AssistantMessage, ResponseCompleted, SamplingFails, AfterAnswer, StopHookContinues,
         RegularTaskLoop, AfterRun, BodyUnchanged, turnState, env
    <2>2. pc'[t] # "approval"
      <3>1. CASE DrainTurn(t) \/ DrainMail(t) \/ InspectPending(t) \/ AssistantMessage(t)
        BY <1>0, <1>3, <3>1 DEF DrainTurn, TakePending, DrainMail, DrainMailbox,
           InspectPending, AssistantMessage, Goto
      <3>2. CASE ~(DrainTurn(t) \/ DrainMail(t) \/ InspectPending(t) \/ AssistantMessage(t))
        BY <1>0, <1>3, <1>6, <3>2 DEF RunStandalone, PrewarmCancelled, BeginWithInput,
           BeginWithoutInput, EnterRunTurn, ReturnFromRunTurn, SessionStartHookStops,
           ToolCall, FollowUp, ApprovalCancelled, ResponseCompleted, SamplingFails,
           AfterAnswer, StopHookContinues, RegularTaskLoop, AfterRun, Goto
      <3> QED BY <3>1, <3>2
    <2> QED BY <1>0, <1>1, <1>2, <2>1, <2>2, SenderMove DEF BodyPcs
  <1> QED BY <1>4, <1>5, <1>6 DEF Body

\* A task that is over waits for nothing and drops no sender but its own turn's.
LEMMA FinishSender ==
    ASSUME ControlInv, SenderKept, NEW t \in Turns, Finish(t) \/ Die(t)
    PROVE  SenderKept'
  <1>0. t \in Threads /\ [Next]_vars /\ pc \in [Threads -> Pcs]
    BY DEF Next, Threads, ControlInv, ControlTypeOK
  <1>1. UNCHANGED <<approvals, granted>>
    BY DEF Finish, FinishRemove, FinishTakePending, FinishRecord, FinishClear, Die, turnState,
       env
  <1>2. pc'[t] # "approval" /\ \A u \in Turns \ {t} : u \in Threads /\ pc'[u] = pc[u]
    BY <1>0 DEF Finish, FinishRemove, FinishTakePending, FinishRecord, FinishClear, Die, Goto,
       Threads
  <1>3. active' = active \/ ~HasActiveTask
    BY DEF Finish, FinishRemove, FinishTakePending, FinishRecord, FinishClear, Die, slot,
       HasActiveTask
  <1> QED BY <1>0, <1>1, <1>2, <1>3, SenderMove DEF BodyPcs

\* The guardian's abort and the scheduler's threads.
LEMMA ExternalSender ==
    ASSUME ControlInv, SenderKept, External
    PROVE  SenderKept'
  <1>0. /\ Background \in Threads \ Turns /\ Guardian \in Threads \ Turns /\ [Next]_vars
        /\ \A t \in Turns : t \in Threads
    BY ThreadsAssumption DEF Next, Threads
  <1>1. UNCHANGED <<approvals, granted>> /\ (active' = active \/ ~HasActiveTask')
    BY DEF External, FireScheduledPrompt, AuxiliaryOutput, AbortTurnIfActive, turnState, env,
       slot, HasActiveTask
  <1>2. \A t \in Turns : pc'[t] = pc[t]
    BY <1>0 DEF External, FireScheduledPrompt, AuxiliaryOutput, AbortTurnIfActive, Goto,
       ControlInv, ControlTypeOK
  <1> QED BY <1>0, <1>1, <1>2, SenderMove DEF BodyPcs

\* What an aborter took is not installed again: only an ActiveTurn that nobody
\* holds is.
LEMMA LetGoMove ==
    ASSUME ControlTypeOK, ObjHeld, AbortersLetGo, NEW th \in Threads, HoldsObj(th),
           active' \in {active, NoObj} \cup FreshObjs,
           pc'[th] \in LettingGoPcs =>
               active' = NoObj \/ (pc[th] \in LettingGoPcs /\ obj'[th] = obj[th])
    PROVE  AbortersLetGo'
  <1> SUFFICES ASSUME NEW x \in Threads, pc'[x] \in LettingGoPcs, active' # NoObj
               PROVE  obj'[x] # active'
    <2>1. NoObj \notin Objs /\ LettingGoPcs \subseteq ObjPcs
      BY SentinelsAssumption DEF LettingGoPcs, ObjPcs
    <2> QED BY <2>1, HoldsObjInv DEF AbortersLetGo, ObjHeld
  <1>1. pc[x] \in LettingGoPcs /\ obj'[x] = obj[x]
    BY DEF HoldsObj, LettingGoPcs
  <1> QED BY <1>1 DEF AbortersLetGo, FreshObjs, Live

\* Every step of every thread.
LEMMA LetGoNext ==
    ASSUME ControlInv, ObjHeld, AbortersLetGo, [Next]_vars
    PROVE  AbortersLetGo'
  <1>0. /\ Loop \in Threads /\ Background \in Threads /\ Guardian \in Threads /\ ControlTypeOK
        /\ \A t \in Turns : t \in Threads
        /\ pc \in [Threads -> Pcs]
    BY DEF Threads, ControlInv, ControlTypeOK
  <1>1. CASE Submission
    <2>1. active' = active
      BY <1>1 DEF Submission, SteerInput, SteerRefused, UserTurn, StandaloneTask,
         InterAgentCommunication, ApproveDeniedAction, ExecApproval, Interrupt, Shutdown, slot
    <2>2. pc'[Loop] \notin LettingGoPcs
      BY <1>0, <1>1 DEF Submission, SteerInput, SteerRefused, UserTurn, StandaloneTask,
         SpawnTask, InterAgentCommunication, ApproveDeniedAction, ExecApproval, Interrupt,
         Shutdown, Goto, LettingGoPcs
    <2> QED BY <1>0, <1>1, <2>1, <2>2, SubmissionHoldsObj, LetGoMove
  <1>2. CASE External
    <2>1. CASE \E t \in Turns : AbortTurnIfActive(t)
      <3>1. HoldsObj(Guardian) /\ active' = NoObj
        BY <1>0, <2>1 DEF AbortTurnIfActive, Goto, HoldsObj, ObjPcs, ControlTypeOK
      <3> QED BY <1>0, <3>1, LetGoMove
    <2>2. CASE \/ \E i \in SchedItems : FireScheduledPrompt(i)
               \/ \E i \in AuxItems : AuxiliaryOutput(i)
      <3>1. active' = active /\ HoldsObj(Background)
        BY <1>0, <2>2 DEF FireScheduledPrompt, AuxiliaryOutput, HoldsObj, ObjPcs, Goto, slot,
           locals, ControlTypeOK, ObjHeld
      <3>2. pc'[Background] \notin LettingGoPcs
        BY <1>0, <2>2 DEF FireScheduledPrompt, AuxiliaryOutput, Goto, LettingGoPcs
      <3> QED BY <1>0, <3>1, <3>2, LetGoMove
    <2> QED BY <1>2, <2>1, <2>2 DEF External
  <1>3. ASSUME NEW th \in Threads, Procedure(th)
        PROVE  AbortersLetGo'
    <2>1. HoldsObj(th)
      BY <1>0, <1>3, ProcedureHoldsObj
    <2>2. active' \in {active, NoObj} \cup FreshObjs
      BY <1>3, FreshObjIsFresh DEF Procedure, AbortTake, AbortCancel, AbortKill,
         AbortPending, AbortClear, QueueItems, MaybeStartIdle, MaybeStartMail,
         MaybeStartReserve, StartTakeIdle, StartTakePending, TakePending, StartDrainMailbox,
         DrainMailbox, StartGetTurn, StartPush, StartSpawn, InstallFresh, slot, FreshObjs
    <2>3. CASE AbortTake(th)
      BY <1>0, <2>1, <2>2, <2>3, LetGoMove DEF AbortTake
    <2>4. CASE AbortCancel(th) \/ AbortKill(th) \/ AbortPending(th)
      <3>1. pc[th] \in LettingGoPcs /\ obj' = obj
        BY <2>4 DEF AbortCancel, AbortKill, AbortPending, LettingGoPcs
      <3> QED BY <1>0, <2>1, <2>2, <3>1, LetGoMove
    <2>5. CASE \/ AbortClear(th) \/ QueueItems(th) \/ MaybeStartIdle(th)
               \/ MaybeStartMail(th) \/ MaybeStartReserve(th)
      <3>1. pc'[th] \notin LettingGoPcs
        BY <1>0, <2>5 DEF AbortClear, QueueItems, MaybeStartIdle, MaybeStartMail,
           MaybeStartReserve, Return, Goto, LettingGoPcs
      <3> QED BY <1>0, <2>1, <2>2, <3>1, LetGoMove
    <2>6. CASE \/ StartTakeIdle(th) \/ StartTakePending(th) \/ StartDrainMailbox(th)
               \/ StartGetTurn(th) \/ StartPush(th)
      <3>1. pc'[th] \notin LettingGoPcs
        BY <1>0, <2>6 DEF StartTakeIdle, StartTakePending, TakePending, StartDrainMailbox,
           DrainMailbox, StartGetTurn, StartPush, Goto, LettingGoPcs
      <3> QED BY <1>0, <2>1, <2>2, <3>1, LetGoMove
    <2>7. CASE StartSpawn(th)
      <3>1. pc'[th] \notin LettingGoPcs
        BY <1>0, <2>7 DEF StartSpawn, LettingGoPcs
      <3> QED BY <1>0, <2>1, <2>2, <3>1, LetGoMove
    <2> QED BY <1>3, <2>3, <2>4, <2>5, <2>6, <2>7 DEF Procedure
  <1>4. ASSUME NEW t \in Turns, Body(t) \/ Finish(t) \/ Die(t)
        PROVE  AbortersLetGo'
    <2>1. HoldsObj(t)
      BY <1>0, <1>4, BodyHoldsObj, FinishHoldsObj
    <2>2. active' \in {active, NoObj}
      BY <1>4 DEF Finish, FinishRemove, FinishTakePending, FinishRecord, FinishClear, Die,
         Body, RunStandalone, PrewarmCancelled, BeginWithInput, BeginWithoutInput,
         EnterRunTurn, ReturnFromRunTurn, SessionStartHookStops, DrainTurn, TakePending,
         DrainMail, DrainMailbox, InspectPending, ToolCall, FollowUp, RequestApproval,
         ReceiveApproval, ApprovalCancelled, AssistantMessage, ResponseCompleted,
         SamplingFails, AfterAnswer, StopHookContinues, RegularTaskLoop, AfterRun,
         BodyUnchanged, slot
    <2>3. pc'[t] \notin LettingGoPcs
      BY <1>4, <1>0, ControlNext DEF Next, ControlInv, AbortersOrdered, AbortPcs, LettingGoPcs
    <2> QED BY <1>0, <2>1, <2>2, <2>3, LetGoMove
  <1>5. CASE UNCHANGED vars
    BY <1>5 DEF vars, slot, locals, AbortersLetGo
  <1> QED BY <1>1, <1>2, <1>3, <1>4, <1>5 DEF Next

\* The invariant of the approvals is inductive.
LEMMA ApprovalNext ==
    ASSUME ControlInv, ObjHeld, ApprovalInv, [Next]_vars
    PROVE  ApprovalInv'
  <1>1. CASE UNCHANGED vars
    BY <1>1 DEF vars, slot, turnState, signals, env, locals, ApprovalInv, SenderKept, Doomed,
       BeingAborted, AbortersLetGo
  <1>2. SenderKept'
    BY <1>1, SubmissionSender, ExternalSender, ProcedureSender, BodySender, FinishSender
       DEF Next, ApprovalInv
  <1> QED BY <1>2, LetGoNext DEF ApprovalInv

\* For any number of turns and any schedule: a tool that waits for the user's
\* approval loses its sender only when its turn is being aborted. A placeholder
\* that is replaced and the end of another task leave the senders alone.
THEOREM ApprovalsLostOnlyByAbort == Spec => []ApprovalLostOnlyByAbort
  <1>1. Init => ObjHeld /\ ApprovalInv
    BY DataInit, ThreadsAssumption
       DEF Init, ApprovalInv, SenderKept, AbortersLetGo, LettingGoPcs, Threads
  <1>2. ControlInv /\ ObjHeld /\ ApprovalInv /\ [Next]_vars => ObjHeld' /\ ApprovalInv'
    BY ObjHeldNext, ApprovalNext DEF ControlInv
  <1>3. ControlInv /\ ApprovalInv => ApprovalLostOnlyByAbort
    BY DEF ControlInv, ControlTypeOK, ApprovalInv, SenderKept, ApprovalLostOnlyByAbort,
       ApprovalDropped, Live
  <1> QED BY <1>1, <1>2, <1>3, ControlCorrect, PTL DEF Spec
=============================================================================
