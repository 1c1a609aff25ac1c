------------------------- MODULE SessionWakeProofs -------------------------
(***************************************************************************)
(* The safety core of the wake-ups of SessionTurns: for any number of      *)
(* turns, items and allocations, work that waits has somebody who will     *)
(* look for it, until a task is aborted.                                   *)
(***************************************************************************)
EXTENDS SessionTurnsProofs

\* Who looks at the idle queue, or at the mailbox, before it comes to rest.
IdleWakers == StartTaskPcs \cup AbortPcs \cup {"requeue", "maybe_idle", "maybe_reserve"}
MailWakers == IdleWakers \cup {"maybe_mail"}

IdleWaits == \E i \in Items \ DeniedItems : InSeq(i, idle)
MailWaits == \E m \in TriggerMail : InSeq(m, mailbox)

\* An installed ActiveTurn has a task, or is being given one or cleared.
Clears(t) == pc[t] \in FinPcs /\ obj[t] = active
SlotServed ==
    active # NoObj => \/ tasks[active] # <<>>
                      \/ \E th \in Threads : pc[th] \in StartTaskPcs
                      \/ \E t \in Threads : Clears(t)

\* Work waits only while a turn is installed, whose end looks for it, or while
\* somebody is on the way to look.
IdleOwed == IdleWaits => active # NoObj \/ \E th \in Threads : pc[th] \in IdleWakers
MailOwed == MailWaits => active # NoObj \/ \E th \in Threads : pc[th] \in MailWakers

\* Before any interrupt, what takes the slot is about to start a turn.
TakesToReplace == \A th \in Threads : pc[th] = "abort_take" => why[th] = "Replaced"

\* Only the notes of approved denials are queued without a wake-up.
QueuesNotes ==
    \A th \in Threads : pc[th] = "queue" => \A k \in DOMAIN hand[th] : hand[th][k] \in DeniedItems

Undisturbed == ops = 0 /\ cancelled = {}
WakeInv ==
    /\ QueuesNotes
    /\ Undisturbed => SlotServed /\ IdleOwed /\ MailOwed /\ TakesToReplace

\* A step of one thread that keeps what the other threads are on the way to do.
MovesOnly(th) ==
    \A x \in Threads \ {th} :
        /\ pc[x] \in MailWakers \cup FinPcs => pc'[x] = pc[x] /\ obj'[x] = obj[x]
        /\ pc'[x] \in {"queue", "abort_take"} => pc[x] = pc'[x]
        /\ hand'[x] = hand[x] /\ why'[x] = why[x]

\* What the slot, the idle queue and the mailbox need from such a step.
KeepsSlot(th) ==
    \/ active' = NoObj
    \/ tasks'[active'] # <<>>
    \/ pc'[th] \in StartTaskPcs
    \/ Clears(th)'
    \/ /\ active' = active /\ tasks'[active] = tasks[active]
       /\ pc[th] \notin StartTaskPcs /\ ~Clears(th)
KeepsIdle(th) ==
    \/ active' # NoObj \/ pc'[th] \in IdleWakers \/ ~IdleWaits'
    \/ active' = active /\ pc[th] \notin IdleWakers /\ (IdleWaits' => IdleWaits)
KeepsMail(th) ==
    \/ active' # NoObj \/ pc'[th] \in MailWakers \/ ~MailWaits'
    \/ active' = active /\ pc[th] \notin MailWakers /\ (MailWaits' => MailWaits)
KeepsTakes(th) == pc'[th] = "abort_take" => why'[th] = "Replaced"
KeepsNotes(th) ==
    pc'[th] = "queue" => \A k \in DOMAIN hand'[th] : hand'[th][k] \in DeniedItems

\* A step that keeps these keeps the invariant.
LEMMA WakeMove ==
    ASSUME WakeInv, NEW th \in Threads, MovesOnly(th), KeepsNotes(th),
           Undisturbed' => Undisturbed,
           Undisturbed' => /\ KeepsSlot(th) /\ KeepsIdle(th) /\ KeepsMail(th)
                           /\ KeepsTakes(th)
    PROVE  WakeInv'
  <1>1. QueuesNotes'
    BY DEF WakeInv, QueuesNotes, MovesOnly, KeepsNotes
  <1>2. ASSUME Undisturbed'
        PROVE  SlotServed' /\ IdleOwed' /\ MailOwed' /\ TakesToReplace'
    <2>0. /\ SlotServed /\ IdleOwed /\ MailOwed /\ TakesToReplace
          /\ KeepsSlot(th) /\ KeepsIdle(th) /\ KeepsMail(th) /\ KeepsTakes(th)
      BY <1>2 DEF WakeInv
    <2>1. SlotServed'
      <3>1. CASE /\ active' = active /\ tasks'[active] = tasks[active]
                 /\ pc[th] \notin StartTaskPcs /\ ~Clears(th)
        <4>1. \A x \in Threads \ {th} :
                 /\ pc[x] \in StartTaskPcs => pc'[x] \in StartTaskPcs
                 /\ Clears(x) => Clears(x)'
          BY <3>1 DEF MovesOnly, Clears, MailWakers, IdleWakers
        <4> QED BY <2>0, <3>1, <4>1 DEF SlotServed
      <3> QED BY <2>0, <3>1 DEF SlotServed, KeepsSlot
    <2>2. IdleOwed'
      BY <2>0 DEF IdleOwed, KeepsIdle, MovesOnly, MailWakers
    <2>3. MailOwed'
      BY <2>0 DEF MailOwed, KeepsMail, MovesOnly
    <2>4. TakesToReplace'
      BY <2>0 DEF TakesToReplace, KeepsTakes, MovesOnly
    <2> QED BY <2>1, <2>2, <2>3, <2>4
  <1> QED BY <1>1, <1>2 DEF WakeInv

\* Interrupts are counted, and a cancelled task stays cancelled.
LEMMA DisturbedForever ==
    ASSUME ControlInv, [Next]_vars, Undisturbed'
    PROVE  Undisturbed
  <1>1. ops \in Nat
    BY InputsAssumption DEF ControlInv, ControlTypeOK
  <1>2. ops' = ops \/ ops' = ops + 1
    BY DEF Next, Submission, SteerInput, SteerRefused, UserTurn, StandaloneTask,
       InterAgentCommunication, ApproveDeniedAction, ExecApproval, Interrupt, Shutdown,
       External, FireScheduledPrompt, AuxiliaryOutput, AbortTurnIfActive, Procedure, AbortTake,
       AbortCancel, AbortKill, AbortPending, AbortClear, QueueItems, MaybeStartIdle,
       MaybeStartMail, MaybeStartReserve, StartTakeIdle, StartTakePending, TakePending,
       StartDrainMailbox, DrainMailbox, StartGetTurn, StartPush, StartSpawn, Body,
       RunStandalone, PrewarmCancelled, BeginWithInput, BeginWithoutInput, EnterRunTurn,
       ReturnFromRunTurn, SessionStartHookStops, DrainTurn, DrainMail, InspectPending,
       ToolCall, FollowUp, RequestApproval, ReceiveApproval, ApprovalCancelled,
       AssistantMessage, ResponseCompleted, SamplingFails, AfterAnswer, StopHookContinues,
       RegularTaskLoop, AfterRun, BodyUnchanged, Finish, FinishRemove, FinishTakePending,
       FinishRecord, FinishClear, Die, vars, env
  <1>3. cancelled \subseteq cancelled'
    BY DEF Next, Submission, SteerInput, SteerRefused, UserTurn, StandaloneTask,
       InterAgentCommunication, ApproveDeniedAction, ExecApproval, Interrupt, Shutdown,
       External, FireScheduledPrompt, AuxiliaryOutput, AbortTurnIfActive, Procedure, AbortTake,
       AbortCancel, AbortKill, AbortPending, AbortClear, QueueItems, MaybeStartIdle,
       MaybeStartMail, MaybeStartReserve, StartTakeIdle, StartTakePending, TakePending,
       StartDrainMailbox, DrainMailbox, StartGetTurn, StartPush, StartSpawn, Body,
       RunStandalone, PrewarmCancelled, BeginWithInput, BeginWithoutInput, EnterRunTurn,
       ReturnFromRunTurn, SessionStartHookStops, DrainTurn, DrainMail, InspectPending,
       ToolCall, FollowUp, RequestApproval, ReceiveApproval, ApprovalCancelled,
       AssistantMessage, ResponseCompleted, SamplingFails, AfterAnswer, StopHookContinues,
       RegularTaskLoop, AfterRun, BodyUnchanged, Finish, FinishRemove, FinishTakePending,
       FinishRecord, FinishClear, Die, vars, signals
  <1> QED BY <1>1, <1>2, <1>3 DEF Undisturbed

\* What a queue holds after something was put behind it.
LEMMA QueueGrows ==
    ASSUME NEW S, NEW q \in Seq(S), NEW h \in Seq(S)
    PROVE  \A i : InSeq(i, q \o h) => InSeq(i, q) \/ \E k \in DOMAIN h : h[k] = i
  <1> SUFFICES ASSUME NEW k \in DOMAIN (q \o h)
               PROVE  \/ InSeq((q \o h)[k], q)
                      \/ \E j \in DOMAIN h : h[j] = (q \o h)[k]
    BY DEF InSeq
  <1>1. /\ Len(q) \in Nat /\ Len(h) \in Nat /\ k \in 1 .. (Len(q) + Len(h))
        /\ DOMAIN q = 1 .. Len(q) /\ DOMAIN h = 1 .. Len(h)
    OBVIOUS
  <1>2. CASE k <= Len(q)
    BY <1>1, <1>2 DEF InSeq
  <1>3. CASE k > Len(q)
    BY <1>1, <1>3
  <1> QED BY <1>1, <1>2, <1>3

\* The Ops: the loop goes on to start a turn or to look, or leaves the queues
\* as they are.
LEMMA SubmissionWake ==
    ASSUME ControlInv, DataTypeOK, WakeInv, Submission
    PROVE  WakeInv'
  <1>0. /\ Loop \in Threads /\ pc \in [Threads -> Pcs] /\ why \in [Threads -> Reasons]
        /\ hand \in [Threads -> Seq(Items)] /\ mailbox \in Seq(Items) /\ ops \in Nat
    BY ThreadsAssumption, InputsAssumption DEF Threads, ControlInv, ControlTypeOK, DataTypeOK
  <1>1. MovesOnly(Loop)
    BY <1>0 DEF Submission, SteerInput, SteerRefused, UserTurn, StandaloneTask, SpawnTask,
       InterAgentCommunication, ApproveDeniedAction, ExecApproval, Interrupt, Shutdown, Goto,
       MovesOnly, locals
  <1>2. Undisturbed' => Undisturbed
    BY DisturbedForever DEF Next
  <1>3. pc[Loop] = "ready" /\ UNCHANGED <<active, tasks, idle, obj>>
    BY DEF Submission, SteerInput, SteerRefused, UserTurn, StandaloneTask,
       InterAgentCommunication, ApproveDeniedAction, ExecApproval, Interrupt, Shutdown, slot,
       queues, locals
  <1>4. KeepsSlot(Loop)
    BY <1>3 DEF KeepsSlot, Clears, StartTaskPcs, FinPcs
  <1>5. KeepsIdle(Loop)
    BY <1>3 DEF KeepsIdle, IdleWaits, IdleWakers, StartTaskPcs, AbortPcs
  <1>6. KeepsMail(Loop)
    <2>1. CASE \E i \in MailItems : InterAgentCommunication(i)
      <3>1. PICK i \in MailItems : InterAgentCommunication(i)
        BY <2>1
      <3>2. CASE i \in TriggerMail
        BY <1>0, <3>1, <3>2 DEF InterAgentCommunication, Goto, KeepsMail, MailWakers,
           IdleWakers
      <3>3. CASE i \notin TriggerMail
        <4>1. mailbox' = mailbox \o <<i>> /\ <<i>> \in Seq(Items)
          BY <1>0, <3>1 DEF InterAgentCommunication, Items
        <4>2. MailWaits' => MailWaits
          <5>1. PICK h : h = <<i>>
            OBVIOUS
          <5>2. h \in Seq(Items) /\ mailbox \in Seq(Items) /\ mailbox' = mailbox \o h
            BY <1>0, <4>1, <5>1
          <5>3. \A m : InSeq(m, mailbox') => InSeq(m, mailbox) \/ \E k \in DOMAIN h : h[k] = m
            BY <5>2, QueueGrows
          <5>4. \A k \in DOMAIN h : h[k] = i
            BY <5>1
          <5> QED BY <3>3, <5>3, <5>4 DEF MailWaits
        <4> QED BY <1>3, <4>2 DEF KeepsMail, MailWakers, IdleWakers, StartTaskPcs, AbortPcs
      <3> QED BY <3>2, <3>3
    <2>2. CASE ~\E i \in MailItems : InterAgentCommunication(i)
      <3>1. mailbox' = mailbox
        BY <2>2 DEF Submission, SteerInput, SteerRefused, UserTurn, StandaloneTask,
           ApproveDeniedAction, ExecApproval, Interrupt, Shutdown, queues
      <3> QED BY <1>3, <3>1 DEF KeepsMail, MailWaits, MailWakers, IdleWakers, StartTaskPcs,
              AbortPcs
    <2> QED BY <2>1, <2>2
  <1>7. Undisturbed' => KeepsTakes(Loop)
    BY <1>0 DEF Submission, SteerInput, SteerRefused, UserTurn, StandaloneTask, SpawnTask,
       InterAgentCommunication, ApproveDeniedAction, ExecApproval, Interrupt, Shutdown, Goto,
       KeepsTakes, Undisturbed
  <1>8. KeepsNotes(Loop)
    BY <1>0 DEF Submission, SteerInput, SteerRefused, UserTurn, StandaloneTask, SpawnTask,
       InterAgentCommunication, ApproveDeniedAction, ExecApproval, Interrupt, Shutdown, Goto,
       KeepsNotes
  <1> QED BY <1>0, <1>1, <1>2, <1>4, <1>5, <1>6, <1>7, <1>8, WakeMove

\* The scheduler looks after it queued; who aborts looks after the abort.
LEMMA ExternalWake ==
    ASSUME ControlInv, DataTypeOK, WakeInv, External
    PROVE  WakeInv'
  <1>0. /\ Background \in Threads /\ Guardian \in Threads /\ hand \in [Threads -> Seq(Items)]
        /\ pc \in [Threads -> Pcs] /\ why \in [Threads -> Reasons]
        /\ obj \in [Threads -> Objs \cup {NoObj}]
    BY ThreadsAssumption DEF Threads, ControlInv, ControlTypeOK, DataTypeOK
  <1>1. Undisturbed' => Undisturbed
    BY DisturbedForever DEF Next
  <1>2. CASE \/ \E i \in SchedItems : FireScheduledPrompt(i)
             \/ \E i \in AuxItems : AuxiliaryOutput(i)
    <2>1. /\ MovesOnly(Background) /\ pc[Background] = "ready"
          /\ UNCHANGED <<active, tasks, idle, mailbox, obj>>
          /\ pc'[Background] \in {"ready", "requeue"}
      BY <1>0, <1>2 DEF FireScheduledPrompt, AuxiliaryOutput, Goto, MovesOnly, slot, queues,
         locals
    <2>2. KeepsSlot(Background) /\ KeepsIdle(Background) /\ KeepsMail(Background)
      BY <2>1 DEF KeepsSlot, KeepsIdle, KeepsMail, IdleWaits, MailWaits, Clears, MailWakers,
         IdleWakers, StartTaskPcs, AbortPcs, FinPcs
    <2>3. KeepsTakes(Background) /\ KeepsNotes(Background)
      BY <2>1 DEF KeepsTakes, KeepsNotes
    <2> QED BY <1>0, <1>1, <2>1, <2>2, <2>3, WakeMove
  <1>3. CASE \E t \in Turns : AbortTurnIfActive(t)
    <2>1. MovesOnly(Guardian) /\ active' = NoObj /\ pc'[Guardian] = "abort_each"
      BY <1>0, <1>3 DEF AbortTurnIfActive, Goto, MovesOnly
    <2>2. KeepsSlot(Guardian) /\ KeepsIdle(Guardian) /\ KeepsMail(Guardian)
      BY <2>1 DEF KeepsSlot, KeepsIdle, KeepsMail, MailWakers, IdleWakers, AbortPcs
    <2>3. KeepsTakes(Guardian) /\ KeepsNotes(Guardian)
      BY <2>1 DEF KeepsTakes, KeepsNotes
    <2> QED BY <1>0, <1>1, <2>1, <2>2, <2>3, WakeMove
  <1> QED BY <1>2, <1>3 DEF External

\* A turn that samples holds the slot; it only takes from the mailbox.
LEMMA BodyWake ==
    ASSUME ControlInv, DataTypeOK, WakeInv, NEW t \in Turns, Body(t)
    PROVE  WakeInv'
  <1>0. /\ t \in Threads /\ hand \in [Threads -> Seq(Items)] /\ pc \in [Threads -> Pcs]
    BY DEF Threads, ControlInv, ControlTypeOK, DataTypeOK
  <1>1. /\ UNCHANGED <<active, tasks, idle, obj, why>>
        /\ \A x \in Threads \ {t} : pc'[x] = pc[x] /\ hand'[x] = hand[x]
        /\ pc[t] \in BodyPcs /\ mailbox' \in {mailbox, <<>>}
    BY <1>0 DEF Body, RunStandalone, PrewarmCancelled, BeginWithInput, BeginWithoutInput,
       EnterRunTurn, ReturnFromRunTurn, SessionStartHookStops, DrainTurn, TakePending,
       DrainMail, DrainMailbox, InspectPending, ToolCall, FollowUp, RequestApproval,
       ReceiveApproval, ApprovalCancelled, AssistantMessage, ResponseCompleted, SamplingFails,
       AfterAnswer, StopHookContinues, RegularTaskLoop, AfterRun, BodyUnchanged, Goto, slot,
       queues, locals, BodyPcs
  <1>2. pc'[t] \in BodyPcs \cup {"done"}
    <2>1. CASE DrainTurn(t) \/ DrainMail(t) \/ InspectPending(t)
      BY <1>0, <2>1 DEF DrainTurn, TakePending, DrainMail, DrainMailbox, InspectPending, Goto,
         BodyPcs
    <2>2. CASE AssistantMessage(t)
      BY <1>0, <2>2 DEF AssistantMessage, BodyPcs
    <2>3. CASE ~(DrainTurn(t) \/ DrainMail(t) \/ InspectPending(t) \/ AssistantMessage(t))
      BY <1>0, <2>3 DEF Body, RunStandalone, PrewarmCancelled, BeginWithInput,
         BeginWithoutInput, EnterRunTurn, ReturnFromRunTurn, SessionStartHookStops, ToolCall,
         FollowUp, RequestApproval, ReceiveApproval, ApprovalCancelled, ResponseCompleted,
         SamplingFails, AfterAnswer, StopHookContinues, RegularTaskLoop, AfterRun, Goto, BodyPcs
    <2> QED BY <2>1, <2>2, <2>3
  <1>3. MovesOnly(t) /\ KeepsNotes(t) /\ KeepsTakes(t)
    BY <1>1, <1>2 DEF MovesOnly, KeepsNotes, KeepsTakes, BodyPcs
  <1>4. KeepsSlot(t) /\ KeepsIdle(t)
    BY <1>1 DEF KeepsSlot, KeepsIdle, Clears, IdleWaits, BodyPcs, FinPcs, IdleWakers,
       StartTaskPcs, AbortPcs
  <1>5. KeepsMail(t)
    <2>1. MailWaits' => MailWaits
      BY <1>1 DEF MailWaits, InSeq
    <2> QED BY <1>1, <2>1 DEF KeepsMail, BodyPcs, MailWakers, IdleWakers, StartTaskPcs, AbortPcs
  <1>6. Undisturbed' => Undisturbed
    BY DisturbedForever DEF Next
  <1> QED BY <1>0, <1>3, <1>4, <1>5, <1>6, WakeMove

\* The task that leaves the last place of its ActiveTurn clears it and looks.
LEMMA FinishWake ==
    ASSUME ControlInv, DataTypeOK, WakeInv, NEW t \in Turns, Finish(t) \/ Die(t)
    PROVE  WakeInv'
  <1>0. /\ t \in Threads /\ hand \in [Threads -> Seq(Items)] /\ pc \in [Threads -> Pcs]
        /\ obj \in [Threads -> Objs \cup {NoObj}] /\ tasks \in [Objs -> Seq(Turns)]
        /\ active \in Objs \cup {NoObj} /\ killed \subseteq cancelled
    BY DEF Threads, ControlInv, ControlTypeOK, DataTypeOK, DoomedWereBorn
  <1>1. /\ UNCHANGED <<idle, mailbox, why>>
        /\ \A x \in Threads \ {t} : pc'[x] = pc[x] /\ hand'[x] = hand[x] /\ obj'[x] = obj[x]
        /\ pc'[t] \notin {"queue", "abort_take"}
    BY <1>0 DEF Finish, FinishRemove, FinishTakePending, FinishRecord, FinishClear, Die, Goto,
       queues
  <1>2. MovesOnly(t) /\ KeepsNotes(t) /\ KeepsTakes(t)
    BY <1>1 DEF MovesOnly, KeepsNotes, KeepsTakes
  <1>3. Undisturbed' => Undisturbed
    BY DisturbedForever DEF Next
  <1>4. ASSUME Finish(t)
        PROVE  KeepsSlot(t) /\ KeepsIdle(t) /\ KeepsMail(t)
    <2>1. pc[t] \notin MailWakers /\ pc[t] \notin IdleWakers /\ pc[t] \notin StartTaskPcs
      BY <1>4 DEF Finish, FinishRemove, FinishTakePending, FinishRecord, FinishClear,
         MailWakers, IdleWakers, StartTaskPcs, AbortPcs
    <2>2. active' = active \/ pc'[t] = "maybe_idle"
      BY <1>0, <1>4 DEF Finish, FinishRemove, FinishTakePending, FinishRecord, FinishClear,
         Goto, slot
    <2>3. KeepsIdle(t) /\ KeepsMail(t)
      BY <1>1, <2>1, <2>2 DEF KeepsIdle, KeepsMail, IdleWaits, MailWaits, MailWakers, IdleWakers
    <2>4. KeepsSlot(t)
      <3>1. CASE FinishRemove(t)
        <4>1. active' = active
          BY <3>1 DEF FinishRemove
        <4>2. CASE active # NoObj
          <5>1. PICK left : left = SwapRemove(tasks[active], t)
            OBVIOUS
          <5>2. /\ tasks' = [tasks EXCEPT ![active] = left]
                /\ obj' = [obj EXCEPT ![t] = IF left = <<>> THEN active ELSE NoObj]
                /\ pc' = [pc EXCEPT ![t] = IF left = <<>> THEN "fin_take" ELSE "fin_record"]
            BY <3>1, <4>2, <5>1 DEF FinishRemove, Goto
          <5>3. CASE left = <<>>
            <6>1. Clears(t)'
              BY <1>0, <4>1, <5>2, <5>3 DEF Clears, FinPcs
            <6> QED BY <6>1 DEF KeepsSlot
          <5>4. CASE left # <<>>
            BY <1>0, <4>1, <4>2, <5>2, <5>4 DEF KeepsSlot
          <5> QED BY <5>3, <5>4
        <4> QED BY <4>1, <4>2 DEF KeepsSlot
      <3>2. CASE FinishTakePending(t) \/ FinishRecord(t)
        <4>1. /\ UNCHANGED <<active, tasks, obj>> /\ pc[t] \in FinPcs
              /\ pc'[t] \in FinPcs \/ obj[t] = NoObj
          BY <1>0, <3>2 DEF FinishTakePending, FinishRecord, Goto, slot, FinPcs
        <4>2. CASE Clears(t)
          <5>1. CASE active = NoObj
            BY <4>1, <5>1 DEF KeepsSlot
          <5>2. CASE active # NoObj
            <6>1. Clears(t)'
              BY <4>1, <4>2, <5>2 DEF Clears
            <6> QED BY <6>1 DEF KeepsSlot
          <5> QED BY <5>1, <5>2
        <4>3. CASE ~Clears(t)
          BY <2>1, <4>1, <4>3 DEF KeepsSlot
        <4> QED BY <4>2, <4>3
      <3>3. CASE FinishClear(t)
        <4>1. CASE active = obj[t] /\ tasks[active] = <<>>
          BY <3>3, <4>1 DEF FinishClear, KeepsSlot
        <4>2. CASE ~(active = obj[t] /\ tasks[active] = <<>>)
          <5>1. UNCHANGED <<active, tasks>>
            BY <3>3, <4>2 DEF FinishClear
          <5>2. tasks[active] = <<>> => ~Clears(t)
            BY <4>2 DEF Clears
          <5> QED BY <2>1, <5>1, <5>2 DEF KeepsSlot
        <4> QED BY <4>1, <4>2
      <3> QED BY <1>4, <3>1, <3>2, <3>3 DEF Finish
    <2> QED BY <2>3, <2>4
  <1>5. ASSUME Die(t), Undisturbed'
        PROVE  FALSE
    BY <1>0, <1>3, <1>5 DEF Die, Undisturbed
  <1> QED BY <1>0, <1>2, <1>3, <1>4, <1>5, WakeMove

\* A procedure of one thread leaves what the others are on the way to do.
LEMMA ProcedureMovesOnly ==
    ASSUME ControlInv, DataTypeOK, NEW th \in Threads, Procedure(th)
    PROVE  MovesOnly(th)
  <1>0. /\ hand \in [Threads -> Seq(Items)] /\ pc \in [Threads -> Pcs]
        /\ obj \in [Threads -> Objs \cup {NoObj}] /\ why \in [Threads -> Reasons]
    BY DEF ControlInv, ControlTypeOK, DataTypeOK
  <1>1. CASE StartSpawn(th)
    <2>1. PICK t : t = tgt[th]
      OBVIOUS
    <2>2. t \in Turns /\ t \in Threads /\ t # th /\ pc[t] = "unborn"
      BY <1>1, <2>1 DEF StartSpawn, ControlInv, ControlTypeOK, TargetsFresh, StartTaskPcs, Threads
    <2>3. /\ \A x \in Threads \ {th, t} : pc'[x] = pc[x]
          /\ pc'[t] = "begin"
      BY <1>0, <1>1, <2>1, <2>2 DEF StartSpawn
    <2>4. /\ hand' = hand
          /\ \A x \in Threads \ {th} : obj'[x] = obj[x] /\ why'[x] = why[x]
      BY <1>0, <1>1 DEF StartSpawn
    <2> QED BY <2>2, <2>3, <2>4 DEF MovesOnly, MailWakers, IdleWakers, StartTaskPcs, AbortPcs,
            FinPcs
  <1>2. CASE ~StartSpawn(th)
    <2>1. \A x \in Threads \ {th} :
             /\ pc'[x] = pc[x] /\ obj'[x] = obj[x] /\ hand'[x] = hand[x] /\ why'[x] = why[x]
      BY <1>0, <1>2 DEF Procedure, AbortTake, AbortCancel, AbortKill, AbortPending, AbortClear,
         QueueItems, MaybeStartIdle, MaybeStartMail, MaybeStartReserve, StartTakeIdle,
         StartTakePending, TakePending, StartDrainMailbox, DrainMailbox, StartGetTurn,
         StartPush, Return, Goto, locals
    <2> QED BY <2>1 DEF MovesOnly
  <1> QED BY <1>1, <1>2

\* The procedures: who aborts goes on to look or to start, who looks starts a
\* turn or finds one installed, and who starts installs its task.
LEMMA ProcedureWake ==
    ASSUME ControlInv, DataTypeOK, WakeInv, NEW th \in Threads, Procedure(th)
    PROVE  WakeInv'
  <1>0. /\ hand \in [Threads -> Seq(Items)] /\ pc \in [Threads -> Pcs]
        /\ obj \in [Threads -> Objs \cup {NoObj}] /\ tasks \in [Objs -> Seq(Turns)]
        /\ active \in Objs \cup {NoObj} /\ idle \in Seq(Items) /\ NoObj \notin Objs
    BY SentinelsAssumption DEF ControlInv, ControlTypeOK, DataTypeOK
  <1>1. MovesOnly(th) /\ (Undisturbed' => Undisturbed)
    BY ProcedureMovesOnly, DisturbedForever DEF Next
  <1>2. KeepsNotes(th) /\ KeepsTakes(th)
    <2>1. pc'[th] \notin {"queue", "abort_take"}
      <3>1. CASE StartSpawn(th)
        <4>1. tgt[th] # th
          BY <3>1 DEF StartSpawn, ControlInv, TargetsFresh, StartTaskPcs
        <4> QED BY <1>0, <3>1, <4>1 DEF StartSpawn
      <3>2. CASE ~StartSpawn(th)
        BY <1>0, <3>2 DEF Procedure, AbortTake, AbortCancel, AbortKill, AbortPending,
           AbortClear, AbortNext, QueueItems, MaybeStartIdle, MaybeStartMail,
           MaybeStartReserve, StartTakeIdle, StartTakePending, TakePending, StartDrainMailbox,
           DrainMailbox, StartGetTurn, StartPush, Return, Goto
      <3> QED BY <3>1, <3>2
    <2> QED BY <2>1 DEF KeepsNotes, KeepsTakes
  <1>3. ASSUME Undisturbed'
        PROVE  KeepsSlot(th) /\ KeepsIdle(th) /\ KeepsMail(th)
    <2>0. TakesToReplace
      BY <1>1, <1>3 DEF WakeInv
    <2>1. ASSUME \/ active' = NoObj /\ pc'[th] \in IdleWakers
                 \/ pc'[th] \in StartTaskPcs
                 \/ active' # NoObj /\ tasks'[active'] # <<>>
          PROVE  KeepsSlot(th) /\ KeepsIdle(th) /\ KeepsMail(th)
      BY <2>1 DEF KeepsSlot, KeepsIdle, KeepsMail, MailWakers, IdleWakers
    <2>2. ASSUME pc[th] \notin StartTaskPcs, pc[th] \notin FinPcs,
                 UNCHANGED <<active, tasks>>
          PROVE  KeepsSlot(th)
      BY <2>2 DEF KeepsSlot, Clears
    <2>3. CASE AbortTake(th)
      <3>1. active' = NoObj /\ pc'[th] \in {"abort_each", "start_idle"}
        BY <1>0, <2>0, <2>3 DEF AbortTake, TakesToReplace, Goto
      <3> QED BY <2>1, <3>1 DEF IdleWakers, AbortPcs, StartTaskPcs
    <2>4. CASE AbortCancel(th)
      BY <1>3, <2>4 DEF AbortCancel, Undisturbed
    <2>5. CASE AbortKill(th) \/ AbortPending(th) \/ AbortClear(th)
      <3>1. /\ pc[th] \in AbortPcs /\ UNCHANGED <<active, tasks>>
            /\ pc'[th] \in IdleWakers
        BY <1>0, <2>5 DEF AbortKill, AbortPending, AbortClear, AbortNext, Goto, slot,
           IdleWakers, AbortPcs, StartTaskPcs
      <3> QED BY <2>2, <3>1 DEF KeepsIdle, KeepsMail, MailWakers, AbortPcs, StartTaskPcs, FinPcs
    <2>6. CASE QueueItems(th)
      <3>1. pc[th] \in {"queue", "requeue"} /\ UNCHANGED <<active, tasks, mailbox>>
        BY <2>6 DEF QueueItems, slot
      <3>2. KeepsSlot(th)
        BY <2>2, <3>1 DEF StartTaskPcs, FinPcs
      <3>3. CASE pc[th] = "requeue"
        <4>1. pc'[th] = "maybe_idle"
          BY <1>0, <2>6, <3>3 DEF QueueItems, Goto
        <4> QED BY <3>2, <4>1 DEF KeepsIdle, KeepsMail, MailWakers, IdleWakers
      <3>4. CASE pc[th] = "queue"
        <4>1. PICK h : h = hand[th]
          OBVIOUS
        <4>2. idle' = idle \o h /\ h \in Seq(Items) /\ \A k \in DOMAIN h : h[k] \in DeniedItems
          BY <1>0, <2>6, <3>4, <4>1 DEF QueueItems, WakeInv, QueuesNotes
        <4>3. \A i : InSeq(i, idle') => InSeq(i, idle) \/ \E k \in DOMAIN h : h[k] = i
          BY <1>0, <4>2, QueueGrows
        <4>4. IdleWaits' => IdleWaits
          BY <4>2, <4>3 DEF IdleWaits
        <4> QED BY <3>1, <3>2, <3>4, <4>4 DEF KeepsIdle, KeepsMail, MailWaits, MailWakers,
                IdleWakers, StartTaskPcs, AbortPcs
      <3> QED BY <3>1, <3>3, <3>4
    <2>7. CASE MaybeStartIdle(th)
      <3>1. /\ pc[th] = "maybe_idle" /\ UNCHANGED <<active, tasks, idle, mailbox>>
            /\ pc'[th] = IF idle # <<>> THEN "maybe_reserve" ELSE "maybe_mail"
        BY <1>0, <2>7 DEF MaybeStartIdle, Goto, slot, queues
      <3>2. KeepsSlot(th)
        BY <2>2, <3>1 DEF StartTaskPcs, FinPcs
      <3>3. idle = <<>> => ~IdleWaits'
        BY <3>1 DEF IdleWaits, InSeq
      <3> QED BY <3>1, <3>2, <3>3 DEF KeepsIdle, KeepsMail, MailWakers, IdleWakers
    <2>8. CASE MaybeStartMail(th)
      <3>1. /\ pc[th] = "maybe_mail" /\ UNCHANGED <<active, tasks, idle, mailbox>>
            /\ pc'[th] = "maybe_reserve" \/ ~MailWaits'
        BY <1>0, <2>8 DEF MaybeStartMail, Goto, slot, queues, MailWaits
      <3>2. KeepsSlot(th)
        BY <2>2, <3>1 DEF StartTaskPcs, FinPcs
      <3> QED BY <3>1, <3>2 DEF KeepsIdle, KeepsMail, MailWakers, IdleWakers, IdleWaits,
              StartTaskPcs, AbortPcs
    <2>9. CASE MaybeStartReserve(th)
      <3>1. CASE active # NoObj
        <4>1. pc[th] = "maybe_reserve" /\ UNCHANGED <<active, tasks>>
          BY <2>9, <3>1 DEF MaybeStartReserve, slot
        <4>2. KeepsSlot(th)
          BY <2>2, <4>1 DEF StartTaskPcs, FinPcs
        <4> QED BY <3>1, <4>1, <4>2 DEF KeepsIdle, KeepsMail
      <3>2. CASE active = NoObj
        <4>1. pc'[th] = "start_idle"
          BY <1>0, <2>9, <3>2 DEF MaybeStartReserve, Goto
        <4> QED BY <2>1, <4>1 DEF StartTaskPcs
      <3> QED BY <3>1, <3>2
    <2>10. CASE \/ StartTakeIdle(th) \/ StartTakePending(th) \/ StartDrainMailbox(th)
                \/ StartGetTurn(th) \/ StartPush(th)
      <3>1. pc'[th] \in StartTaskPcs
        BY <1>0, <2>10 DEF StartTakeIdle, StartTakePending, TakePending, StartDrainMailbox,
           DrainMailbox, StartGetTurn, StartPush, Goto, StartTaskPcs
      <3> QED BY <2>1, <3>1
    <2>11. CASE StartSpawn(th)
      <3>1. PICK t : t = tgt[th]
        OBVIOUS
      <3>2. t \in Turns
        BY <2>11, <3>1 DEF StartSpawn, ControlInv, ControlTypeOK, TargetsFresh, StartTaskPcs
      <3>3. CASE active # NoObj
        <4>1. active' = active /\ tasks' = [tasks EXCEPT ![active] = Append(@, t)]
          BY <2>11, <3>1, <3>3 DEF StartSpawn
        <4>2. Append(tasks[active], t) # <<>>
          <5>1. tasks[active] \in Seq(Turns)
            BY <1>0, <3>3
          <5> QED BY <3>2, <5>1, AppendProperties
        <4>3. active' # NoObj /\ tasks'[active'] # <<>>
          <5>1. active \in Objs /\ tasks'[active] = Append(tasks[active], t)
            BY <1>0, <3>3, <4>1
          <5> QED BY <3>3, <4>1, <4>2, <5>1
        <4> QED BY <2>1, <4>3
      <3>4. CASE active = NoObj
        <4>1. /\ FreshObj \in Objs /\ active' = FreshObj
              /\ tasks' = [tasks EXCEPT ![FreshObj] = <<t>>]
          BY <2>11, <3>1, <3>4, FreshObjIsFresh DEF StartSpawn
        <4>2. tasks'[active'] = <<t>> /\ active' # NoObj
          BY <1>0, <4>1
        <4> QED BY <2>1, <4>2
      <3> QED BY <3>3, <3>4
    <2> QED BY <2>3, <2>4, <2>5, <2>6, <2>7, <2>8, <2>9, <2>10, <2>11 DEF Procedure
  <1> QED BY <1>1, <1>2, <1>3, WakeMove

\* The invariant of the wake-ups is inductive.
LEMMA WakeNext ==
    ASSUME ControlInv, DataTypeOK, WakeInv, [Next]_vars
    PROVE  WakeInv'
  <1>1. CASE UNCHANGED vars
    BY <1>1 DEF vars, slot, queues, signals, env, locals, WakeInv, QueuesNotes, Undisturbed,
       SlotServed, Clears, IdleOwed, IdleWaits, MailOwed, MailWaits, TakesToReplace
  <1> QED BY <1>1, SubmissionWake, ExternalWake, ProcedureWake, BodyWake, FinishWake DEF Next

\* Nobody under way means nobody to wait for.
LEMMA RestIsIdle ==
    ASSUME ControlInv, WakeInv
    PROVE  WakeUpsKept
  <1> SUFFICES ASSUME Undisturbed, \A th \in Threads : AtRest(th)
               PROVE  active = NoObj /\ ~WorkWaits
    BY DEF WakeUpsKept, NothingStranded, Undisturbed
  <1>1. SlotServed /\ IdleOwed /\ MailOwed
    BY DEF WakeInv
  <1>2. \A th \in Threads : pc[th] \notin MailWakers \cup FinPcs \cup BodyPcs
    BY DEF AtRest, MailWakers, IdleWakers, StartTaskPcs, AbortPcs, FinPcs, BodyPcs
  <1>3. active = NoObj
    <2> SUFFICES ASSUME active # NoObj PROVE FALSE
      OBVIOUS
    <2>1. tasks[active] # <<>>
      BY <1>1, <1>2 DEF SlotServed, Clears, MailWakers, IdleWakers
    <2>2. tasks[active] \in Seq(Turns)
      BY DEF ControlInv, ControlTypeOK
    <2>3. PICK t \in Turns : InActiveTurn(t)
      BY <2>1, <2>2 DEF InActiveTurn, InSeq
    <2>4. t \in Threads /\ pc[t] \in BodyPcs
      BY <2>3 DEF ControlInv, NoZombieTask, Threads
    <2> QED BY <1>2, <2>4
  <1>4. ~IdleWaits /\ ~MailWaits
    BY <1>1, <1>2, <1>3 DEF IdleOwed, MailOwed, MailWakers
  <1> QED BY <1>3, <1>4 DEF WorkWaits, IdleWaits, MailWaits

\* For any number of turns and any schedule: while no task was aborted and no Op
\* took a finishing turn's ActiveTurn, a session comes to rest only without an
\* ActiveTurn and without work that should wake it.
THEOREM NoWakeUpLost == Spec => []WakeUpsKept
  <1>1. Init => ObjHeld /\ DataTypeOK /\ WakeInv
    BY DataInit, ThreadsAssumption
       DEF Init, WakeInv, QueuesNotes, SlotServed, IdleOwed, IdleWaits, MailOwed, MailWaits,
           TakesToReplace, InSeq, Threads
  <1>2. /\ ControlInv /\ ObjHeld /\ DataTypeOK /\ WakeInv /\ [Next]_vars
           => ObjHeld' /\ DataTypeOK' /\ WakeInv'
    BY ObjHeldNext, DataNext, WakeNext DEF ControlInv
  <1>3. ControlInv /\ WakeInv => WakeUpsKept
    BY RestIsIdle
  <1> QED BY <1>1, <1>2, <1>3, ControlCorrect, PTL DEF Spec
=============================================================================
