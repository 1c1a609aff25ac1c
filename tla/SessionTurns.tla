--------------------------- MODULE SessionTurns ---------------------------
(***************************************************************************)
(* The turn lifecycle of one `Session` (codex-rs/core): how tasks are      *)
(* started, steered, interrupted, replaced and finished by tokio tasks     *)
(* that share `Session::active_turn`.                                      *)
(*                                                                         *)
(* A step is one critical section (one guard of the `active_turn`,         *)
(* `turn_state`, `idle_pending_input` or `mailbox_rx` mutex) with the      *)
(* thread-local work around it; threads interleave between steps.          *)
(*                                                                         *)
(* Threads: the submission loop (serial), the scheduler that fires prompts *)
(* (claude_code.rs) and finishes auxiliary shell commands, the guardian's  *)
(* spawned abort, and the tokio task of every turn, which runs the task    *)
(* body, then on_task_finished, then starts the next turn itself.          *)
(*                                                                         *)
(* Feature::Goals is off here: goal_continuation_candidate_if_active       *)
(* returns None and the goal events change none of this state.             *)
(***************************************************************************)
EXTENDS Integers, Sequences, FiniteSets

CONSTANTS
    Turns,          \* turn sub-ids; a bound on how many turns are started
    Objs,           \* ActiveTurn allocations (the identity Arc::ptr_eq sees)
    Loop, Background, Guardian,     \* the threads that are not turns
    NoObj, NoTurn,
    UserItems,      \* Op::UserInput / Op::UserTurn
    MailItems,      \* Op::InterAgentCommunication
    TriggerMail,    \* the mail with trigger_turn set
    DeniedItems,    \* Op::ApproveGuardianDeniedAction
    SchedItems,     \* prompts the scheduler fires
    AuxItems,       \* outputs of auxiliary user shell commands
    StandaloneKinds,\* which of "Shell", "Compact", "Review" are submitted
    MaxOps,         \* bound on interrupts, shutdowns and standalone tasks
    GuardianAborts, \* whether the guardian's circuit breaker may trip
    HookBlocks,     \* whether a UserPromptSubmit hook may block an item
    Approvals       \* whether tools ask the user for approval

Items == UserItems \cup MailItems \cup DeniedItems \cup SchedItems \cup AuxItems
Threads == {Loop, Background, Guardian} \cup Turns

ASSUME ThreadsAssumption ==
    /\ Loop \notin Turns /\ Background \notin Turns /\ Guardian \notin Turns
    /\ Loop # Background /\ Loop # Guardian /\ Background # Guardian
ASSUME SentinelsAssumption == NoObj \notin Objs /\ NoTurn \notin Turns
ASSUME InputsAssumption ==
    /\ TriggerMail \subseteq MailItems
    /\ StandaloneKinds \subseteq {"Shell", "Compact", "Review"}
    /\ MaxOps \in Nat
    /\ GuardianAborts \in BOOLEAN /\ HookBlocks \in BOOLEAN /\ Approvals \in BOOLEAN

VARIABLES
    active,     \* Session::active_turn: NoObj or the installed ActiveTurn
    tasks,      \* ActiveTurn::tasks, in IndexMap order
    pend,       \* TurnState::pending_input
    phase,      \* TurnState::mailbox_delivery_phase
    approvals,  \* TurnState::pending_approvals: turns whose tool is waiting
    idle,       \* Session::idle_pending_input
    mailbox,    \* Session::mailbox_rx
    kind,       \* RunningTask::kind ("Shell" is TaskKind::Regular)
    input,      \* the input a task was started with
    cancelled,  \* turns whose CancellationToken is cancelled
    killed,     \* turns whose JoinHandle was aborted or dropped
    ended,      \* terminal events sent for a turn, in order
    granted,    \* turns whose approval was answered and not yet consumed
    unsent,     \* inputs of the outside world still to come
    recorded,   \* items in the conversation history
    refused,    \* items reported back as an error, or blocked by a hook
    ops,        \* interrupts, shutdowns and standalone tasks submitted so far
    closing,    \* Op::Shutdown was received
    pc, tgt, obj, hand, victims, why    \* locals of each thread

slot      == <<active, tasks>>
turnState == <<pend, phase, approvals>>
queues    == <<idle, mailbox>>
signals   == <<cancelled, killed, ended>>
params    == <<kind, input>>
log       == <<unsent, recorded, refused>>
env       == <<ops, closing, granted>>
locals    == <<tgt, obj, hand, victims, why>>
vars == <<slot, turnState, queues, signals, params, log, env, pc, locals>>

-----------------------------------------------------------------------------
(* The program counters. A turn is "unborn" until start_task spawns it.    *)

AbortPcs == {"abort_take", "abort_each", "abort_kill", "abort_pending", "abort_clear"}
StartPcs == {"queue", "requeue", "maybe_idle", "maybe_mail", "maybe_reserve",
             "start_idle", "start_turn", "start_mail", "start_obj", "start_push",
             "start_spawn"}
\* RegularTask::run and run_turn, up to the removal of the task.
BodyPcs  == {"begin", "enter", "drain_turn", "drain_mail", "inspect", "sample",
             "approval", "tool", "answered", "check", "flush", "fin_remove"}
FinPcs   == {"fin_take", "fin_record", "fin_clear"}
Pcs == AbortPcs \cup StartPcs \cup BodyPcs \cup FinPcs
           \cup {"ready", "exited", "unborn", "done", "dead"}

Kinds == {"Regular", "Shell", "Compact", "Review"}
Reasons == {"none", "Replaced", "Interrupted"}

ControlTypeOK ==
    /\ active \in Objs \cup {NoObj}
    /\ tasks \in [Objs -> Seq(Turns)]
    /\ approvals \in [Objs -> SUBSET Turns]
    /\ cancelled \subseteq Turns /\ killed \subseteq Turns /\ granted \subseteq Turns
    /\ ended \in [Turns -> Seq({"TurnComplete", "TurnAborted"})]
    /\ kind \in [Turns -> Kinds]
    /\ ops \in 0 .. MaxOps /\ closing \in BOOLEAN
    /\ pc \in [Threads -> Pcs]
    /\ tgt \in [Threads -> Turns \cup {NoTurn}]
    /\ obj \in [Threads -> Objs \cup {NoObj}]
    /\ victims \in [Threads -> Seq(Turns)]
    /\ why \in [Threads -> Reasons]

DataTypeOK ==
    /\ pend \in [Objs -> Seq(Items)]
    /\ phase \in [Objs -> {"CurrentTurn", "NextTurn"}]
    /\ idle \in Seq(Items) /\ mailbox \in Seq(Items)
    /\ input \in [Turns -> Seq(Items)]
    /\ hand \in [Threads -> Seq(Items)]
    /\ unsent \subseteq Items /\ recorded \subseteq Items /\ refused \subseteq Items

TypeOK == ControlTypeOK /\ DataTypeOK

Init ==
    /\ active = NoObj
    /\ tasks = [o \in Objs |-> <<>>]
    /\ pend = [o \in Objs |-> <<>>]
    /\ phase = [o \in Objs |-> "CurrentTurn"]
    /\ approvals = [o \in Objs |-> {}]
    /\ idle = <<>> /\ mailbox = <<>>
    /\ kind = [t \in Turns |-> "Regular"] /\ input = [t \in Turns |-> <<>>]
    /\ cancelled = {} /\ killed = {} /\ ended = [t \in Turns |-> <<>>]
    /\ granted = {}
    /\ unsent = Items /\ recorded = {} /\ refused = {}
    /\ ops = 0 /\ closing = FALSE
    /\ pc = [th \in Threads |-> IF th \in Turns THEN "unborn" ELSE "ready"]
    /\ tgt = [th \in Threads |-> NoTurn] /\ obj = [th \in Threads |-> NoObj]
    /\ hand = [th \in Threads |-> <<>>] /\ victims = [th \in Threads |-> <<>>]
    /\ why = [th \in Threads |-> "none"]

-----------------------------------------------------------------------------
(* Helpers.                                                                *)

InSeq(x, s) == \E k \in DOMAIN s : s[k] = x

\* IndexMap::swap_remove: the last entry takes the place of the removed one.
SwapRemove(s, t) ==
    IF ~InSeq(t, s) THEN s
    ELSE LET k == CHOOSE k \in DOMAIN s : s[k] = t
         IN  [j \in 1 .. (Len(s) - 1) |-> IF j = k THEN s[Len(s)] ELSE s[j]]

\* An ActiveTurn lives while the session or a thread refers to it.
Live(o) == o = active \/ \E th \in Threads : obj[th] = o
FreshObjs == {o \in Objs : ~Live(o)}
FreshObj == CHOOSE o \in FreshObjs : TRUE

\* Sub-ids are fresh UUIDs or submission ids.
FreshTurns == {t \in Turns : pc[t] = "unborn" /\ \A th \in Threads : tgt[th] # t}
FreshTurn == CHOOSE t \in FreshTurns : TRUE

Goto(th, label) == pc' = [pc EXCEPT ![th] = label]

\* The end of the procedure a thread is in.
Return(th) ==
    /\ Goto(th, IF th \in Turns THEN "done"
                ELSE IF th = Guardian \/ (th = Loop /\ closing) THEN "exited"
                ELSE "ready")
    /\ tgt' = [tgt EXCEPT ![th] = NoTurn]
    /\ obj' = [obj EXCEPT ![th] = NoObj]
    /\ hand' = [hand EXCEPT ![th] = <<>>]
    /\ why' = [why EXCEPT ![th] = "none"]

\* *active_turn = Some(ActiveTurn::default())
InstallFresh(o) ==
    /\ active' = o
    /\ tasks' = [tasks EXCEPT ![o] = <<>>]
    /\ pend' = [pend EXCEPT ![o] = <<>>]
    /\ phase' = [phase EXCEPT ![o] = "CurrentTurn"]
    /\ approvals' = [approvals EXCEPT ![o] = {}]

HasActiveTask == active # NoObj /\ tasks[active] # <<>>
Steerable(k) == k \in {"Regular", "Shell"}

\* Session::has_pending_input. It reads the turn and then the mailbox under two
\* locks; only the mailbox can grow in between, so one read stands for both.
HasPendingInput ==
    \/ active # NoObj /\ pend[active] # <<>>
    \/ (active # NoObj => phase[active] = "CurrentTurn") /\ mailbox # <<>>

-----------------------------------------------------------------------------
(* The submission loop: one Op at a time.                                  *)

\* user_input_or_turn_inner when steer_input accepts the input.
SteerInput(i) ==
    /\ pc[Loop] = "ready" /\ i \in unsent \cap UserItems
    /\ HasActiveTask /\ Steerable(kind[Head(tasks[active])])
    /\ pend' = [pend EXCEPT ![active] = Append(@, i)]
    /\ phase' = [phase EXCEPT ![active] = "CurrentTurn"]
    /\ unsent' = unsent \ {i}
    /\ UNCHANGED <<slot, approvals, queues, signals, params, recorded, refused, env,
                   pc, locals>>

\* steer_input answers ActiveTurnNotSteerable: the client gets an error.
SteerRefused(i) ==
    /\ pc[Loop] = "ready" /\ i \in unsent \cap UserItems
    /\ HasActiveTask /\ ~Steerable(kind[Head(tasks[active])])
    /\ unsent' = unsent \ {i} /\ refused' = refused \cup {i}
    /\ UNCHANGED <<slot, turnState, queues, signals, params, recorded, env, pc, locals>>

\* spawn_task(k): a fresh turn that first replaces whatever is active.
SpawnTask(k, initial) ==
    /\ FreshTurns # {}
    /\ tgt' = [tgt EXCEPT ![Loop] = FreshTurn]
    /\ kind' = [kind EXCEPT ![FreshTurn] = k]
    /\ input' = [input EXCEPT ![FreshTurn] = initial]
    /\ why' = [why EXCEPT ![Loop] = "Replaced"]
    /\ Goto(Loop, "abort_take")

\* user_input_or_turn_inner when steer_input answers NoActiveTurn.
UserTurn(i) ==
    /\ pc[Loop] = "ready" /\ i \in unsent \cap UserItems
    /\ ~HasActiveTask
    /\ SpawnTask("Regular", <<i>>)
    /\ unsent' = unsent \ {i}
    /\ UNCHANGED <<slot, turnState, queues, signals, recorded, refused, env, obj, hand,
                   victims>>

\* Op::Compact, Op::Review and Op::Undo / Op::RunUserShellCommand. A shell
\* command beside a running task is an auxiliary one (AuxiliaryOutput).
StandaloneTask(k) ==
    /\ pc[Loop] = "ready" /\ ops < MaxOps
    /\ SpawnTask(k, <<>>)
    /\ ops' = ops + 1
    /\ UNCHANGED <<slot, turnState, queues, signals, log, closing, granted, obj, hand,
                   victims>>

\* Op::Interrupt, and an approval answered with ReviewDecision::Abort.
Interrupt ==
    /\ pc[Loop] = "ready" /\ ops < MaxOps
    /\ ops' = ops + 1
    /\ why' = [why EXCEPT ![Loop] = "Interrupted"]
    /\ Goto(Loop, "abort_take")
    /\ UNCHANGED <<slot, turnState, queues, signals, params, log, closing, granted, tgt,
                   obj, hand, victims>>

\* Op::Shutdown: the loop exits once abort_all_tasks has returned.
Shutdown ==
    /\ pc[Loop] = "ready" /\ ops < MaxOps
    /\ ops' = ops + 1
    /\ closing' = TRUE
    /\ why' = [why EXCEPT ![Loop] = "Interrupted"]
    /\ Goto(Loop, "abort_take")
    /\ UNCHANGED <<slot, turnState, queues, signals, params, log, granted, tgt, obj, hand,
                   victims>>

\* Fault for InterAgentCommunication: mail that should start a turn does not.
InterAgentCommunicationUnwoken(i) ==
    /\ pc[Loop] = "ready" /\ i \in unsent \cap MailItems
    /\ mailbox' = Append(mailbox, i)
    /\ unsent' = unsent \ {i}
    /\ UNCHANGED <<slot, turnState, idle, signals, params, recorded, refused, env, pc, locals>>

\* inter_agent_communication
InterAgentCommunication(i) ==
    /\ pc[Loop] = "ready" /\ i \in unsent \cap MailItems
    /\ mailbox' = Append(mailbox, i)
    /\ unsent' = unsent \ {i}
    /\ Goto(Loop, IF i \in TriggerMail THEN "maybe_idle" ELSE "ready")
    /\ UNCHANGED <<slot, turnState, idle, signals, params, recorded, refused, env, locals>>

\* Fault for ExecApproval: the entry is removed and its sender dropped.
ExecApprovalUnsent(t) ==
    /\ pc[Loop] = "ready"
    /\ active # NoObj /\ t \in approvals[active]
    /\ approvals' = [approvals EXCEPT ![active] = @ \ {t}]
    /\ UNCHANGED <<slot, pend, phase, queues, signals, params, log, env, pc, locals>>

\* exec_approval / patch_approval: notify_approval finds the waiting sender.
ExecApproval(t) ==
    /\ pc[Loop] = "ready"
    /\ active # NoObj /\ t \in approvals[active]
    /\ approvals' = [approvals EXCEPT ![active] = @ \ {t}]
    /\ granted' = granted \cup {t}
    /\ UNCHANGED <<slot, pend, phase, queues, signals, params, log, ops, closing, pc, locals>>

\* Fault for ApproveDeniedAction: what inject_response_items gives back is dropped.
ApproveDeniedDropped(i) ==
    /\ pc[Loop] = "ready" /\ i \in unsent \cap DeniedItems
    /\ unsent' = unsent \ {i}
    /\ pend' = IF active = NoObj THEN pend ELSE [pend EXCEPT ![active] = Append(@, i)]
    /\ UNCHANGED <<slot, phase, approvals, queues, signals, params, recorded, refused, env,
                   pc, locals>>

\* approve_guardian_denied_action: inject_response_items, or queue on Err.
ApproveDeniedAction(i) ==
    /\ pc[Loop] = "ready" /\ i \in unsent \cap DeniedItems
    /\ unsent' = unsent \ {i}
    /\ \/ /\ active # NoObj
          /\ pend' = [pend EXCEPT ![active] = Append(@, i)]
          /\ UNCHANGED <<pc, hand>>
       \/ /\ active = NoObj
          /\ hand' = [hand EXCEPT ![Loop] = <<i>>]
          /\ Goto(Loop, "queue")
          /\ UNCHANGED pend
    /\ UNCHANGED <<slot, phase, approvals, queues, signals, params, recorded, refused, env,
                   tgt, obj, victims, why>>

-----------------------------------------------------------------------------
(* The other threads' entry points.                                        *)

\* fire_scheduled_prompt: queue the prompt, then maybe_start_turn.
FireScheduledPrompt(i) ==
    /\ pc[Background] = "ready" /\ i \in unsent \cap SchedItems
    /\ unsent' = unsent \ {i}
    /\ hand' = [hand EXCEPT ![Background] = <<i>>]
    /\ Goto(Background, "requeue")
    /\ UNCHANGED <<slot, turnState, queues, signals, params, recorded, refused, env, tgt,
                   obj, victims, why>>

\* persist_user_shell_output of an auxiliary command: inject, or record on Err.
AuxiliaryOutput(i) ==
    /\ pc[Background] = "ready" /\ i \in unsent \cap AuxItems
    /\ unsent' = unsent \ {i}
    /\ \/ /\ active # NoObj
          /\ pend' = [pend EXCEPT ![active] = Append(@, i)]
          /\ UNCHANGED recorded
       \/ /\ active = NoObj
          /\ recorded' = recorded \cup {i}
          /\ UNCHANGED pend
    /\ UNCHANGED <<slot, phase, approvals, queues, signals, params, refused, env, pc, locals>>

\* abort_turn_if_active, spawned when the guardian's circuit breaker trips.
AbortTurnIfActive(t) ==
    /\ GuardianAborts /\ pc[Guardian] = "ready"
    /\ active # NoObj /\ InSeq(t, tasks[active])
    /\ obj' = [obj EXCEPT ![Guardian] = active]
    /\ victims' = [victims EXCEPT ![Guardian] = tasks[active]]
    /\ why' = [why EXCEPT ![Guardian] = "Interrupted"]
    /\ tasks' = [tasks EXCEPT ![active] = <<>>]
    /\ active' = NoObj
    /\ Goto(Guardian, "abort_each")
    /\ UNCHANGED <<turnState, queues, signals, params, log, env, tgt, hand>>

-----------------------------------------------------------------------------
(* abort_all_tasks, abort_turn_if_active and handle_task_abort.            *)

\* take_active_turn and drain_tasks. An ActiveTurn without tasks is dropped.
AbortTake(th) ==
    /\ pc[th] = "abort_take"
    /\ active' = NoObj
    /\ \/ /\ HasActiveTask
          /\ obj' = [obj EXCEPT ![th] = active]
          /\ victims' = [victims EXCEPT ![th] = tasks[active]]
          /\ tasks' = [tasks EXCEPT ![active] = <<>>]
          /\ Goto(th, "abort_each")
          /\ UNCHANGED <<tgt, hand, why>>
       \/ /\ ~HasActiveTask /\ why[th] = "Replaced"
          /\ Goto(th, "start_idle")
          /\ UNCHANGED <<tasks, locals>>
       \/ /\ ~HasActiveTask /\ why[th] = "Interrupted"
          /\ Return(th)
          /\ UNCHANGED <<tasks, victims>>
    /\ UNCHANGED <<turnState, queues, signals, params, log, env>>

AbortNext(th, rest) ==
    IF rest # <<>> THEN "abort_each"
    ELSE IF why[th] = "Interrupted" THEN "abort_pending" ELSE "abort_clear"

\* A task that is already cancelled is skipped, and its handle dropped.
AbortCancel(th) ==
    /\ pc[th] = "abort_each"
    /\ LET v == Head(victims[th])
           again == v \in cancelled
       IN  /\ cancelled' = cancelled \cup {v}
           /\ killed' = IF again THEN killed \cup {v} ELSE killed
           /\ victims' = IF again THEN [victims EXCEPT ![th] = Tail(@)] ELSE victims
           /\ Goto(th, IF again THEN AbortNext(th, Tail(victims[th])) ELSE "abort_kill")
    /\ UNCHANGED <<slot, turnState, queues, ended, params, log, env, tgt, obj, hand, why>>

\* Fault for AbortKill: the JoinHandle is not aborted after the grace period.
AbortKillNoHandle(th) ==
    /\ pc[th] = "abort_kill"
    /\ ended' = [ended EXCEPT ![Head(victims[th])] = Append(@, "TurnAborted")]
    /\ victims' = [victims EXCEPT ![th] = Tail(@)]
    /\ Goto(th, AbortNext(th, Tail(victims[th])))
    /\ UNCHANGED <<slot, turnState, queues, cancelled, killed, params, log, env, tgt, obj,
                   hand, why>>

\* Fault for AbortKill: the task is killed without a TurnAborted event.
AbortKillSilent(th) ==
    /\ pc[th] = "abort_kill"
    /\ killed' = killed \cup {Head(victims[th])}
    /\ victims' = [victims EXCEPT ![th] = Tail(@)]
    /\ Goto(th, AbortNext(th, Tail(victims[th])))
    /\ UNCHANGED <<slot, turnState, queues, cancelled, ended, params, log, env, tgt, obj,
                   hand, why>>

\* The task was notified as done, or 100 ms passed: abort the JoinHandle and
\* send TurnAborted.
AbortKill(th) ==
    /\ pc[th] = "abort_kill"
    /\ LET v == Head(victims[th])
       IN  /\ killed' = killed \cup {v}
           /\ ended' = [ended EXCEPT ![v] = Append(@, "TurnAborted")]
    /\ victims' = [victims EXCEPT ![th] = Tail(@)]
    /\ Goto(th, AbortNext(th, Tail(victims[th])))
    /\ UNCHANGED <<slot, turnState, queues, cancelled, params, log, env, tgt, obj, hand, why>>

\* clear_pending_after_abort: an interrupt keeps the pending input.
AbortPending(th) ==
    /\ pc[th] = "abort_pending"
    /\ hand' = [hand EXCEPT ![th] = pend[obj[th]]]
    /\ pend' = [pend EXCEPT ![obj[th]] = <<>>]
    /\ Goto(th, "abort_clear")
    /\ UNCHANGED <<slot, phase, approvals, queues, signals, params, log, env, tgt, obj,
                   victims, why>>

\* ActiveTurn::clear_pending drops the approval senders and the pending input.
AbortClear(th) ==
    /\ pc[th] = "abort_clear"
    /\ pend' = [pend EXCEPT ![obj[th]] = <<>>]
    /\ approvals' = [approvals EXCEPT ![obj[th]] = {}]
    /\ obj' = [obj EXCEPT ![th] = NoObj]
    /\ Goto(th, IF why[th] = "Replaced" THEN "start_idle"
                ELSE IF hand[th] # <<>> THEN "requeue" ELSE "maybe_idle")
    /\ UNCHANGED <<slot, phase, queues, signals, params, log, env, tgt, hand, victims, why>>

-----------------------------------------------------------------------------
(* queue_response_items_for_next_turn, maybe_start_turn_for_pending_work.  *)

QueueItems(th) ==
    /\ pc[th] \in {"queue", "requeue"}
    /\ idle' = idle \o hand[th]
    /\ \/ /\ pc[th] = "queue"
          /\ Return(th)
       \/ /\ pc[th] = "requeue"
          /\ hand' = [hand EXCEPT ![th] = <<>>]
          /\ Goto(th, "maybe_idle")
          /\ UNCHANGED <<tgt, obj, why>>
    /\ UNCHANGED <<slot, turnState, mailbox, signals, params, log, env, victims>>

\* has_queued_response_items_for_next_turn
MaybeStartIdle(th) ==
    /\ pc[th] = "maybe_idle"
    /\ Goto(th, IF idle # <<>> THEN "maybe_reserve" ELSE "maybe_mail")
    /\ UNCHANGED <<slot, turnState, queues, signals, params, log, env, locals>>

\* has_trigger_turn_mailbox_items
MaybeStartMail(th) ==
    /\ pc[th] = "maybe_mail"
    /\ \/ /\ \E m \in TriggerMail : InSeq(m, mailbox)
          /\ Goto(th, "maybe_reserve")
          /\ UNCHANGED <<tgt, obj, hand, why>>
       \/ /\ ~\E m \in TriggerMail : InSeq(m, mailbox)
          /\ Return(th)
    /\ UNCHANGED <<slot, turnState, queues, signals, params, log, env, victims>>

\* Reserve the slot with an empty ActiveTurn, unless one is installed.
MaybeStartReserve(th) ==
    /\ pc[th] = "maybe_reserve"
    /\ \/ /\ active # NoObj
          /\ Return(th)
          /\ UNCHANGED <<slot, turnState, params>>
       \/ /\ active = NoObj
          /\ FreshObjs # {} /\ FreshTurns # {}
          /\ InstallFresh(FreshObj)
          /\ tgt' = [tgt EXCEPT ![th] = FreshTurn]
          /\ kind' = [kind EXCEPT ![FreshTurn] = "Regular"]
          /\ input' = [input EXCEPT ![FreshTurn] = <<>>]
          /\ Goto(th, "start_idle")
          /\ UNCHANGED <<obj, hand, why>>
    /\ UNCHANGED <<queues, signals, log, env, victims>>

-----------------------------------------------------------------------------
(* get_pending_input takes the turn's pending input under active_turn and  *)
(* drains the mailbox under another lock when the turn accepts mail.       *)

\* Fault for TakePending: the pending input is copied, not taken.
TakePendingCopy(th, mailLabel, doneLabel) ==
    /\ hand' = IF active = NoObj THEN hand
               ELSE [hand EXCEPT ![th] = @ \o pend[active]]
    /\ Goto(th, IF active # NoObj => phase[active] = "CurrentTurn" THEN mailLabel
                ELSE doneLabel)
    /\ UNCHANGED <<slot, turnState, queues, signals, params, log, env, tgt, obj, victims, why>>

TakePending(th, mailLabel, doneLabel) ==
    LET accepts == active # NoObj => phase[active] = "CurrentTurn"
    IN  /\ \/ /\ active # NoObj
              /\ hand' = [hand EXCEPT ![th] = @ \o pend[active]]
              /\ pend' = [pend EXCEPT ![active] = <<>>]
           \/ /\ active = NoObj
              /\ UNCHANGED <<hand, pend>>
        /\ Goto(th, IF accepts THEN mailLabel ELSE doneLabel)
        /\ UNCHANGED <<slot, phase, approvals, queues, signals, params, log, env, tgt, obj,
                       victims, why>>

DrainMailbox(th, doneLabel) ==
    /\ hand' = [hand EXCEPT ![th] = @ \o mailbox]
    /\ mailbox' = <<>>
    /\ Goto(th, doneLabel)
    /\ UNCHANGED <<slot, turnState, idle, signals, params, log, env, tgt, obj, victims, why>>

-----------------------------------------------------------------------------
(* start_task                                                              *)

\* take_queued_response_items_for_next_turn
StartTakeIdle(th) ==
    /\ pc[th] = "start_idle"
    /\ hand' = [hand EXCEPT ![th] = idle]
    /\ idle' = <<>>
    /\ Goto(th, "start_turn")
    /\ UNCHANGED <<slot, turnState, mailbox, signals, params, log, env, tgt, obj, victims, why>>

StartTakePending(th) == pc[th] = "start_turn" /\ TakePending(th, "start_mail", "start_obj")
StartDrainMailbox(th) == pc[th] = "start_mail" /\ DrainMailbox(th, "start_obj")

\* get_or_insert_with(ActiveTurn::default): the thread keeps the turn_state.
StartGetTurn(th) ==
    /\ pc[th] = "start_obj"
    /\ \/ /\ active # NoObj
          /\ obj' = [obj EXCEPT ![th] = active]
          /\ UNCHANGED <<slot, turnState>>
       \/ /\ active = NoObj /\ FreshObjs # {}
          /\ InstallFresh(FreshObj)
          /\ obj' = [obj EXCEPT ![th] = FreshObj]
    /\ Goto(th, "start_push")
    /\ UNCHANGED <<queues, signals, params, log, env, tgt, hand, victims, why>>

\* Fault for StartPush: the items are pushed as one entry.
StartPushNested(th) ==
    /\ pc[th] = "start_push"
    /\ pend' = [pend EXCEPT ![obj[th]] = Append(@, hand[th])]
    /\ hand' = [hand EXCEPT ![th] = <<>>]
    /\ Goto(th, "start_spawn")
    /\ UNCHANGED <<slot, phase, approvals, queues, signals, params, log, env, tgt, obj,
                   victims, why>>

\* The queued items and the mail become pending input of that turn_state.
StartPush(th) ==
    /\ pc[th] = "start_push"
    /\ pend' = [pend EXCEPT ![obj[th]] = @ \o hand[th]]
    /\ hand' = [hand EXCEPT ![th] = <<>>]
    /\ Goto(th, "start_spawn")
    /\ UNCHANGED <<slot, phase, approvals, queues, signals, params, log, env, tgt, obj,
                   victims, why>>

\* get_or_insert_with again; spawn the task and add_task it.
StartSpawn(th) ==
    /\ pc[th] = "start_spawn"
    /\ LET t == tgt[th]
           after == IF th \in Turns THEN "done"
                    ELSE IF th = Guardian \/ (th = Loop /\ closing) THEN "exited"
                    ELSE "ready"
       IN  /\ \/ /\ active # NoObj
                 /\ tasks' = [tasks EXCEPT ![active] = Append(@, t)]
                 /\ UNCHANGED <<active, turnState>>
              \/ /\ active = NoObj /\ FreshObjs # {}
                 /\ active' = FreshObj
                 /\ tasks' = [tasks EXCEPT ![FreshObj] = <<t>>]
                 /\ pend' = [pend EXCEPT ![FreshObj] = <<>>]
                 /\ phase' = [phase EXCEPT ![FreshObj] = "CurrentTurn"]
                 /\ approvals' = [approvals EXCEPT ![FreshObj] = {}]
           /\ pc' = [pc EXCEPT ![th] = after, ![t] = "begin"]
    /\ tgt' = [tgt EXCEPT ![th] = NoTurn]
    /\ obj' = [obj EXCEPT ![th] = NoObj]
    /\ why' = [why EXCEPT ![th] = "none"]
    /\ UNCHANGED <<queues, signals, params, log, env, hand, victims>>

-----------------------------------------------------------------------------
(* The body of a turn's tokio task: RegularTask::run around run_turn.      *)

BodyUnchanged == UNCHANGED <<slot, params, queues, signals, log, env, locals>>

\* Undo, shell, compact and review tasks never touch the state modelled here.
RunStandalone(t) ==
    /\ pc[t] = "begin" /\ kind[t] # "Regular"
    /\ Goto(t, "flush")
    /\ BodyUnchanged /\ UNCHANGED turnState

\* consume_startup_prewarm_for_regular_turn observes the cancellation.
PrewarmCancelled(t) ==
    /\ pc[t] = "begin" /\ kind[t] = "Regular" /\ t \in cancelled
    /\ Goto(t, "flush")
    /\ BodyUnchanged /\ UNCHANGED turnState

\* The first run_turn: the prompt is recorded, or run_turn returns before that
\* (a hook stopped it, compaction failed).
BeginWithInput(t) ==
    /\ pc[t] = "begin" /\ kind[t] = "Regular" /\ input[t] # <<>>
    /\ \/ /\ recorded' = recorded \cup {Head(input[t])}
          /\ Goto(t, "sample")
          /\ UNCHANGED refused
       \/ /\ refused' = refused \cup {Head(input[t])}
          /\ Goto(t, "check")
          /\ UNCHANGED recorded
    /\ input' = [input EXCEPT ![t] = <<>>]
    /\ UNCHANGED <<slot, turnState, queues, signals, kind, unsent, env, locals>>

BeginWithoutInput(t) ==
    /\ pc[t] = "begin" /\ kind[t] = "Regular" /\ input[t] = <<>>
    /\ Goto(t, "enter")
    /\ BodyUnchanged /\ UNCHANGED turnState

\* run_turn with no input goes on to drain what is pending ...
EnterRunTurn(t) ==
    /\ pc[t] = "enter" /\ HasPendingInput
    /\ Goto(t, "drain_turn")
    /\ BodyUnchanged /\ UNCHANGED turnState

\* ... and returns at once when nothing is, or when a step before the drain
\* fails (pre-sampling compaction, a session-start hook).
ReturnFromRunTurn(t) ==
    /\ pc[t] = "enter"
    /\ Goto(t, "check")
    /\ BodyUnchanged /\ UNCHANGED turnState

\* The head of run_turn's loop: a pending session-start hook stops the turn.
SessionStartHookStops(t) ==
    /\ HookBlocks /\ pc[t] = "drain_turn"
    /\ Goto(t, "check")
    /\ BodyUnchanged /\ UNCHANGED turnState

DrainTurn(t) == pc[t] = "drain_turn" /\ TakePending(t, "drain_mail", "inspect")
DrainMail(t) == pc[t] = "drain_mail" /\ DrainMailbox(t, "inspect")

\* inspect_pending_input runs hooks item by item. The accepted prefix is
\* recorded; when a hook blocks an item, the items behind it are prepended to
\* the pending input of the active turn (or dropped when there is none).
InspectPending(t) ==
    /\ pc[t] = "inspect"
    /\ \E n \in 0 .. Len(hand[t]) :
          LET accepted == SubSeq(hand[t], 1, n)
              blocked  == SubSeq(hand[t], n + 1, n + 1)
              rest     == SubSeq(hand[t], n + 2, Len(hand[t]))
          IN  /\ n = Len(hand[t]) \/ HookBlocks
              /\ recorded' = recorded \cup {accepted[k] : k \in DOMAIN accepted}
              /\ refused' = IF n < Len(hand[t]) THEN refused \cup {blocked[1]} ELSE refused
              /\ pend' = IF active = NoObj THEN pend
                         ELSE [pend EXCEPT ![active] = rest \o @]
              /\ Goto(t, IF n > 0 \/ hand[t] = <<>> THEN "sample"
                         ELSE IF rest # <<>> THEN "drain_turn" ELSE "check")
    /\ hand' = [hand EXCEPT ![t] = <<>>]
    /\ UNCHANGED <<slot, phase, approvals, queues, signals, params, unsent, env, tgt, obj,
                   victims, why>>

\* The model calls a tool: accept_mailbox_delivery_for_current_turn.
ToolCall(t) ==
    /\ pc[t] = "sample"
    /\ phase' = IF active # NoObj /\ InSeq(t, tasks[active])
                THEN [phase EXCEPT ![active] = "CurrentTurn"] ELSE phase
    /\ Goto(t, "tool")
    /\ BodyUnchanged /\ UNCHANGED <<pend, approvals>>

\* The tools are done: the turn follows up, with or without draining pending
\* input (mid-turn compaction), or ends because compaction failed.
FollowUp(t) ==
    /\ pc[t] = "tool"
    /\ \E label \in {"drain_turn", "sample", "check"} : Goto(t, label)
    /\ BodyUnchanged /\ UNCHANGED turnState

\* request_command_approval / request_patch_approval: without an active turn
\* the sender is dropped at once.
RequestApproval(t) ==
    /\ Approvals /\ pc[t] = "tool"
    /\ approvals' = IF active = NoObj THEN approvals
                    ELSE [approvals EXCEPT ![active] = @ \cup {t}]
    /\ Goto(t, "approval")
    /\ BodyUnchanged /\ UNCHANGED <<pend, phase>>

\* The receiver of a pending approval has lost its sender.
ApprovalDropped(t) ==
    /\ t \notin granted
    /\ \A o \in Objs : Live(o) => t \notin approvals[o]

\* rx_approve.await: an answer, or ReviewDecision::Abort for a lost sender.
ReceiveApproval(t) ==
    /\ pc[t] = "approval"
    /\ t \in granted \/ ApprovalDropped(t)
    /\ granted' = granted \ {t}
    /\ Goto(t, "tool")
    /\ UNCHANGED <<slot, turnState, params, queues, signals, log, ops, closing, locals>>

\* A cancelled tool call stops waiting.
ApprovalCancelled(t) ==
    /\ pc[t] = "approval" /\ t \in cancelled
    /\ Goto(t, "check")
    /\ BodyUnchanged /\ UNCHANGED turnState

\* The model says something that reads as a final answer, with or without tool
\* calls in the same response: defer_mailbox_delivery_to_next_turn.
AssistantMessage(t) ==
    /\ pc[t] \in {"sample", "tool"}
    /\ active # NoObj /\ InSeq(t, tasks[active]) /\ pend[active] = <<>>
    /\ phase' = [phase EXCEPT ![active] = "NextTurn"]
    /\ BodyUnchanged /\ UNCHANGED <<pend, approvals, pc>>

\* The response is complete and the model needs no follow-up.
ResponseCompleted(t) ==
    /\ pc[t] = "sample"
    /\ Goto(t, "answered")
    /\ BodyUnchanged /\ UNCHANGED turnState

\* run_sampling_request fails, or observes the cancellation.
SamplingFails(t) ==
    /\ pc[t] = "sample"
    /\ Goto(t, "check")
    /\ BodyUnchanged /\ UNCHANGED turnState

\* After the answer pending input continues the turn, unless compaction fails;
\* without any, run_turn returns or a stop hook continues the turn.
AfterAnswer(t) ==
    /\ pc[t] = "answered"
    /\ \/ HasPendingInput /\ Goto(t, "drain_turn")
       \/ Goto(t, "check")
    /\ BodyUnchanged /\ UNCHANGED turnState

StopHookContinues(t) ==
    /\ HookBlocks /\ pc[t] = "answered" /\ ~HasPendingInput
    /\ Goto(t, "drain_turn")
    /\ BodyUnchanged /\ UNCHANGED turnState

\* The loop of RegularTask::run.
RegularTaskLoop(t) ==
    /\ pc[t] = "check"
    /\ Goto(t, IF HasPendingInput THEN "enter" ELSE "flush")
    /\ BodyUnchanged /\ UNCHANGED turnState

\* The rollout was flushed; a cancelled task ends without on_task_finished.
AfterRun(t) ==
    /\ pc[t] = "flush"
    /\ Goto(t, IF t \in cancelled THEN "done" ELSE "fin_remove")
    /\ BodyUnchanged /\ UNCHANGED turnState

-----------------------------------------------------------------------------
(* on_task_finished                                                        *)

\* Fault for FinishRemove: the task stays in the ActiveTurn.
FinishRemoveKept(t) ==
    /\ pc[t] = "fin_remove"
    /\ Goto(t, "fin_record")
    /\ UNCHANGED <<slot, turnState, queues, signals, params, log, env, locals>>

\* remove_task answers whether the installed turn has no task left, be it the
\* turn of this task or not.
FinishRemove(t) ==
    /\ pc[t] = "fin_remove"
    /\ \/ /\ active # NoObj
          /\ LET left == SwapRemove(tasks[active], t)
             IN  /\ tasks' = [tasks EXCEPT ![active] = left]
                 /\ obj' = [obj EXCEPT ![t] = IF left = <<>> THEN active ELSE NoObj]
                 /\ Goto(t, IF left = <<>> THEN "fin_take" ELSE "fin_record")
       \/ /\ active = NoObj
          /\ Goto(t, "fin_record")
          /\ UNCHANGED <<tasks, obj>>
    /\ UNCHANGED <<active, turnState, queues, signals, params, log, env, tgt, hand, victims,
                   why>>

FinishTakePending(t) ==
    /\ pc[t] = "fin_take"
    /\ hand' = [hand EXCEPT ![t] = pend[obj[t]]]
    /\ pend' = [pend EXCEPT ![obj[t]] = <<>>]
    /\ Goto(t, "fin_record")
    /\ UNCHANGED <<slot, phase, approvals, queues, signals, params, log, env, tgt, obj,
                   victims, why>>

\* Left-over input is recorded unless a hook blocks it; TurnComplete is sent.
FinishRecord(t) ==
    /\ pc[t] = "fin_record"
    /\ LET left == {hand[t][k] : k \in DOMAIN hand[t]}
       IN  \E accepted \in SUBSET left :
              /\ accepted = left \/ HookBlocks
              /\ recorded' = recorded \cup accepted
              /\ refused' = refused \cup (left \ accepted)
    /\ ended' = [ended EXCEPT ![t] = Append(@, "TurnComplete")]
    /\ hand' = [hand EXCEPT ![t] = <<>>]
    /\ Goto(t, IF obj[t] # NoObj THEN "fin_clear" ELSE "done")
    /\ UNCHANGED <<slot, turnState, queues, cancelled, killed, params, unsent, env, tgt, obj,
                   victims, why>>

\* Fault for FinishClear: the tasks of the turn are not looked at again.
FinishClearUnchecked(t) ==
    /\ pc[t] = "fin_clear"
    /\ \/ active = obj[t] /\ active' = NoObj /\ Goto(t, "maybe_idle")
       \/ active # obj[t] /\ Goto(t, "done") /\ UNCHANGED active
    /\ obj' = [obj EXCEPT ![t] = NoObj]
    /\ UNCHANGED <<tasks, turnState, queues, signals, params, log, env, tgt, hand, victims,
                   why>>

\* Fault for FinishClear: no look for pending work after the clear.
FinishClearNoWake(t) ==
    /\ pc[t] = "fin_clear"
    /\ active' = IF active = obj[t] /\ tasks[active] = <<>> THEN NoObj ELSE active
    /\ Goto(t, "done")
    /\ obj' = [obj EXCEPT ![t] = NoObj]
    /\ UNCHANGED <<tasks, turnState, queues, signals, params, log, env, tgt, hand, victims,
                   why>>

\* Clear the slot if it still holds the same, empty turn; the thread that
\* cleared it goes on with maybe_continue_goal_if_idle_runtime.
FinishClear(t) ==
    /\ pc[t] = "fin_clear"
    /\ \/ /\ active = obj[t] /\ tasks[active] = <<>>
          /\ active' = NoObj
          /\ Goto(t, "maybe_idle")
       \/ /\ ~(active = obj[t] /\ tasks[active] = <<>>)
          /\ Goto(t, "done")
          /\ UNCHANGED active
    /\ obj' = [obj EXCEPT ![t] = NoObj]
    /\ UNCHANGED <<tasks, turnState, queues, signals, params, log, env, tgt, hand, victims,
                   why>>

\* An aborted JoinHandle stops its task at an await, at once or a few ready
\* awaits later. What the task held is dropped.
Die(t) ==
    /\ t \in killed /\ pc[t] \notin {"done", "dead"}
    /\ Goto(t, "dead")
    /\ tgt' = [tgt EXCEPT ![t] = NoTurn]
    /\ obj' = [obj EXCEPT ![t] = NoObj]
    /\ hand' = [hand EXCEPT ![t] = <<>>]
    /\ UNCHANGED <<slot, turnState, queues, signals, params, log, env, victims, why>>

-----------------------------------------------------------------------------
Submission ==
    \/ \E i \in UserItems : SteerInput(i) \/ SteerRefused(i) \/ UserTurn(i)
    \/ \E i \in MailItems : InterAgentCommunication(i)
    \/ \E i \in DeniedItems : ApproveDeniedAction(i)
    \/ \E k \in StandaloneKinds : StandaloneTask(k)
    \/ \E t \in Turns : ExecApproval(t)
    \/ Interrupt \/ Shutdown

External ==
    \/ \E i \in SchedItems : FireScheduledPrompt(i)
    \/ \E i \in AuxItems : AuxiliaryOutput(i)
    \/ \E t \in Turns : AbortTurnIfActive(t)

Procedure(th) ==
    \/ AbortTake(th) \/ AbortCancel(th) \/ AbortKill(th) \/ AbortPending(th)
    \/ AbortClear(th) \/ QueueItems(th)
    \/ MaybeStartIdle(th) \/ MaybeStartMail(th) \/ MaybeStartReserve(th)
    \/ StartTakeIdle(th) \/ StartTakePending(th) \/ StartDrainMailbox(th)
    \/ StartGetTurn(th) \/ StartPush(th) \/ StartSpawn(th)

Body(t) ==
    \/ RunStandalone(t) \/ PrewarmCancelled(t) \/ BeginWithInput(t) \/ BeginWithoutInput(t)
    \/ EnterRunTurn(t) \/ ReturnFromRunTurn(t) \/ SessionStartHookStops(t)
    \/ DrainTurn(t) \/ DrainMail(t) \/ InspectPending(t)
    \/ ToolCall(t) \/ FollowUp(t) \/ RequestApproval(t) \/ ReceiveApproval(t)
    \/ ApprovalCancelled(t) \/ AssistantMessage(t) \/ ResponseCompleted(t) \/ SamplingFails(t)
    \/ AfterAnswer(t) \/ StopHookContinues(t) \/ RegularTaskLoop(t) \/ AfterRun(t)

Finish(t) ==
    \/ FinishRemove(t) \/ FinishTakePending(t) \/ FinishRecord(t) \/ FinishClear(t)

Next ==
    \/ Submission
    \/ External
    \/ \E th \in Threads : Procedure(th)
    \/ \E t \in Turns : Body(t) \/ Finish(t) \/ Die(t)

Spec == Init /\ [][Next]_vars

-----------------------------------------------------------------------------
(* Safety.                                                                 *)

\* The task was drained from its ActiveTurn by a thread that is aborting it.
BeingAborted(t) == \E th \in Threads : InSeq(t, victims[th])
Doomed(t) == t \in cancelled \/ BeingAborted(t)

InActiveTurn(t) == active # NoObj /\ InSeq(t, tasks[active])

\* No running task escapes an interrupt: a task that has not removed itself in
\* on_task_finished is a task of the installed ActiveTurn, where abort_all_tasks
\* and steer_input find it, or an aborter has drained it. No interleaving of
\* start_task, the aborts and the final clear of active_turn drops an
\* ActiveTurn that still has tasks.
NoOrphanTask == \A t \in Turns : pc[t] \in BodyPcs => InActiveTurn(t) \/ Doomed(t)

\* The converse: a task of the installed ActiveTurn is running and nobody has
\* begun to abort it. Otherwise steer_input would accept input for a turn that
\* no longer exists, and the session would never become idle.
NoZombieTask == \A t \in Turns : InActiveTurn(t) => pc[t] \in BodyPcs /\ ~Doomed(t)

\* A tool waiting for the user's approval loses its sender (and reports a
\* rejection to the model) only when its turn is being aborted: neither the
\* end of another task nor a replaced placeholder drops it.
ApprovalLostOnlyByAbort ==
    \A t \in Turns : pc[t] = "approval" /\ ApprovalDropped(t) => Doomed(t)

\* No turn ends silently: when its tokio task is over (or has moved on to start
\* the next turn), TurnComplete or TurnAborted was sent for it, or the thread
\* that drained it is still about to send TurnAborted.
NoSilentEnd ==
    \A t \in Turns : pc[t] \notin BodyPcs \cup {"unborn", "fin_take", "fin_record"}
                        => ended[t] # <<>> \/ BeingAborted(t)

\* The queues an item can wait in, and the hands it can be in.
Places(i) ==
    {<<"idle", k>> : k \in {k \in DOMAIN idle : idle[k] = i}}
    \cup {<<"mailbox", k>> : k \in {k \in DOMAIN mailbox : mailbox[k] = i}}
    \cup {<<"pend", p[1], p[2]>> : p \in {p \in Objs \X (1 .. Cardinality(Items)) :
            Live(p[1]) /\ p[2] \in DOMAIN pend[p[1]] /\ pend[p[1]][p[2]] = i}}
    \cup {<<"hand", p[1], p[2]>> : p \in {p \in Threads \X (1 .. Cardinality(Items)) :
            p[2] \in DOMAIN hand[p[1]] /\ hand[p[1]][p[2]] = i}}
    \cup {<<"input", t>> : t \in {t \in Turns : pc[t] # "dead" /\ InSeq(i, input[t])}}
    \cup {<<"unsent">> : x \in unsent \cap {i}}
    \cup {<<"recorded">> : x \in recorded \cap {i}}
    \cup {<<"refused">> : x \in refused \cap {i}}

\* An input is never duplicated: over requeues, drains by several tasks, blocked
\* hooks and the left-over input of a finished turn, it is in at most one place,
\* so it is recorded in the history at most once.
NeverDuplicated == \A i \in Items : Cardinality(Places(i)) <= 1

Lost(i) == Places(i) = {}

-----------------------------------------------------------------------------
(* What the session promises about its inputs: InputLedger.                *)

Held ==
    {i \in Items :
        \/ InSeq(i, idle) \/ InSeq(i, mailbox)
        \/ \E o \in Objs : Live(o) /\ InSeq(i, pend[o])
        \/ \E th \in Threads : InSeq(i, hand[th])
        \/ \E t \in Turns : pc[t] # "dead" /\ InSeq(i, input[t])}

Ledger == INSTANCE InputLedger WITH held <- Held

\* Every step of the session is a step of the ledger: no handler takes an input
\* without keeping, recording or refusing it, an input is recorded only out of a
\* queue it then leaves, it is never both recorded and refused, and one that an
\* abort or a dropped placeholder lost does not turn up again.
ImplementsLedger == Ledger!Spec

-----------------------------------------------------------------------------
(* What the documentation says and the code does not always do.            *)

\* queue_response_items_for_next_turn queues items "to be injected into the next
\* active turn": without any abort of a task, a queued prompt is not lost.
QueuedPromptKept == \A i \in SchedItems : ~Lost(i)

-----------------------------------------------------------------------------
(* Wake-ups.                                                               *)

AtRest(th) == pc[th] \in {"ready", "exited", "unborn", "done", "dead"}

\* What maybe_start_turn_for_pending_work is to wake the session for. The notes
\* of approve_guardian_denied_action wait for the next turn.
WorkWaits ==
    \/ \E i \in Items \ DeniedItems : InSeq(i, idle)
    \/ \E m \in TriggerMail : InSeq(m, mailbox)

\* maybe_start_turn_for_pending_work "starts a regular turn when the session is
\* idle and pending work is waiting": a session with nothing under way that is
\* not shutting down has no turn installed and no work waiting. An interrupt of
\* a turn that is finishing can break it (maybe_start... is not called again).
NothingStranded ==
    ~closing /\ (\A th \in Threads : AtRest(th)) => active = NoObj /\ ~WorkWaits

\* No wake-up is lost until a task is aborted or an Op counted by ops comes: no
\* prompt, mail or requeued input that arrives while a turn starts, runs or
\* finishes is left behind, and no ActiveTurn stays without a task.
WakeUpsKept == ops = 0 /\ cancelled = {} => NothingStranded

-----------------------------------------------------------------------------
(* Liveness. tokio polls every ready task again: each thread's own steps   *)
(* are weakly fair, and so is the death of a task whose handle was         *)
(* aborted. Nothing is assumed of the user or of the other inputs. The     *)
(* model is assumed to answer in the end, and run_turn not to fail before  *)
(* the drain for ever (strong fairness: other outcomes may come first).    *)

ThreadFairness ==
    /\ \A th \in Threads : WF_vars(Procedure(th))
    /\ \A t \in Turns : WF_vars(Die(t)) /\ WF_vars(Finish(t))
BodyFairness ==
    \A t \in Turns : WF_vars(Body(t)) /\ SF_vars(ResponseCompleted(t)) /\ SF_vars(EnterRunTurn(t))

LiveSpec == Spec /\ ThreadFairness /\ BodyFairness
AbortSpec == Spec /\ ThreadFairness

\* An abort always gets through: whatever the task is doing (sampling for ever,
\* waiting for an approval nobody answers), it ends and TurnAborted is sent.
AbortCompletes ==
    \A t \in Turns : Doomed(t) ~> (pc[t] \in {"done", "dead"} /\ ~BeingAborted(t))

\* No lost wake-up: a prompt the scheduler queued is taken into some turn, also
\* when maybe_start_turn_for_pending_work returned because a turn was finishing.
QueuedPromptTaken == \A i \in SchedItems : InSeq(i, idle) ~> ~InSeq(i, idle)
=============================================================================
