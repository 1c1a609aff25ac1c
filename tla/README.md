# Formal models of the concurrent core of codex-rs

This directory holds TLA+ models of the concurrent parts of the `codex-rs`
workspace: turns, agents, the rollout recorder, the memory jobs, the event stream
of remote processes and network approvals, the TLC configurations that check them on small instances, and TLAPS
proofs of what matters most for every instance. Paths below are relative to
`codex-rs/`.

## 1. Inventory

The workspace is a terminal coding agent. A *thread* (conversation) is a
`Session` with a submission loop; a client (TUI, CLI, app server, ACP server, or
another agent) submits `Op`s and reads events; a *turn* runs one *task* that
samples the model and executes tools; an agent can spawn other threads as
sub-agents.

| Component | State | Operations | Interacts with |
|---|---|---|---|
| Turn lifecycle (`core/src/tasks/`, `state/turn.rs`) | `active_turn`: an `ActiveTurn` with running tasks and a shared `TurnState` (pending input, approvals, mailbox phase) | `spawn_task`, `start_task`, `maybe_start_turn_for_pending_work`, `abort_all_tasks`, `abort_turn_if_active`, `on_task_finished` | everything below, through shared mutexes |
| Submission loop (`session/handlers.rs`) | none of its own; serial | one handler per `Op` | steers, replaces and aborts turns, answers approvals |
| Session queues (`session/mod.rs`, `agent/mailbox.rs`) | `idle_pending_input`, `mailbox_rx` | steer, inject, queue, drain, prepend | filled by the loop, the scheduler, the shell; drained by tasks and `start_task` |
| `run_turn` (`session/turn.rs`) | conversation history | hooks, drain, sample, tools, stop hooks | model client, tools, hooks |
| Agent registry (`agent/registry.rs`) | `total_count` (atomic), `agent_tree`, nickname pool (mutex) | reserve, commit, drop, release | shared by all agents of a session tree |
| Agent control (`agent/control.rs`, `thread_manager.rs`) | map of live threads | spawn, resume, send, close, shutdown | registry, state database, sessions |
| Goals (`goals.rs`) | thread goal | continue when idle | starts turns |
| Rollout recorder (`rollout/src/recorder.rs`) | command channel, `pending_items`, the file handle and the file | record, persist, flush, shutdown, retry, resume | sessions; the state database is told of what was written; metadata updates append to the same file |
| Exec server (`exec-server/`) | process table and sequence numbers on the server; sessions, `last_published_seq`, early events on the client | start, stream, exit, close; route, publish, fail | tools, over JSON-RPC |
| Unified exec (`unified_exec/`) | processes of a session | start, write, prune | tools |
| State database (`state/`) | job rows with leases and watermarks, memory outputs, thread metadata | claim, heartbeat, finish, enqueue, prune | memories (`core/src/memories/`), backfill |
| App server (`app-server/`) | listeners, outgoing requests, pending interrupts | JSON-RPC methods | threads |
| Network approvals (`tools/network_approval.rs`) | pending host approvals, session caches, registered calls and their outcomes | register, request, decide, record, unregister | the proxy, tools, hooks, guardian, user |
| Context manager, apply-patch | history, patches | pure functions | `run_turn`, tools |
| Hooks, exec policy, sandboxing, model client, MCP, login, config, TUI | I/O or policy data | - | - |

What is hard here is not data but scheduling. Each handler is an `async fn` that
takes and releases several mutexes and awaits in between; the submission loop,
the scheduler, the guardian's spawned abort and the tokio task of every turn run
concurrently on the same state; an abort gives a task 100 ms and then kills it
at whatever await it is; a cancelled tool call is a future dropped at an await,
so destructors (`SpawnReservation::drop`) are part of the protocol; disks fail and
processes end between any two writes; several sessions share one database.
`PROJECT.json`
lists the hazards line by line.

What makes each component correct:

* turn lifecycle: a running task can always be found by the code that aborts or
  steers it; a finished one is never found; every turn gets a terminal event;
  an abort always ends the task; queued work wakes an idle session;
* queues: an input is not duplicated, and not lost without a reason;
* approvals: a waiting tool loses its answer only when its turn is aborted;
* registry: the slot count covers what holds slots and never wraps, the limit
  holds, a path has one owner, the nickname pool does not repeat itself, slots come back;
* rollout recorder: the file is the accepted log, in order and once; what a
  barrier confirmed stays; a barrier is always answered; the state database
  is never ahead of the file;
* memory jobs: nothing extracted is forgotten by consolidation, whatever runs at
  the same time; the cap on running jobs holds; no memory gets older; an agent
  that lost its job stops;
* exec events: subscribers see a prefix of what happened and always learn the
  end; no session is left without a reader;
* network approvals: one question per host at a time, a session's decision that a
  request can still meet is its answer, nobody sleeps through a decision, a user's denial is reported.

## 2. Modules

| Module | Content |
|---|---|
| `SessionTurns` | the turn lifecycle with the submission loop, the queues and `run_turn` |
| `InputLedger` | what a session promises about its inputs: an abstract ledger |
| `SessionTurnsProofs` | theorems on tasks, terminal events, types and approvals |
| `SessionInputsProofs` | theorems on the inputs: no duplicates, the refinement of `InputLedger` |
| `SessionWakeProofs` | theorem on the wake-ups |
| `MCSessionTurns` | the view for TLC |
| `AgentRegistry` | the registry with the calls of `AgentControl` |
| `AgentRegistryProofs` | its theorems |
| `MCAgentRegistry` | symmetry and views for TLC |
| `RolloutLog` | what the recorder promises: an abstract log |
| `RolloutWriter` | the recorder: callers, channel, writer task, file; implements `RolloutLog` |
| `RolloutWriterProofs` | its theorems, the refinement among them |
| `MemoryJobs` | the two phases of the memory pipeline on the job tables |
| `MemoryJobsProofs` | its theorems |
| `ExecEvents` | the event stream of a remote process, server and client |
| `ExecEventsProofs` | its theorems |
| `NetworkApprovals` | the network approval service of a session |
| `NetworkApprovalsProofs` | its theorems |
| `MCNetworkApprovals` | symmetry and a view for TLC |

The modules are not composed with each other. The recorder's callers, the
extraction agent and the model see each other only through calls that may
succeed, fail or be dropped, and each module allows all of these at any time, so
that the others are subsumed by its environment.

### SessionTurns

A step is one critical section with the thread-local work around it: one guard of
`active_turn`, `turn_state`, `idle_pending_input` or `mailbox_rx`. A guard that
takes `active_turn` and then `turn_state` without releasing the first is one step.
Every thread (`Loop`, `Background`, `Guardian`, and each turn's tokio task) has a
program counter `pc` and locals: `tgt` (the turn it is starting), `obj` (the
`ActiveTurn` whose `Arc` it holds), `hand` (items taken from a queue and not yet
put elsewhere), `victims` (tasks drained and not yet aborted), `why` (the abort
reason).

`ActiveTurn`s are allocations: `Objs` are reused when neither the session nor a
thread refers to them, which is what `Arc::ptr_eq` in `on_task_finished`
distinguishes. `tasks[o]` is the `IndexMap` in its order, since `steer_input`
looks at the first entry and `swap_remove` permutes the rest.

| Code | Actions |
|---|---|
| `user_input_or_turn_inner`, `steer_input` | `SteerInput`, `SteerRefused`, `UserTurn` |
| `undo`, `compact`, `review`, `run_user_shell_command` | `StandaloneTask`, `RunStandalone`, `AuxiliaryOutput` |
| `interrupt`, `shutdown`, approval answered with abort | `Interrupt`, `Shutdown` |
| `inter_agent_communication`, `approve_guardian_denied_action`, `fire_scheduled_prompt` | `InterAgentCommunication`, `ApproveDeniedAction`, `FireScheduledPrompt` |
| `abort_all_tasks`, `abort_turn_if_active`, `handle_task_abort`, `clear_pending_after_abort` | `AbortTake` / `AbortTurnIfActive`, `AbortCancel`, `AbortKill`, `AbortPending`, `AbortClear` |
| `maybe_start_turn_for_pending_work` | `MaybeStartIdle`, `MaybeStartMail`, `MaybeStartReserve` |
| `start_task` | `StartTakeIdle`, `StartTakePending`, `StartDrainMailbox`, `StartGetTurn`, `StartPush`, `StartSpawn` |
| `RegularTask::run`, `run_turn` | `Begin...`, `EnterRunTurn` ... `RegularTaskLoop` |
| `request_command_approval`, `notify_approval` | `RequestApproval`, `ExecApproval`, `ReceiveApproval`, `ApprovalCancelled` |
| end of the spawned future, `on_task_finished` | `AfterRun`, `FinishRemove`, `FinishTakePending`, `FinishRecord`, `FinishClear` |
| `JoinHandle::abort` | `Die`, at any later step of a killed task |

Abstractions: an input is a model value; the history is the set of recorded
items; the model, hooks and compaction are nondeterministic outcomes; one tool at
a time waits for an approval per turn. `Die` may come at every step of a killed
task, since tokio kills at an await and every step of the model ends at one.
`has_pending_input` reads two locks in one step (the comment at the definition
says why that loses nothing). The abort's wait for `done` or 100 ms is a step
that may come at any time, early or late. `steer_input` with an expected turn id
(app server only) is a refusal like `SteerRefused` and is left out.

`InputLedger` is what remains of a session when one looks at its inputs only:
`unsent`, `held`, `recorded`, `refused`. A session takes an input or settles it at
once (`Receive`); some of the held ones are recorded, some refused by a hook and
some lost together (`Settle`), since one critical section may record what it
accepted and refuse what a hook blocked. The refinement maps `held` to `Held`,
the items in a queue that somebody can still reach, in a hand or in the input of a
task; the rest are the variables of the same name. `ImplementsLedger` says more
than `NeverDuplicated`: an item is recorded only out of a place it leaves in the
same step, and a lost one stays lost.

Definitions named "Fault for X" are plausible bugs of X; they are used by the
mutants of `PROJECT.json` only.

### AgentRegistry

A step is one atomic operation on `total_count`, one guard of `active_agents`, or
one guard of the map of live threads. `Callers` are the tool calls in progress at
a time; each is a small program: take a slot (`LoadCount`, `CompareExchange`,
`LimitReached`, or `FetchAdd` without a limit), prepare (`Prepare`, `RegisterRoot`,
`ReservePath`, `PreferredNickname` / `NextNickname`), create and register the
thread (`CreateThread`, `Commit`), send the first input (`Send`), or give up
(`CreateFails`, `Cancel`, then `DropPath`, `DropSlot`); and for a close: `Stop` or
`FlushFails`, `RemoveThread`, `ReleaseSpawned`, `ReleaseSlot`, then the next
descendant. `compare_exchange_weak` may fail spuriously. `Cancel` exists where the
code awaits, and nowhere else.

`tree` is `agent_tree` by key: `Vacant`, `Reserved` (an entry without agent id)
or the agent. `Format` is `format_agent_nickname`: what each candidate reads as at
each ordinal of the pool. A candidate never reads the same at two ordinals
(`NamesAssumption`), but two candidates may: "Plato" after one reset is spelled like
the candidate "Plato the 2nd", which a role may list. Each call draws from the list of
its agent's role (`CandidateLists`), while `used` and `resets` are one for all roles: a
role that has used up its own list resets the pool for everybody. `issued` counts what
the pool hands out at each ordinal and is read by one property only. Threads die by themselves (`AgentDies`) and
are noticed by the next `Send`. Not modelled: the depth limit (checked by the tool
handlers before the call), an empty candidate list, `last_task_message`, the
completion watcher and the persisted spawn edges; a resume of a subtree is a
sequence of `ResumeAgent` calls.

### RolloutWriter and RolloutLog

A step is one command taken from the channel, one I/O operation of the writer
task, one answer, or one call. `pc` is where the writer task is; `attempt` and `n`
are the state of `write_pending_with_recovery` and of the loop in
`write_pending_items_once`. Two ghosts serve the properties: `recorded` is the
log as accepted and not since lost by a shutdown, a discard or a crash, and
`confirmed` the longest prefix a barrier returned Ok for.

| Code | Actions |
|---|---|
| `record_items`, `persist`, `flush`, `shutdown` | `record_items`, `barrier`, `barrier_closed`, `barrier_returns` |
| `rollout_writer` | `recv`, `ack_add`, `ack_barrier`, `ack_shutdown` |
| `ensure_writer_open`, `open_log_file` | `ensure_writer_open`, `open_fails` |
| `write_session_meta`, `write_pending_items_once`, `write_line` | `write_session_meta`, `write_rollout_item`, `all_written` and their `_fails` |
| `enter_recovery_mode`, the retry | `Recover` |
| `sync_thread_state_after_write` | `SyncDb`, which may fail |
| `discard_thread`, `append_rollout_item_to_path`, resume | `discard`, `append_rollout_item_to_path`, `resume` |
| the process ends | `crash` |

A line of the file is an item and whether it parses: a failed write may leave a
fragment (`torn`), and what is appended next is glued to it. Batches are sent
item by item, which allows every treatment of a batch. Lines that another handle
appends count only through the fragment they may leave. `RolloutLog` has the
accepted log, how much of it is stored, and the barrier calls; a barrier may be
confirmed once what it needs is stored, and a crash or a close truncates the log to
what is stored. The refinement maps `accepted` to `recorded` and `stored` to the
length of the file.

### MemoryJobs

A step is one database transaction (they are `BEGIN IMMEDIATE` or single
statements) with the worker's local work around it. A worker is one session's run
of the pipeline; `pc`, `scan`, `claims`, `watermark`, `selected` and `snapshot`
are its locals. A job row is a record: owner, whether its lease and its backoff
are in the future, retries, input and success watermarks.

| Code | Actions |
|---|---|
| `prune`, `claim_stage1_jobs_for_startup`, `try_claim_stage1_job` | `prune_stage1_outputs_for_retention`, `claim_stage1_jobs_for_startup`, `try_claim_stage1_job`; `claim_startup_jobs_fails` on a database error |
| `run_jobs`, `job::result` | `mark_stage1_job_succeeded`, `..._no_output`, `..._failed`, `stage1_not_marked` |
| `enqueue_global_consolidation_with_executor` | `Enqueued` |
| `phase2::run`, `claim`, `get_phase2_input_selection`, `get_watermark` | `try_claim_global_phase2_job`, `get_phase2_input_selection` |
| `loop_agent`, `handle`, `job::succeed`, `job::failed` | `heartbeat_global_phase2_job`, `mark_global_phase2_job_succeeded`, `mark_global_phase2_job_failed` |
| `mark_thread_memory_mode_polluted`, `clear_memory_data`, metadata updates | `mark_thread_memory_mode_polluted`, `clear_memory_data`, `thread_updated` |
| time | `..._lease_expires`, `..._backoff_elapses` |
| the process ends, or the last mark of phase 2 is refused | `session_ends` |

Clock values are abstracted: a lease or a backoff may end at any moment, whatever
its length; age windows, ranking and limits select any subset. The ghost
`considered` is the snapshot of outputs at the last successful consolidation. An agent
also runs for an empty selection, to remove old extension resources, and heartbeats
like any other; without such resources an empty selection succeeds at once (`pc` is
`empty`).

### ExecEvents

A step is one critical section of the process table on the server, one
notification, one message routed by the client's reader task, or one step of the
caller. `events` is what the server sequenced; `wire` holds the sequence numbers
under way, since a notification is determined by its number.

| Code | Actions |
|---|---|
| `RemoteProcess::start`, `insert_session`, `start_process` | `register_session`, `start_process`, `exec_returns`, `exec_fails`, `start_dropped` |
| `RemoteExecProcess::drop`, `unregister` | `drop`, `unregister_session` |
| `stream_output`, `finish_output_stream`, `watch_exit`, `maybe_emit_closed` | the same, then `notify` |
| removal after retention, detached sessions | `remove_entry` |
| the connection | `disconnect` |
| `handle_server_notification`, `publish_ordered_event` | `handle_server_notification`, `publish_ordered_event` |
| `record_disconnected`, `fail_all_sessions`, `Session::read` | `reader_disconnected`, or `reader_rejects` when a notification cannot be handled though the link is up; `fail_all_sessions`, `read_fails` |

One process is enough: sessions share only the reader task, which treats them one
after the other. Output bytes, the replay log and polling reads are left out.

### NetworkApprovals

A step holds one of the service's locks. A request of the proxy runs
`handle_inline_policy_request`, a tool call registers, takes its outcome and
unregisters, and either can be dropped at an await. A `PendingHostApproval` is
named by the request that created it.

| Code | Actions |
|---|---|
| `register_call`, `take_call_outcome`, `unregister_call`, an aborted call | `register_call`, `take_call_outcome`, `unregister_active`, `unregister_outcome`, `cancel_call` |
| `handle_inline_policy_request` up to the pending approval | `request`, `find_denied`, `find_approved`, `get_or_create_pending_approval` |
| `wait_for_decision` | `listen`, `check_decision`, `wake` |
| the owner | `policy_denies`, `resolve_single_active_call`, `answer`, `record_call_outcome`, `clear_opposite`, `cache_decision`, `set_decision`, `notify_waiters`, `remove_pending` |
| `record_outcome_for_single_active_call`, `record_blocked_request` | `resolve_late`, `record_late`, `record_blocked_request`, `record_blocked` |
| the proxy drops the future | `drop_request` |

The question to hooks, guardian and user is one step with any of their answers.
The ghost `known` is, for each request, the session's decision that it can no
longer miss: the one that stood when it began (`Standing`), or one that an owner
cached before the request joined a pending approval (`Learn`). It ends when an owner
withdraws the decision for the opposite one (`Withdraw`), and when the owner removes its
approval while the request has passed the cache and not joined (`Miss`). In between
the request meets the decision in a cache it has still to look at, or joins the
approval of the owner that cached it. After `Miss` it asks again although the host is
decided; `SessionDecisionHolds` says that this is the only way.

## 3. Runs

| Run | Question | Instance |
|---|---|---|
| `turns_input` | tasks are found, no silent end, items not duplicated, refinement of `InputLedger`, approvals lost by aborts only, mail wakes the session | 2 turns, user input, triggering mail, guardian override, all standalone kinds, blocking hooks, approvals, 1 interrupt or shutdown |
| `turns_wakeup` | no lost wake-up without interrupts (liveness and its safety core) | 3 turns, user input, scheduled prompt, auxiliary shell output, no interrupt |
| `turns_abort` | an abort always completes (liveness) | 2 turns, compaction, guardian abort, approvals |
| `turns_queued` | a statement of a comment that does not hold (section 5) | the smallest instance that shows it |
| `agents_slots` | slots are covered, the limit holds, paths are held | 2 calls, 2 agents, 1 path, limit 2; spawn with and without a path, resume, close, shutdown |
| `agents_names` | which nicknames the pool repeats | 2 calls, 2 agents, the lists {Plato} and {Plato, Plato the 2nd}, one pool reset, no limit; spawn and resume by agents of any depth, send |
| `agents_leak` | a statement that does not hold (section 5) | the smallest instance that shows it |
| `rollout` | order, durability, refinement of `RolloutLog`, every barrier answered | 2 clients, 2 items, 3 recorded items, channel of 2, any I/O errors, crashes, resumes, other appends |
| `rollout_torn` | a statement that does not hold (section 5) | 1 client, 1 item |
| `memory` | consolidation, baseline, cap, monotony, heartbeat | 2 sessions, 2 threads, 2 timestamps, cap 1, 1 retry, watermark up to 3 |
| `exec` | order, one Closed, no dead session, the end is learnt (liveness and its safety core) | 2 streams and the exit, 2 events before Exited or Closed at most, one connection |
| `network` | one asker, caches, decisions that cannot be missed, wake-ups, the user's denial | 1 host, 3 requests, 2 calls |

Bounds. Three turns are what the races need: one that finishes, one started in
the background and one started by the user. Three `Objs` suffice for three
turns because an `ActiveTurn` is reused once nobody refers to it (four in the
run for liveness, so that no start waits for an allocation). `MaxOps` bounds
interrupts, shutdowns and standalone tasks together. It is 0 in `turns_wakeup`
because an interrupt can lose a wake-up (section 5): what `QueuedPromptTaken`
says holds only for prompts that no abort interferes with, and `WakeUpsKept` states
that condition. Inputs arrive in any order
and at any time. `agents_names` has no close: a closed agent keeps its nickname in the pool, and agents
to resume come from threads that die. In the registry two calls reach every race of two, and what
needs three is covered by the theorems, which hold for any number of calls.
`MaxThreads` bounds the count when no limit is set; `MaxResets` bounds the
ordinals. Deadlock is not an error in any module: a session
with no more input stops, and the others' operations are bounded in number.

In `rollout` the channel of 2 fills with two clients and a third recorded item is
one more than fits; a buffer of two items gives a failure after the first, and
nothing bounds the failures, crashes and resumes. In `memory` two sessions give
every race for a lease; a cap of 1 is reached by the second claim; `DefaultRetry`
1 exhausts at the first failure; watermark 3 leaves room for an enqueue during a
consolidation and one after it (actions that would enqueue beyond are disabled).
In `exec` no output is sequenced after number 2, so five events at most; that is
enough for each to overtake each. In `network` the third request is the one that
comes between a decision and its removal; hosts share nothing but the calls, so
one host suffices; the requests and the calls are interchangeable (`Symmetry`). One of the
three can pass the caches while the second decides and the third comes to ask again.
The theorems hold without these bounds.

The views identify states that differ in nothing a later step or a property
reads (names of allocations, garbage, dead locals); liveness runs use none.

Fairness. tokio polls every ready task again, so each thread's own steps
(`Procedure`, `Finish`) and the death of a killed task are weakly fair;
`AbortSpec` assumes nothing else, in particular not that the model answers or
that a user approves. `LiveSpec` adds that a running body goes on, and strong
fairness of two of its outcomes: the model answers in the end
(`ResponseCompleted`) and `run_turn` does not fail before its drain for ever
(`EnterRunTurn`). The second excludes a busy loop the code really has: while input
is pending, `RegularTask::run` calls `run_turn` again without a delay when
pre-sampling compaction fails each time. Nothing is assumed about inputs.

The other modules assume less. `RolloutWriter!FairSpec`: the writer task is polled
while it has a command or is in one (`WF(WriterStep)`), and its I/O operations
return, well or badly. `MemoryJobs!HeartbeatSpec`: the interval of `loop_agent`
ticks while the agent runs; nothing is assumed of the agent, the leases or the
other sessions. `ExecEvents!FairSpec`: a task of the server that has to notify or to
look whether it is the last does so, and the client's reader task is polled; not
that a process ends or that a connection breaks. `NetworkApprovals` has no
liveness property: whether the user answers is not the code's promise.

## 4. Theorems

All proofs are checked by TLAPS with Z3, Zenon and LS4.

`SessionTurnsProofs`, from `ThreadsAssumption`, `SentinelsAssumption` and
`InputsAssumption` (the threads and sentinels are distinct values):

* `NoOrphan`, `NoZombie`: the invariants of `turns_input` for any number of
  turns, allocations, items and operations. Neither is inductive: a task may be
  in two places of `tasks`, an aborter may hold a task that is about to be born,
  a starter may start a task that runs already. `ControlInv` adds
  `OneEntryPerTask`, `DoomedWereBorn` (only tasks that were spawned are drained or
  cancelled), `TargetsFresh` (a turn being started is unborn and has one starter)
  and `AbortersOrdered` (a thread holds victims only while it aborts).
  `ControlCorrect` is its induction. Most steps are "quiet": they move one thread
  without touching the slot, the tasks or the victims, and `QuietMoveInv` treats
  them once; the rest is one lemma each for draining, aborting, `add_task` and
  `remove_task`, over lemmas on appending, taking the tail and `swap_remove`.
* `NoEndIsSilent`: `NoSilentEnd`, with `CancelledIsTold` (a task that was cancelled
  has been told of, or its aborter still holds it) on top of `ControlInv`.
* `TypeCorrect`: the types, from `ControlInv` and `ObjHeld` (a thread that reads a
  `turn_state` through its own reference has one).
* `ApprovalsLostOnlyByAbort`: `ApprovalLostOnlyByAbort`, with `ApprovalInv`: a tool that
  waits and is not being aborted has its sender in the installed ActiveTurn
  (`SenderKept`), and the ActiveTurn an aborter will clear is not installed
  (`AbortersLetGo`). The first is kept because its task is in that same ActiveTurn
  (`NoOrphanTask`), so no placeholder can have replaced it.

`SessionInputsProofs`, on top of these:

* `NothingDuplicated`: `NeverDuplicated`. That an item is in one place is not
  inductive: the sub-id of a turn whose input still waits could be given to another
  turn, and a hand that is not empty could be overwritten or joined with a queue. `InputsInv`
  adds that only a thread that starts a turn has a target (`TargetsInUse`), that hands are
  empty before a thread gathers and after it pushed (`HandsEmpty`), and that the
  input of a turn to come belongs to the thread that starts it (`InputsOwned`).
  `OnePlace` says of two places that hold an item that they are the same,
  `NoRepeats` that no queue holds an item twice; from these `PlacesCount` bounds the
  cardinality that `NeverDuplicated` states.
* `SessionImplementsLedger`: `ImplementsLedger`. For each input a step either moves
  it from one place to another or drops it (`SettlesInputs`), or the step takes one
  from outside (`ReceivesInput`); the lemmas `SettlesLedger` and `ReceivesLedger` turn
  each into a step of `InputLedger`.

`SessionWakeProofs`:

* `NoWakeUpLost`: `WakeUpsKept`, the safety core of `QueuedPromptTaken`: while nothing
  was aborted, a session in which no thread has anything left to do has no
  ActiveTurn, no queued prompt and no mail that should start a turn. The
  invariant says that an installed ActiveTurn has a task, or somebody is about to
  add one or to clear it (`SlotServed`), and that work which waits has an installed
  turn or a thread on its way to look (`IdleOwed`, `MailOwed`). `SlotServed` is what lets
  `maybe_start_turn_for_pending_work` return when it finds a turn. Each step of one
  thread must hand on what that thread owed (`WakeMove`).

`AgentRegistryProofs`, from `FiniteAssumption`, `IdsAssumption`, `LimitsAssumption`:

* `SlotsCorrect`: `SlotInv`, the conjunction of `TypeOK`, `CallsOK` (what a call's
  locals hold at each program counter), `RootAtRootPath`, `SlotsCovered` and
  `CountWithinLimit`, is inductive. The argument counts three finite sets: a step
  changes the number of reservations, pending releases and registered agents by
  at most one each, and the count moves at least as much (`MoveSlots`).
* `SlotsAlwaysCovered`, `RegistryTypeCorrect` (the count never wraps below zero),
  `LimitHolds` follow from it. `CountWithinLimit` (the count itself) is what makes
  the limit inductive; `cur < MaxThreads` at the compare-and-exchange carries it.
* `PathsHeld`: a reserved path has one owner.
* `NicknamesExplained`, with `NamesAssumption`: the pool issues a nickname at most once
  between two resets, and again only where another candidate is spelled like it. The
  invariant (`PoolInv`) says that nothing is issued at an ordinal to come, that what
  was issued at the current one is marked as used, and that what was issued is the
  spelling of a candidate.

`RolloutWriterProofs`, from `WriterAssumption`, for any items, clients, capacity and
length: `InvHolds` is the induction. `Inv` says that file, buffer and channel
together are the recorded log: the buffer continues the file (`PendingOK`), the
channel continues the buffer without a gap to the end of the log (`ChainOK`,
`ChannelOK`), a barrier under way needs no more than what precedes it (`CurOK`,
`DistinctOK`), a command that succeeded wrote what it was asked for (`AckOK`), and
nothing but the file is left of a writer that has ended (`ClosedOK`). `InOrder` and
`ConfirmedStored` alone say nothing of what is still buffered, so no write could
be shown to keep them. From `Inv` follow `TypeOKHolds`, `InOrderHolds`,
`ConfirmedStoredHolds`, `DbBehindFileHolds`, and `ImplementsLogHolds`: each step is a
step of `RolloutLog` or a stutter.

`MemoryJobsProofs`, from `JobsAssumption`: `Inv` adds to the properties that a row
with an owner has a retry left (`RetriesLeft`), that the global watermark covers
all outputs (`MarksOK`), and that whoever owns the global job claimed a watermark
below every enqueue of what its snapshot does not hold (`OwnerOK`). The last one is
why a success cannot hide a new output. `TypeOKHolds`, `NoLostConsolidationHolds`,
`BaselineWasConsumedHolds`, `RunningCapHolds` and the action property
`NeverOlderHolds` follow.

`ExecEventsProofs`, from `ExecAssumption`: `Inv` says what the flags under the lock
tell about the published events (`FlagsOK`), which tasks can publish no more
(`FinishedOK`), that a task which notifies holds a published number (`HeldOK`),
that the subscriber is as far as `last_published_seq` (`Published`), and that the
disconnect is recorded before the sessions are failed (`RecordedFirst`).
`TypeOKHolds`, `DeliveredInOrderHolds`, `ClosedLastHolds`, `NoDeadSessionHolds`
follow. `EndReportedHolds` is what `HolderLearnsEnd` needs besides fairness: in a
state where the tasks of the server and the reader task have nothing left to do, the
holder of the handle of a process that is over has been told. `EndInv` follows the
end on its way: while Closed is owed some task has still to look for it
(`ClosedOwed`); a published event is with the task that has to send it, on the wire,
early at the client, or delivered (`NothingMislaid`), and the next one to deliver is
never among the early ones (`NextIsMissing`), so at rest all are delivered; a lost
link is announced behind what was received (`LossAnnounced`); and a session leaves
the map behind its caller only with Closed or Failed published (`RoutedOrEnded`).

`NetworkApprovalsProofs`, from `NamesAssumption`: `Inv` adds the order in which an
owner changes the caches (`CacheOrder`), that it decides its approval after that
(`DecidedLate`), where a decision that cannot be missed is told (`KnownStands`: a
request that has passed the cache is met by the pending approval of an owner that
`Tells` this decision and no other), and that who waits has an owner
(`WaitsForOwner`). `TypeOKHolds`, `OneAskerHolds`, `CachesDisjointHolds`,
`SessionDecisionStands`, `NoLostWakeupHolds` and the action property
`UserDenialIsKept` follow.

Every safety invariant and every action property of the passing runs is a
theorem. Only model-checked: that something is eventually done, the liveness
properties `QueuedPromptTaken`, `AbortCompletes`, `BarrierAnswered`, `LostAgentStops`
and `HolderLearnsEnd`. Liveness under fairness and `ENABLED` are out of the prover's
reach; the theorems on `WakeUpsKept` and `EndReported` prove what two of them need at
rest.

## 5. Where the code and its documentation differ

With a run that shows it:

* `turns_queued`: a queued prompt is lost when it is pushed to a reservation that
  was dropped meanwhile.
* `agents_leak`: a resumed agent closed before its commit keeps its slot for ever.
* `rollout_torn`: a write that fails in the middle of a line leaves a fragment; the
  retry appends to it, the barrier returns Ok, and the item cannot be loaded.

Behaviours the models have, which contradict nothing the properties state but are
worth knowing:

* a session can run two tasks in one `ActiveTurn`: a background start reserves the
  slot with an empty `ActiveTurn`, a user turn drops the reservation and adds its
  own, and the background start then adds a second one;
* a turn can send both `TurnComplete` and `TurnAborted`: the task passed its
  cancellation check before it was cancelled;
* a resume cancelled after its thread was inserted gives the slot back while the
  thread stays open, so more threads can be open than the limit says;
* an interrupt can lose a wake-up. A prompt that is queued while a turn is finishing
  is left to that turn; an interrupt then takes the ActiveTurn, which has no task any
  more, and does not look for work since it aborted none (`tasks/mod.rs:489`); the turn
  finds its ActiveTurn gone and does not look either, and the prompt waits until
  something else starts a turn. `turns_queued.cfg` with `MaxOps = 1` and `NothingStranded`
  as its invariant shows it in 21 steps. A test,
  `idle_interrupt_does_not_wake_queued_next_turn_items`, wants an interrupt of an
  idle session to wake nothing, but there nobody had asked for a wake-up;
* a cancelled task that is already finishing can clear the ActiveTurn of a later,
  finishing turn and be killed before it looks for work: an abort, too, can lose a
  wake-up (hence `cancelled = {}` in `WakeUpsKept`);
* a cancelled task can drain the input of the turn that replaced it, since
  `get_pending_input` reads the installed turn;
* a thread that is polluted while the first consolidation that selected it runs is
  marked as selected without a new consolidation being enqueued;
* `Session::read` publishes `Failed` itself when it finds the connection lost,
  before notifications the reader task has still to route, although the calls
  below it leave the sessions to the reader task to keep that order;
* a request whose future is dropped while it owns a pending approval leaves the
  approval behind: later requests to that host wait for a decision nobody makes,
  or, after a drop between decision and removal, all take that decision;
* a request can ask again about a host that an owner has just decided for the
  session: it passes the caches before the owner fills them and joins after the owner
  has removed its approval;
* the nickname pool can hand out a name twice: "Plato the 2nd" of a role that lists it,
  and "Plato" of the same or another role after a reset. The registry's tests permit
  duplicates after a reset (`registry_tests.rs:242`);
* a `start` whose future is dropped leaves its session in the client's map.

## 6. Not modelled

The components marked `not_modelled` in `PROJECT.json`, with reasons: most are
user interfaces, external protocols or text algorithms with little shared state.
The workspace has half a million lines of implementation, most of them of these
kinds; the models cover the parts whose correctness depends on interleavings,
failures and restarts.

Within the modelled files: the goals feature (taken to be off), the retry after an
invalid image, thread rollback, session construction and event delivery; listing,
archiving and searching of rollouts; the contents of memories, backfill and agent
jobs; polling reads, writes, termination and the replay log of the exec server;
saving network policy amendments and copying approved hosts to a guardian's
session.

## 7. Plan

1. (done) `SessionTurns`, `AgentRegistry`, their runs and theorems.
2. (done) `RolloutWriter` with the abstract `RolloutLog` and the refinement;
   `MemoryJobs`; `ExecEvents`; `NetworkApprovals`; their runs and theorems.
3. (done) `ApprovalsLostOnlyByAbort`, `NothingDuplicated`, `InputLedger` and its
   refinement, `NoWakeUpLost`, `EndReportedHolds`.
4. Open: polling reads of the exec server with the bounded replay log; the process
   store of unified exec; pending interrupts of the app server composed with the
   terminal events of `SessionTurns`; goals as one more starter of turns; an
   abstract slot pool that `AgentRegistry` implements where no resume races.
