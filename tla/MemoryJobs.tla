----------------------------- MODULE MemoryJobs -----------------------------
(***************************************************************************)
(* The memory pipeline of core/src/memories on the job tables of           *)
(* state/src/runtime/memories.rs.  Every root session runs it once, when it *)
(* starts: prune, scan the threads, claim and run stage-1 jobs (one per     *)
(* thread), then claim the single global phase-2 job, read a selection of   *)
(* the outputs, let an agent consolidate it and record the success.         *)
(*                                                                         *)
(* Each action is one database transaction.  A job row is absent exactly    *)
(* when it equals NoJob.  `running` is owner # NoWorker: nothing in the      *)
(* code tells 'pending', 'done' and 'error' apart.  An ownership token is    *)
(* the worker that got it, since a worker claims a job only once.  Time is   *)
(* abstracted: leases and backoffs may end at any moment; age windows,       *)
(* ranking and limits choose any subset.                                    *)
(***************************************************************************)
EXTENDS Naturals, FiniteSets

CONSTANTS
    Threads,       \* threads of the state database
    Workers,       \* sessions that run the pipeline
    NoWorker,
    MaxRunning,    \* max_claimed, and the cap on running stage-1 jobs
    DefaultRetry,  \* DEFAULT_RETRY_REMAINING (3 in the code)
    MaxTime,       \* bound: timestamps of threads
    MaxWatermark   \* bound: input watermark of the global job

ASSUME JobsAssumption ==
    /\ IsFiniteSet(Threads)
    /\ NoWorker \notin Workers
    /\ MaxRunning \in Nat
    /\ DefaultRetry \in Nat \ {0}
    /\ MaxTime \in Nat
    /\ MaxWatermark \in Nat

VARIABLES
    updated,    \* threads.updated_at
    mode,       \* threads.memory_mode
    output,     \* stage1_outputs: src 0 is no row, sel 0 is not selected
    job,        \* the stage-1 job of each thread
    global,     \* the phase-2 job
    pc,         \* where each worker is in the pipeline
    scan,       \* candidates a worker has still to claim: thread -> source
    claims,     \* stage-1 jobs a worker has in hand: thread -> source
    watermark,  \* claimed, then completion watermark of a phase-2 worker
    selected,   \* threads of the selection a phase-2 worker works on
    snapshot,   \* source_updated_at of all outputs when it was read
    considered  \* ghost: the snapshot of the last successful consolidation

vars == <<updated, mode, output, job, global, pc, scan, claims, watermark,
          selected, snapshot, considered>>

NoJob == [owner |-> NoWorker, lease |-> FALSE, backoff |-> FALSE,
          retry |-> 0, input |-> 0, success |-> 0]
NoOutput == [src |-> 0, sel |-> 0]
Nothing == [t \in Threads |-> 0]

Init ==
    /\ updated = [t \in Threads |-> 1]
    /\ mode = [t \in Threads |-> "enabled"]
    /\ output = [t \in Threads |-> NoOutput]
    /\ job = [t \in Threads |-> NoJob]
    /\ global = NoJob
    /\ pc = [w \in Workers |-> "idle"]
    /\ scan = [w \in Workers |-> Nothing]
    /\ claims = [w \in Workers |-> Nothing]
    /\ watermark = [w \in Workers |-> 0]
    /\ selected = [w \in Workers |-> {}]
    /\ snapshot = [w \in Workers |-> Nothing]
    /\ considered = Nothing

-----------------------------------------------------------------------------
(* Rows of the jobs table                                                  *)

Later(x, y) == IF x < y THEN y ELSE x

\* status = 'running' AND lease_until > now
Leased(j) == j.owner # NoWorker /\ j.lease

\* The row a claim leaves.
Claimed(j, w) == [j EXCEPT !.owner = w, !.lease = TRUE, !.backoff = FALSE]

\* status = 'done' with the given last_success_watermark
Done(j, success) ==
    [j EXCEPT !.owner = NoWorker, !.lease = FALSE, !.success = success]

\* status = 'error', one retry less, backoff
Failed(j) ==
    [j EXCEPT !.owner = NoWorker, !.lease = FALSE, !.backoff = TRUE, !.retry = @ - 1]

\* Mutant: a source that is not newer leaves the input watermark alone.
EnqueuedNewer(j, mark) ==
    [j EXCEPT !.backoff = @ /\ j.owner # NoWorker,
              !.retry = Later(@, DefaultRetry),
              !.input = Later(@, mark)]

\* enqueue_global_consolidation_with_executor: every enqueue advances the
\* input watermark, also for a source older than what was seen before.
Enqueued(j, mark) ==
    [j EXCEPT !.backoff = @ /\ j.owner # NoWorker,
              !.retry = Later(@, DefaultRetry),
              !.input = IF mark > @ THEN mark ELSE @ + 1]

-----------------------------------------------------------------------------
(* Threads                                                                 *)

thread_updated(t) ==
    /\ updated[t] < MaxTime
    /\ updated' = [updated EXCEPT ![t] = @ + 1]
    /\ UNCHANGED <<mode, output, job, global, pc, scan, claims, watermark,
                   selected, snapshot, considered>>

\* The thread used external context; forgetting is enqueued when the thread is
\* selected in the last baseline.
mark_thread_memory_mode_polluted(t) ==
    /\ mode[t] = "enabled"
    /\ global.input < MaxWatermark
    /\ mode' = [mode EXCEPT ![t] = "polluted"]
    /\ \E now \in updated[t]..MaxTime :
           global' = IF output[t].sel # 0 THEN Enqueued(global, now) ELSE global
    /\ UNCHANGED <<updated, output, job, pc, scan, claims, watermark,
                   selected, snapshot, considered>>

\* A user resets the memories: all outputs and all memory jobs are deleted,
\* whoever works on them.
clear_memory_data ==
    /\ output' = [t \in Threads |-> NoOutput]
    /\ job' = [t \in Threads |-> NoJob]
    /\ global' = NoJob
    /\ considered' = Nothing
    /\ UNCHANGED <<updated, mode, pc, scan, claims, watermark, selected, snapshot>>

-----------------------------------------------------------------------------
(* Phase 1                                                                 *)

\* phase1::prune, at the start of any session: old outputs outside the baseline
\* are deleted.
prune_stage1_outputs_for_retention ==
    /\ \E old \in SUBSET {t \in Threads : output[t].src # 0 /\ output[t].sel = 0} :
           output' = [t \in Threads |-> IF t \in old THEN NoOutput ELSE output[t]]
    /\ UNCHANGED <<updated, mode, job, global, pc, scan, claims, watermark,
                   selected, snapshot, considered>>

\* The query of claim_stage1_jobs_for_startup.
Stale(t) ==
    /\ mode[t] = "enabled"
    /\ output[t].src < updated[t]
    /\ job[t].success < updated[t]

claim_stage1_jobs_for_startup(w) ==
    /\ pc[w] = "idle"
    /\ \E found \in SUBSET {t \in Threads : Stale(t)} :
           /\ scan' = [scan EXCEPT ![w] =
                          [t \in Threads |-> IF t \in found THEN updated[t] ELSE 0]]
           /\ pc' = [pc EXCEPT ![w] = IF found = {} THEN "extract" ELSE "claim"]
    /\ UNCHANGED <<updated, mode, output, job, global, claims, watermark,
                   selected, snapshot, considered>>

\* Mutant: the running jobs are not counted.
ClaimableUncapped(t, source) ==
    LET newer == source > job[t].input
    IN  /\ output[t].src < source
        /\ job[t].success < source
        /\ ~Leased(job[t])
        /\ ~job[t].backoff \/ newer
        /\ job[t].retry > 0 \/ newer

Claimable(t, source) ==
    LET newer == source > job[t].input
    IN  /\ output[t].src < source
        /\ job[t].success < source
        /\ ~Leased(job[t])
        /\ ~job[t].backoff \/ newer
        /\ job[t].retry > 0 \/ newer
        /\ Cardinality({u \in Threads \ {t} : Leased(job[u])}) < MaxRunning

\* The loop over the candidates: one claim each, until none is left or
\* max_claimed are in hand.
Held(w) == {t \in Threads : claims[w][t] # 0}

ClaimNext(w, left, held) ==
    IF left = Nothing \/ Cardinality(held) >= MaxRunning
    THEN /\ scan' = [scan EXCEPT ![w] = Nothing]
         /\ pc' = [pc EXCEPT ![w] = "extract"]
    ELSE /\ scan' = [scan EXCEPT ![w] = left]
         /\ UNCHANGED pc

try_claim_stage1_job(w, t) ==
    /\ pc[w] = "claim"
    /\ scan[w][t] # 0
    /\ LET source == scan[w][t]
           left == [scan[w] EXCEPT ![t] = 0]
           row == [Claimed(job[t], w) EXCEPT
                      !.retry = IF source > job[t].input THEN DefaultRetry ELSE @,
                      !.input = source]
       IN  IF Claimable(t, source)
           THEN /\ job' = [job EXCEPT ![t] = row]
                /\ claims' = [claims EXCEPT ![w][t] = source]
                /\ ClaimNext(w, left, Held(w) \cup {t})
           ELSE /\ UNCHANGED <<job, claims>>
                /\ ClaimNext(w, left, Held(w))
    /\ UNCHANGED <<updated, mode, output, global, watermark, selected, snapshot, considered>>

\* A database error in the loop: the claims made so far are forgotten, their
\* rows stay claimed, and phase 2 comes next.
claim_startup_jobs_fails(w) ==
    /\ pc[w] = "claim"
    /\ scan' = [scan EXCEPT ![w] = Nothing]
    /\ claims' = [claims EXCEPT ![w] = Nothing]
    /\ pc' = [pc EXCEPT ![w] = "extract"]
    /\ UNCHANGED <<updated, mode, output, job, global, watermark, selected, snapshot,
                   considered>>

\* run_jobs: the claimed jobs run concurrently and end in any order.
Finishes(w, t) ==
    /\ pc[w] = "extract"
    /\ claims[w][t] # 0
    /\ claims' = [claims EXCEPT ![w][t] = 0]

Extracted(t) == [job EXCEPT ![t] = Done(@, @.input)]

\* Mutant: the output is stored whatever the row says.
mark_stage1_job_succeeded_late(w, t) ==
    /\ Finishes(w, t)
    /\ global.input < MaxWatermark
    /\ job' = Extracted(t)
    /\ output' = [output EXCEPT ![t].src = claims[w][t]]
    /\ global' = Enqueued(global, claims[w][t])
    /\ UNCHANGED <<updated, mode, pc, scan, watermark, selected, snapshot, considered>>

mark_stage1_job_succeeded(w, t) ==
    /\ Finishes(w, t)
    /\ job[t].owner = w
    /\ global.input < MaxWatermark
    /\ job' = Extracted(t)
    /\ output' = IF output[t].src <= claims[w][t]
                 THEN [output EXCEPT ![t].src = claims[w][t]] ELSE output
    /\ global' = Enqueued(global, claims[w][t])
    /\ UNCHANGED <<updated, mode, pc, scan, watermark, selected, snapshot, considered>>

mark_stage1_job_succeeded_no_output(w, t) ==
    /\ Finishes(w, t)
    /\ job[t].owner = w
    /\ global.input < MaxWatermark
    /\ job' = Extracted(t)
    /\ output' = [output EXCEPT ![t] = NoOutput]
    /\ global' = IF output[t].src # 0 THEN Enqueued(global, job[t].input) ELSE global
    /\ UNCHANGED <<updated, mode, pc, scan, watermark, selected, snapshot, considered>>

mark_stage1_job_failed(w, t) ==
    /\ Finishes(w, t)
    /\ job[t].owner = w
    /\ job' = [job EXCEPT ![t] = Failed(@)]
    /\ UNCHANGED <<updated, mode, output, global, pc, scan, watermark,
                   selected, snapshot, considered>>

\* Any of the three by a worker whose token is no longer in the row, or any of
\* them refused by the database: the run goes on and the row stays as it is.
stage1_not_marked(w, t) ==
    /\ Finishes(w, t)
    /\ UNCHANGED <<updated, mode, output, job, global, pc, scan, watermark,
                   selected, snapshot, considered>>

-----------------------------------------------------------------------------
(* Phase 2                                                                 *)

Dirty == global.input > global.success

\* What a worker keeps of phase 2 once it is through.
Leave(w) ==
    /\ pc' = [pc EXCEPT ![w] = "over"]
    /\ watermark' = [watermark EXCEPT ![w] = 0]
    /\ selected' = [selected EXCEPT ![w] = {}]
    /\ snapshot' = [snapshot EXCEPT ![w] = Nothing]

\* Mutant: an exhausted job is claimed again.
GlobalClaimableForever ==
    /\ Dirty
    /\ ~global.backoff
    /\ ~Leased(global)

GlobalClaimable ==
    /\ Dirty
    /\ global.retry > 0
    /\ ~global.backoff
    /\ ~Leased(global)

\* Phase 2 starts when the last stage-1 job has ended.
try_claim_global_phase2_job(w) ==
    /\ pc[w] = "extract"
    /\ Held(w) = {}
    /\ IF GlobalClaimable
       THEN /\ global' = Claimed(global, w)
            /\ watermark' = [watermark EXCEPT ![w] = global.input]
            /\ pc' = [pc EXCEPT ![w] = "select"]
       ELSE /\ pc' = [pc EXCEPT ![w] = "over"]
            /\ UNCHANGED <<global, watermark>>
    /\ UNCHANGED <<updated, mode, output, job, scan, claims, selected, snapshot, considered>>

\* The outputs of enabled threads; the limits choose among them.
Eligible == {t \in Threads : output[t].src # 0 /\ mode[t] = "enabled"}

\* m is the newest source in the set, 0 when it is empty.
NewestSource(m, set) ==
    /\ m \in {0} \cup {output[t].src : t \in set}
    /\ \A t \in set : output[t].src <= m

\* get_phase2_input_selection and get_watermark; then the agent starts. For an
\* empty selection it does so only to remove old extension resources.
get_phase2_input_selection(w) ==
    /\ pc[w] = "select"
    /\ \E set \in SUBSET Eligible, m \in {0} \cup {output[t].src : t \in Threads} :
           /\ NewestSource(m, set)
           /\ selected' = [selected EXCEPT ![w] = set]
           /\ watermark' = [watermark EXCEPT ![w] = Later(@, m)]
           /\ \E next \in IF set = {} THEN {"agent", "empty"} ELSE {"agent"} :
                  pc' = [pc EXCEPT ![w] = next]
    /\ snapshot' = [snapshot EXCEPT ![w] = [t \in Threads |-> output[t].src]]
    /\ UNCHANGED <<updated, mode, output, job, global, scan, claims, considered>>

\* Mutant: the answer of the heartbeat is not looked at.
heartbeat_unheeded(w) ==
    /\ pc[w] = "agent"
    /\ global' = IF global.owner = w THEN [global EXCEPT !.lease = TRUE] ELSE global
    /\ UNCHANGED <<updated, mode, output, job, pc, scan, claims, watermark, selected,
                   snapshot, considered>>

\* loop_agent: a heartbeat renews the lease, or tells that ownership is lost;
\* then the agent is stopped, and job::failed finds no row of this worker.
heartbeat_global_phase2_job(w) ==
    /\ pc[w] = "agent"
    /\ IF global.owner = w
       THEN /\ global' = [global EXCEPT !.lease = TRUE]
            /\ UNCHANGED <<pc, watermark, selected, snapshot>>
       ELSE /\ Leave(w)
            /\ UNCHANGED global
    /\ UNCHANGED <<updated, mode, output, job, scan, claims, considered>>

\* Mutant: the selected threads, whatever their source is by now.
RebaselinedCurrent(w) ==
    [t \in Threads |->
        [output[t] EXCEPT !.sel = IF t \in selected[w] THEN output[t].src ELSE 0]]

\* The baseline is rewritten to the snapshots that were consumed and are still
\* the current ones.
Rebaselined(w) ==
    [t \in Threads |->
        [output[t] EXCEPT !.sel =
            IF t \in selected[w] /\ output[t].src = snapshot[w][t]
            THEN snapshot[w][t] ELSE 0]]

\* The agent has completed, or there was nothing to consolidate.
mark_global_phase2_job_succeeded(w) ==
    /\ pc[w] \in {"agent", "empty"}
    /\ IF global.owner = w
       THEN /\ global' = Done(global, Later(global.success, watermark[w]))
            /\ output' = Rebaselined(w)
            /\ considered' = snapshot[w]
       ELSE UNCHANGED <<global, output, considered>>
    /\ Leave(w)
    /\ UNCHANGED <<updated, mode, job, scan, claims>>

\* job::failed, when the selection, the artifacts, the spawn or the agent
\* failed.  Its fallback for an unowned row finds none: a running row always
\* has a token.
mark_global_phase2_job_failed(w) ==
    /\ pc[w] \in {"select", "agent"}
    /\ global' = IF global.owner = w THEN Failed(global) ELSE global
    /\ Leave(w)
    /\ UNCHANGED <<updated, mode, output, job, scan, claims, considered>>

-----------------------------------------------------------------------------
(* Time, and sessions that end                                             *)

stage1_lease_expires(t) ==
    /\ Leased(job[t])
    /\ job' = [job EXCEPT ![t].lease = FALSE]
    /\ UNCHANGED <<updated, mode, output, global, pc, scan, claims, watermark,
                   selected, snapshot, considered>>

stage1_backoff_elapses(t) ==
    /\ job[t].backoff
    /\ job' = [job EXCEPT ![t].backoff = FALSE]
    /\ UNCHANGED <<updated, mode, output, global, pc, scan, claims, watermark,
                   selected, snapshot, considered>>

global_lease_expires ==
    /\ Leased(global)
    /\ global' = [global EXCEPT !.lease = FALSE]
    /\ UNCHANGED <<updated, mode, output, job, pc, scan, claims, watermark,
                   selected, snapshot, considered>>

global_backoff_elapses ==
    /\ global.backoff
    /\ global' = [global EXCEPT !.backoff = FALSE]
    /\ UNCHANGED <<updated, mode, output, job, pc, scan, claims, watermark,
                   selected, snapshot, considered>>

\* The process ends, or the mark that would end phase 2 fails in the database:
\* the rows stay as they are.
session_ends(w) ==
    /\ pc[w] \notin {"idle", "over"}
    /\ scan' = [scan EXCEPT ![w] = Nothing]
    /\ claims' = [claims EXCEPT ![w] = Nothing]
    /\ Leave(w)
    /\ UNCHANGED <<updated, mode, output, job, global, considered>>

-----------------------------------------------------------------------------
ThreadStep(t) ==
    \/ thread_updated(t)
    \/ mark_thread_memory_mode_polluted(t)
    \/ stage1_lease_expires(t)
    \/ stage1_backoff_elapses(t)

ExtractStep(w, t) ==
    \/ try_claim_stage1_job(w, t)
    \/ mark_stage1_job_succeeded(w, t)
    \/ mark_stage1_job_succeeded_no_output(w, t)
    \/ mark_stage1_job_failed(w, t)
    \/ stage1_not_marked(w, t)

WorkerStep(w) ==
    \/ claim_stage1_jobs_for_startup(w)
    \/ claim_startup_jobs_fails(w)
    \/ try_claim_global_phase2_job(w)
    \/ get_phase2_input_selection(w)
    \/ heartbeat_global_phase2_job(w)
    \/ mark_global_phase2_job_succeeded(w)
    \/ mark_global_phase2_job_failed(w)
    \/ session_ends(w)

Next ==
    \/ \E t \in Threads : ThreadStep(t)
    \/ \E w \in Workers : WorkerStep(w) \/ \E t \in Threads : ExtractStep(w, t)
    \/ prune_stage1_outputs_for_retention
    \/ clear_memory_data
    \/ global_lease_expires
    \/ global_backoff_elapses

Spec == Init /\ [][Next]_vars

\* loop_agent's interval keeps ticking while the agent runs.
HeartbeatSpec == Spec /\ \A w \in Workers : WF_vars(heartbeat_global_phase2_job(w))

-----------------------------------------------------------------------------
(* Properties                                                              *)

\* Rows, claims and worker state keep their types; in particular no claim, retry
\* or failure takes retry_remaining below zero or above its default.
Jobs == [owner : Workers \cup {NoWorker}, lease : BOOLEAN, backoff : BOOLEAN,
         retry : 0..DefaultRetry, input : Nat, success : Nat]
TypeOK ==
    /\ updated \in [Threads -> Nat]
    /\ mode \in [Threads -> {"enabled", "polluted"}]
    /\ output \in [Threads -> [src : Nat, sel : Nat]]
    /\ job \in [Threads -> Jobs]
    /\ global \in Jobs
    /\ pc \in [Workers -> {"idle", "claim", "extract", "select", "agent", "empty", "over"}]
    /\ scan \in [Workers -> [Threads -> Nat]]
    /\ claims \in [Workers -> [Threads -> Nat]]
    /\ watermark \in [Workers -> Nat]
    /\ selected \in [Workers -> SUBSET Threads]
    /\ snapshot \in [Workers -> [Threads -> Nat]]
    /\ considered \in [Threads -> Nat]

\* An output the last successful consolidation did not see keeps the phase-2
\* job dirty: neither an output stored while a worker consolidates an older
\* selection, nor one with an old source, nor a stale worker's success makes
\* the job look done (the watermarks of enqueue, claim and success).
NoLostConsolidation ==
    (\E t \in Threads : output[t].src \notin {0, considered[t]}) => Dirty

\* A thread is marked selected only for the very snapshot the last successful
\* consolidation consumed, however often it was extracted again meanwhile
\* (mark_global_phase2_job_succeeded matches source_updated_at).
BaselineWasConsumed ==
    \A t \in Threads : output[t].sel # 0 => output[t].sel = considered[t]

\* No more than max_running_jobs stage-1 jobs hold a lease, whatever the claims
\* of concurrent startups (the two counts in the upsert of try_claim_stage1_job).
RunningCap == Cardinality({t \in Threads : Leased(job[t])}) <= MaxRunning

\* The memory of a thread never goes back to an older source, even when the
\* worker of an expired lease comes late.
NeverOlder ==
    [][\A t \in Threads :
          output'[t].src \in {0} \cup {s \in Nat : s >= output[t].src}]_vars

\* A worker that lost the phase-2 job stops its agent (the heartbeat of
\* loop_agent).
LostAgentStops ==
    \A w \in Workers :
        (pc[w] = "agent" /\ global.owner # w) ~> pc[w] # "agent"
=============================================================================
