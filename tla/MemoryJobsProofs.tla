-------------------------- MODULE MemoryJobsProofs --------------------------
(***************************************************************************)
(* Proofs about MemoryJobs, for any threads, sessions, retries and bounds: *)
(* no output escapes the phase-2 job, the baseline is what was consumed,    *)
(* the cap on running stage-1 jobs, and that no memory gets older.         *)
(***************************************************************************)
EXTENDS MemoryJobs, FiniteSetTheorems, TLAPS

-----------------------------------------------------------------------------
(* The inductive invariant                                                 *)

\* A row with an owner has a retry left to lose.
RetriesLeft ==
    /\ global.owner # NoWorker => global.retry > 0
    /\ \A t \in Threads : job[t].owner # NoWorker => job[t].retry > 0

\* The phase-2 job has seen all outputs, and one that runs has work to do.
MarksOK ==
    /\ global.success <= global.input
    /\ global.owner # NoWorker => Dirty
    /\ \A t \in Threads : output[t].src <= global.input

\* What the owner of the phase-2 job will mark as done was claimed before
\* anything its snapshot does not hold was enqueued.
OwnerOK ==
    \A w \in Workers :
        global.owner = w =>
            /\ pc[w] \in {"select", "agent", "empty"} => watermark[w] <= global.input
            /\ \A t \in Threads :
                   pc[w] \in {"agent", "empty"} /\ output[t].src \notin {0, snapshot[w][t]}
                       => watermark[w] < global.input

Inv ==
    /\ TypeOK
    /\ RetriesLeft
    /\ MarksOK
    /\ OwnerOK
    /\ NoLostConsolidation
    /\ BaselineWasConsumed
    /\ RunningCap

-----------------------------------------------------------------------------
(* Rows                                                                    *)

LEMMA NoRows ==
    /\ NoJob \in Jobs /\ NoJob.owner = NoWorker /\ ~NoJob.lease
    /\ NoJob.input = 0 /\ NoJob.success = 0 /\ NoJob.retry = 0
    /\ NoOutput \in [src : Nat, sel : Nat] /\ NoOutput.src = 0 /\ NoOutput.sel = 0
    /\ Nothing \in [Threads -> Nat] /\ \A t \in Threads : Nothing[t] = 0
  BY JobsAssumption DEF NoJob, NoOutput, Nothing, Jobs

\* An enqueue advances the input watermark past what it was, and past the mark.
LEMMA EnqueuedRow ==
    ASSUME NEW j \in Jobs, NEW mark \in Nat
    PROVE  /\ Enqueued(j, mark) \in Jobs
           /\ Enqueued(j, mark).owner = j.owner
           /\ Enqueued(j, mark).retry > 0
           /\ Enqueued(j, mark).success = j.success
           /\ Enqueued(j, mark).input > j.input
           /\ Enqueued(j, mark).input >= mark
  <1> DEFINE r == Later(j.retry, DefaultRetry)
             i == IF mark > j.input THEN mark ELSE j.input + 1
             b == j.backoff /\ j.owner # NoWorker
  <1>1. /\ j.owner \in Workers \cup {NoWorker} /\ j.lease \in BOOLEAN
        /\ j.backoff \in BOOLEAN /\ j.retry \in 0..DefaultRetry
        /\ j.input \in Nat /\ j.success \in Nat /\ DefaultRetry \in Nat /\ DefaultRetry > 0
    BY JobsAssumption DEF Jobs
  <1>2. r \in 0..DefaultRetry /\ r > 0
    BY <1>1 DEF Later
  <1>3. i \in Nat /\ i > j.input /\ i >= mark
    BY <1>1
  <1>4. b \in BOOLEAN
    BY <1>1
  <1>5. Enqueued(j, mark) = [j EXCEPT !.backoff = b, !.retry = r, !.input = i]
    BY DEF Enqueued
  <1> HIDE DEF r, i, b
  <1> QED
    BY <1>2, <1>3, <1>4, <1>5 DEF Jobs

LEMMA ClaimedRow ==
    ASSUME NEW j \in Jobs, NEW w \in Workers
    PROVE  /\ Claimed(j, w) \in Jobs
           /\ Claimed(j, w).owner = w
           /\ Claimed(j, w).retry = j.retry
           /\ Claimed(j, w).input = j.input
           /\ Claimed(j, w).success = j.success
  BY DEF Claimed, Jobs

LEMMA DoneRow ==
    ASSUME NEW j \in Jobs, NEW s \in Nat
    PROVE  /\ Done(j, s) \in Jobs
           /\ Done(j, s).owner = NoWorker /\ ~Done(j, s).lease
           /\ Done(j, s).input = j.input
           /\ Done(j, s).success = s
  BY DEF Done, Jobs

LEMMA FailedRow ==
    ASSUME NEW j \in Jobs, j.retry > 0
    PROVE  /\ Failed(j) \in Jobs
           /\ Failed(j).owner = NoWorker /\ ~Failed(j).lease
           /\ Failed(j).input = j.input
           /\ Failed(j).success = j.success
  <1> DEFINE r == j.retry - 1
  <1>1. r \in 0..DefaultRetry
    BY JobsAssumption DEF Jobs
  <1>2. Failed(j) = [j EXCEPT !.owner = NoWorker, !.lease = FALSE, !.backoff = TRUE, !.retry = r]
    BY DEF Failed
  <1> HIDE DEF r
  <1> QED
    BY <1>1, <1>2 DEF Jobs

\* The types a step most often needs.
LEMMA Types ==
    ASSUME TypeOK
    PROVE  /\ global \in Jobs /\ global.input \in Nat /\ global.success \in Nat
           /\ \A t \in Threads : /\ job[t] \in Jobs
                                 /\ job[t].input \in Nat
                                 /\ output[t].src \in Nat /\ output[t].sel \in Nat
           /\ \A w \in Workers : watermark[w] \in Nat
           /\ \A w \in Workers, t \in Threads : /\ claims[w][t] \in Nat
                                                /\ scan[w][t] \in Nat
                                                /\ snapshot[w][t] \in Nat
           /\ \A t \in Threads : updated[t] \in Nat
  BY DEF TypeOK, Jobs

\* A worker that leaves is over, and nobody else is touched.
LEMMA Left ==
    ASSUME TypeOK, NEW w \in Workers, Leave(w)
    PROVE  /\ pc' \in [Workers -> {"idle", "claim", "extract", "select", "agent", "empty", "over"}]
           /\ watermark' \in [Workers -> Nat]
           /\ selected' \in [Workers -> SUBSET Threads]
           /\ snapshot' \in [Workers -> [Threads -> Nat]]
           /\ pc'[w] = "over"
           /\ \A v \in Workers \ {w} : /\ pc'[v] = pc[v]
                                       /\ watermark'[v] = watermark[v]
                                       /\ snapshot'[v] = snapshot[v]
  BY NoRows DEF TypeOK, Leave

\* No step that lets go of leases breaks the cap.
LEMMA CapKept ==
    ASSUME RunningCap, \A u \in Threads : Leased(job'[u]) => Leased(job[u])
    PROVE  RunningCap'
  <1> DEFINE L == {t \in Threads : Leased(job[t])}
             M == {t \in Threads : Leased(job'[t])}
  <1>1. IsFiniteSet(L) /\ M \in SUBSET L
    BY FS_Subset, JobsAssumption
  <1>2. /\ IsFiniteSet(M) /\ Cardinality(M) <= Cardinality(L)
        /\ Cardinality(M) \in Nat /\ Cardinality(L) \in Nat
    BY <1>1, FS_Subset, FS_CardinalityType
  <1>3. Cardinality(L) <= MaxRunning /\ MaxRunning \in Nat
    BY JobsAssumption DEF RunningCap
  <1> QED
    BY <1>2, <1>3 DEF RunningCap, Leased

-----------------------------------------------------------------------------
(* Every step keeps the invariant                                          *)

LEMMA thread_updated_Inv ==
    ASSUME Inv, NEW t \in Threads, thread_updated(t)
    PROVE  Inv'
  <1> USE DEF Inv
  <1>1. TypeOK'
    BY DEF TypeOK, thread_updated
  <1>2. RetriesLeft'
    BY DEF RetriesLeft, thread_updated
  <1>3. MarksOK'
    BY DEF MarksOK, Dirty, thread_updated
  <1>4. OwnerOK'
    BY DEF OwnerOK, thread_updated
  <1>5. NoLostConsolidation'
    BY DEF NoLostConsolidation, Dirty, thread_updated
  <1>6. BaselineWasConsumed'
    BY DEF BaselineWasConsumed, thread_updated
  <1>7. RunningCap'
    BY DEF RunningCap, thread_updated
  <1> QED
    BY <1>1, <1>2, <1>3, <1>4, <1>5, <1>6, <1>7

\* Forgetting is enqueued with the timestamp of the mark.
LEMMA mark_thread_memory_mode_polluted_Inv ==
    ASSUME Inv, NEW t \in Threads, mark_thread_memory_mode_polluted(t)
    PROVE  Inv'
  <1> USE DEF Inv
  <1>j. global \in Jobs /\ \A u \in Threads : job[u] \in Jobs /\ job[u].input \in Nat
    BY Types
  <1>t. global.input \in Nat /\ global.success \in Nat
    BY Types
  <1>o. /\ \A u \in Threads : output[u].src \in Nat /\ output[u].sel \in Nat
        /\ \A v \in Workers : watermark[v] \in Nat
    BY Types
  <1>n. PICK now \in updated[t]..MaxTime :
           global' = IF output[t].sel # 0 THEN Enqueued(global, now) ELSE global
    BY DEF mark_thread_memory_mode_polluted
  <1>m. now \in Nat
    BY JobsAssumption, Types
  <1>e. /\ Enqueued(global, now) \in Jobs
        /\ Enqueued(global, now).owner = global.owner
        /\ Enqueued(global, now).retry > 0
        /\ Enqueued(global, now).success = global.success
        /\ Enqueued(global, now).input > global.input
        /\ Enqueued(global, now).input >= now
        /\ Enqueued(global, now).input \in Nat
    BY <1>j, <1>m, <1>t, EnqueuedRow DEF Jobs
  <1>g. /\ global' \in Jobs /\ global'.owner = global.owner
        /\ global'.retry >= 0 /\ (global'.owner # NoWorker => global'.retry > 0)
        /\ global'.success = global.success
        /\ global'.input >= global.input /\ global'.input \in Nat
    BY <1>j, <1>n, <1>e, <1>t DEF RetriesLeft, Jobs
  <1>1. TypeOK'
    BY <1>g, <1>t, <1>o DEF TypeOK, mark_thread_memory_mode_polluted
  <1>2. RetriesLeft'
    BY <1>g, <1>t, <1>o DEF RetriesLeft, mark_thread_memory_mode_polluted
  <1>3. MarksOK'
    BY <1>g, <1>t, <1>o DEF MarksOK, Dirty, mark_thread_memory_mode_polluted
  <1>4. OwnerOK'
    BY <1>g, <1>t, <1>o DEF OwnerOK, mark_thread_memory_mode_polluted
  <1>5. NoLostConsolidation'
    BY <1>g, <1>t, <1>o DEF NoLostConsolidation, Dirty, mark_thread_memory_mode_polluted
  <1>6. BaselineWasConsumed'
    BY <1>g, <1>t, <1>o DEF BaselineWasConsumed, mark_thread_memory_mode_polluted
  <1>7. RunningCap'
    BY DEF RunningCap, mark_thread_memory_mode_polluted
  <1> QED
    BY <1>1, <1>2, <1>3, <1>4, <1>5, <1>6, <1>7

\* Everything is gone, and no worker owns the row that comes next.
LEMMA clear_memory_data_Inv ==
    ASSUME Inv, clear_memory_data
    PROVE  Inv'
  <1> USE DEF Inv
  <1>1. TypeOK'
    BY NoRows DEF TypeOK, clear_memory_data
  <1>2. RetriesLeft'
    BY NoRows DEF RetriesLeft, clear_memory_data
  <1>3. MarksOK'
    BY NoRows DEF MarksOK, Dirty, clear_memory_data
  <1>4. OwnerOK'
    BY NoRows, JobsAssumption DEF OwnerOK, clear_memory_data
  <1>5. NoLostConsolidation'
    BY NoRows DEF NoLostConsolidation, Dirty, clear_memory_data
  <1>6. BaselineWasConsumed'
    BY NoRows DEF BaselineWasConsumed, clear_memory_data
  <1>7. RunningCap'
    <2>1. \A u \in Threads : Leased(job'[u]) => Leased(job[u])
      BY NoRows DEF clear_memory_data, Leased
    <2> QED
      BY <2>1, CapKept
  <1> QED
    BY <1>1, <1>2, <1>3, <1>4, <1>5, <1>6, <1>7

LEMMA prune_stage1_outputs_for_retention_Inv ==
    ASSUME Inv, prune_stage1_outputs_for_retention
    PROVE  Inv'
  <1> USE DEF Inv
  <1>t. global.input \in Nat /\ global.success \in Nat
    BY Types
  <1>o. /\ \A u \in Threads : output[u].src \in Nat /\ output[u].sel \in Nat
        /\ \A v \in Workers : watermark[v] \in Nat
    BY Types
  <1>a. /\ output' \in [Threads -> [src : Nat, sel : Nat]]
        /\ \A t \in Threads : output'[t] \in {output[t], NoOutput}
    BY NoRows DEF prune_stage1_outputs_for_retention, TypeOK
  <1>1. TypeOK'
    BY <1>a, <1>t, <1>o, NoRows DEF TypeOK, prune_stage1_outputs_for_retention
  <1>2. RetriesLeft'
    BY <1>a, <1>t, <1>o, NoRows DEF RetriesLeft, prune_stage1_outputs_for_retention
  <1>3. MarksOK'
    BY <1>a, <1>t, <1>o, NoRows DEF MarksOK, Dirty, prune_stage1_outputs_for_retention
  <1>4. OwnerOK'
    BY <1>a, <1>t, <1>o, NoRows DEF OwnerOK, prune_stage1_outputs_for_retention
  <1>5. NoLostConsolidation'
    BY <1>a, <1>t, <1>o, NoRows DEF NoLostConsolidation, Dirty, prune_stage1_outputs_for_retention
  <1>6. BaselineWasConsumed'
    BY <1>a, <1>t, <1>o, NoRows DEF BaselineWasConsumed, prune_stage1_outputs_for_retention
  <1>7. RunningCap'
    BY DEF RunningCap, prune_stage1_outputs_for_retention
  <1> QED
    BY <1>1, <1>2, <1>3, <1>4, <1>5, <1>6, <1>7

LEMMA claim_stage1_jobs_for_startup_Inv ==
    ASSUME Inv, NEW w \in Workers, claim_stage1_jobs_for_startup(w)
    PROVE  Inv'
  <1> USE DEF Inv
  <1>1. TypeOK'
    BY DEF TypeOK, claim_stage1_jobs_for_startup
  <1>2. RetriesLeft'
    BY DEF RetriesLeft, claim_stage1_jobs_for_startup
  <1>3. MarksOK'
    BY DEF MarksOK, Dirty, claim_stage1_jobs_for_startup
  <1>4. OwnerOK'
    BY DEF OwnerOK, claim_stage1_jobs_for_startup
  <1>5. NoLostConsolidation'
    BY DEF NoLostConsolidation, Dirty, claim_stage1_jobs_for_startup
  <1>6. BaselineWasConsumed'
    BY DEF BaselineWasConsumed, claim_stage1_jobs_for_startup
  <1>7. RunningCap'
    BY DEF RunningCap, claim_stage1_jobs_for_startup
  <1> QED
    BY <1>1, <1>2, <1>3, <1>4, <1>5, <1>6, <1>7

\* The claim of one stage-1 job: the cap is counted without the row itself.
LEMMA try_claim_stage1_job_Inv ==
    ASSUME Inv, NEW w \in Workers, NEW t \in Threads, try_claim_stage1_job(w, t)
    PROVE  Inv'
  <1> USE DEF Inv
  <1>j. global \in Jobs /\ \A u \in Threads : job[u] \in Jobs /\ job[u].input \in Nat
    BY Types
  <1> DEFINE source == scan[w][t]
             row == [Claimed(job[t], w) EXCEPT
                        !.retry = IF source > job[t].input THEN DefaultRetry ELSE @,
                        !.input = source]
  <1>s. source \in Nat
    BY Types
  <1>a. Claimable(t, source) => /\ row \in Jobs
                                /\ row.retry > 0
    <2>1. ASSUME Claimable(t, source) PROVE row \in Jobs /\ row.retry > 0
      <3>1. source > job[t].input \/ job[t].retry > 0
        BY <2>1 DEF Claimable
      <3>2. DefaultRetry \in 0..DefaultRetry /\ DefaultRetry > 0
        BY JobsAssumption
      <3>3. Claimed(job[t], w) \in Jobs /\ Claimed(job[t], w).retry = job[t].retry
        BY <1>j, ClaimedRow
      <3>4. job[t].retry \in 0..DefaultRetry
        BY <1>j DEF Jobs
      <3> QED
        BY <1>s, <3>1, <3>2, <3>3, <3>4 DEF Jobs
    <2> QED
      BY <2>1
  <1>b. \/ Claimable(t, source) /\ job' = [job EXCEPT ![t] = row]
        \/ job' = job
    BY DEF try_claim_stage1_job
  <1>l. \/ scan' = [scan EXCEPT ![w] = Nothing]
        \/ scan' = [scan EXCEPT ![w] = [scan[w] EXCEPT ![t] = 0]]
    BY DEF try_claim_stage1_job, ClaimNext
  <1>h. claims' = claims \/ claims' = [claims EXCEPT ![w] = [claims[w] EXCEPT ![t] = source]]
    BY DEF try_claim_stage1_job, TypeOK
  <1> HIDE DEF row, source
  <1>c. /\ job' \in [Threads -> Jobs]
        /\ \A u \in Threads : job'[u].owner # NoWorker => job'[u].retry > 0
    BY <1>a, <1>b DEF TypeOK, RetriesLeft
  <1>d. /\ scan' \in [Workers -> [Threads -> Nat]]
        /\ claims' \in [Workers -> [Threads -> Nat]]
        /\ pc' \in [Workers -> {"idle", "claim", "extract", "select", "agent", "empty", "over"}]
        /\ \A v \in Workers : pc'[v] \in {"select", "agent", "empty"} => pc'[v] = pc[v]
    <2>1. scan' \in [Workers -> [Threads -> Nat]]
      <3> DEFINE left == [scan[w] EXCEPT ![t] = 0]
      <3>1. Nothing \in [Threads -> Nat] /\ left \in [Threads -> Nat]
        BY NoRows DEF TypeOK
      <3>2. scan' = [scan EXCEPT ![w] = Nothing] \/ scan' = [scan EXCEPT ![w] = left]
        BY <1>l
      <3> HIDE DEF left
      <3> QED
        BY <3>1, <3>2 DEF TypeOK
    <2>2. claims' \in [Workers -> [Threads -> Nat]]
      <3> DEFINE mine == [claims[w] EXCEPT ![t] = source]
      <3>1. mine \in [Threads -> Nat]
        BY <1>s DEF TypeOK
      <3>2. claims' = claims \/ claims' = [claims EXCEPT ![w] = mine]
        BY <1>h
      <3> HIDE DEF mine
      <3> QED
        BY <3>1, <3>2 DEF TypeOK
    <2>3. pc' = pc \/ pc' = [pc EXCEPT ![w] = "extract"]
      BY DEF try_claim_stage1_job, ClaimNext
    <2> QED
      BY <2>1, <2>2, <2>3 DEF TypeOK
  <1>1. TypeOK'
    BY <1>c, <1>d DEF TypeOK, try_claim_stage1_job
  <1>2. RetriesLeft'
    BY <1>c, <1>d DEF RetriesLeft, try_claim_stage1_job
  <1>3. MarksOK'
    BY <1>c, <1>d DEF MarksOK, Dirty, try_claim_stage1_job
  <1>4. OwnerOK'
    BY <1>c, <1>d DEF OwnerOK, try_claim_stage1_job
  <1>5. NoLostConsolidation'
    BY <1>c, <1>d DEF NoLostConsolidation, Dirty, try_claim_stage1_job
  <1>6. BaselineWasConsumed'
    BY <1>c, <1>d DEF BaselineWasConsumed, try_claim_stage1_job
  <1>7. RunningCap'
    <2>1. CASE job' = job
      BY <2>1 DEF RunningCap
    <2>2. CASE Claimable(t, source) /\ job' = [job EXCEPT ![t] = row]
      <3> DEFINE L == {u \in Threads \ {t} : Leased(job[u])}
                 M == {u \in Threads : Leased(job'[u])}
      <3>1. M \in SUBSET (L \cup {t})
        BY <2>2 DEF Leased, TypeOK
      <3>2. L \in SUBSET Threads /\ IsFiniteSet(L)
        BY FS_Subset, JobsAssumption
      <3>3. IsFiniteSet(L \cup {t}) /\ Cardinality(L \cup {t}) <= Cardinality(L) + 1
        <4>1. /\ IsFiniteSet(L \cup {t})
              /\ Cardinality(L \cup {t}) =
                     IF t \in L THEN Cardinality(L) ELSE Cardinality(L) + 1
          BY <3>2, FS_AddElement
        <4>2. Cardinality(L) \in Nat
          BY <3>2, FS_CardinalityType
        <4> QED
          BY <4>1, <4>2
      <3>4. IsFiniteSet(M) /\ Cardinality(M) <= Cardinality(L \cup {t})
        BY <3>1, <3>3, FS_Subset
      <3>5. Cardinality(L) < MaxRunning
        BY <2>2 DEF Claimable
      <3>6. /\ Cardinality(L) \in Nat /\ Cardinality(M) \in Nat
            /\ Cardinality(L \cup {t}) \in Nat /\ MaxRunning \in Nat
        BY <3>2, <3>3, <3>4, FS_CardinalityType, JobsAssumption
      <3>7. Cardinality(M) <= MaxRunning
        BY <3>3, <3>4, <3>5, <3>6
      <3> QED
        BY <3>7 DEF RunningCap, Leased
    <2> QED
      BY <1>b, <2>1, <2>2
  <1> QED
    BY <1>1, <1>2, <1>3, <1>4, <1>5, <1>6, <1>7

\* The enqueue moves the input watermark past whatever a running consolidation
\* has claimed.
LEMMA mark_stage1_job_succeeded_Inv ==
    ASSUME Inv, NEW w \in Workers, NEW t \in Threads, mark_stage1_job_succeeded(w, t)
    PROVE  Inv'
  <1> USE DEF Inv
  <1>j. global \in Jobs /\ \A u \in Threads : job[u] \in Jobs /\ job[u].input \in Nat
    BY Types
  <1>t. global.input \in Nat /\ global.success \in Nat
    BY Types
  <1>o. /\ \A u \in Threads : output[u].src \in Nat /\ output[u].sel \in Nat
        /\ \A v \in Workers : watermark[v] \in Nat
    BY Types
  <1>s. claims[w][t] \in Nat
    BY Types
  <1>e. /\ Enqueued(global, claims[w][t]) \in Jobs
        /\ Enqueued(global, claims[w][t]).owner = global.owner
        /\ Enqueued(global, claims[w][t]).retry > 0
        /\ Enqueued(global, claims[w][t]).success = global.success
        /\ Enqueued(global, claims[w][t]).input > global.input
        /\ Enqueued(global, claims[w][t]).input >= claims[w][t]
        /\ Enqueued(global, claims[w][t]).input \in Nat
    BY <1>j, <1>s, <1>t, EnqueuedRow DEF Jobs
  <1>x. /\ job' \in [Threads -> Jobs]
        /\ job'[t].owner = NoWorker /\ ~job'[t].lease
        /\ \A u \in Threads \ {t} : job'[u] = job[u]
    BY <1>j, DoneRow DEF mark_stage1_job_succeeded, Extracted, TypeOK
  <1>p. /\ output' \in [Threads -> [src : Nat, sel : Nat]]
        /\ \A u \in Threads : output'[u].sel = output[u].sel
        /\ \A u \in Threads \ {t} : output'[u] = output[u]
        /\ output'[t].src \in {output[t].src, claims[w][t]}
    <2>1. \/ output' = output
          \/ output' = [output EXCEPT ![t] = [output[t] EXCEPT !.src = claims[w][t]]]
      BY DEF mark_stage1_job_succeeded, TypeOK
    <2>2. output[t] \in [src : Nat, sel : Nat]
      BY DEF TypeOK
    <2> DEFINE row == [output[t] EXCEPT !.src = claims[w][t]]
    <2>3. /\ row \in [src : Nat, sel : Nat]
          /\ row.sel = output[t].sel /\ row.src = claims[w][t]
      BY <1>s, <2>2
    <2>4. output' = output \/ output' = [output EXCEPT ![t] = row]
      BY <2>1
    <2> HIDE DEF row
    <2>5. output \in [Threads -> [src : Nat, sel : Nat]]
      BY DEF TypeOK
    <2> HIDE DEF Inv
    <2>6. CASE output' = output
      BY <1>o, <2>5, <2>6
    <2>7. CASE output' = [output EXCEPT ![t] = row]
      <3>1. output'[t] = row /\ \A u \in Threads \ {t} : output'[u] = output[u]
        BY <2>5, <2>7
      <3>2. output' \in [Threads -> [src : Nat, sel : Nat]]
        BY <2>3, <2>5, <2>7
      <3> QED
        BY <2>3, <3>1, <3>2
    <2> QED
      BY <2>4, <2>6, <2>7
  <1>d. Dirty'
    BY <1>e, <1>t DEF Dirty, MarksOK, mark_stage1_job_succeeded
  <1>1. TypeOK'
    BY <1>e, <1>j, <1>t, <1>s, <1>x, <1>p, <1>o DEF TypeOK, mark_stage1_job_succeeded, Finishes
  <1>2. RetriesLeft'
    BY <1>e, <1>j, <1>t, <1>s, <1>x, <1>p, <1>o DEF RetriesLeft, mark_stage1_job_succeeded, Finishes
  <1>3. MarksOK'
    BY <1>e, <1>j, <1>t, <1>s, <1>x, <1>p, <1>o DEF MarksOK, Dirty, mark_stage1_job_succeeded, Finishes
  <1>4. OwnerOK'
    BY <1>e, <1>j, <1>t, <1>s, <1>x, <1>p, <1>o DEF OwnerOK, mark_stage1_job_succeeded, Finishes
  <1>5. NoLostConsolidation'
    BY <1>d DEF NoLostConsolidation
  <1>6. BaselineWasConsumed'
    BY <1>e, <1>j, <1>t, <1>s, <1>x, <1>p, <1>o DEF BaselineWasConsumed, mark_stage1_job_succeeded, Finishes
  <1>7. RunningCap'
    <2>1. \A u \in Threads : Leased(job'[u]) => Leased(job[u])
      BY <1>x DEF Leased
    <2> QED
      BY <2>1, CapKept
  <1> QED
    BY <1>1, <1>2, <1>3, <1>4, <1>5, <1>6, <1>7

LEMMA mark_stage1_job_succeeded_no_output_Inv ==
    ASSUME Inv, NEW w \in Workers, NEW t \in Threads, mark_stage1_job_succeeded_no_output(w, t)
    PROVE  Inv'
  <1> USE DEF Inv
  <1>j. global \in Jobs /\ \A u \in Threads : job[u] \in Jobs /\ job[u].input \in Nat
    BY Types
  <1>t. global.input \in Nat /\ global.success \in Nat
    BY Types
  <1>o. /\ \A u \in Threads : output[u].src \in Nat /\ output[u].sel \in Nat
        /\ \A v \in Workers : watermark[v] \in Nat
    BY Types
  <1>e. /\ Enqueued(global, job[t].input) \in Jobs
        /\ Enqueued(global, job[t].input).owner = global.owner
        /\ Enqueued(global, job[t].input).retry > 0
        /\ Enqueued(global, job[t].input).success = global.success
        /\ Enqueued(global, job[t].input).input > global.input
        /\ Enqueued(global, job[t].input).input >= job[t].input
        /\ Enqueued(global, job[t].input).input \in Nat
    BY <1>j, <1>t, EnqueuedRow DEF Jobs
  <1>x. /\ job' \in [Threads -> Jobs]
        /\ job'[t].owner = NoWorker /\ ~job'[t].lease
        /\ \A u \in Threads \ {t} : job'[u] = job[u]
    BY <1>j, DoneRow DEF mark_stage1_job_succeeded_no_output, Extracted, TypeOK
  <1>p. /\ output' \in [Threads -> [src : Nat, sel : Nat]]
        /\ \A u \in Threads : output'[u] \in {output[u], NoOutput}
    BY NoRows DEF TypeOK, mark_stage1_job_succeeded_no_output
  <1>g. /\ global' \in Jobs /\ global'.owner = global.owner
        /\ (global'.owner # NoWorker => global'.retry > 0)
        /\ global'.success = global.success
        /\ global'.input >= global.input /\ global'.input \in Nat
    BY <1>j, <1>e, <1>t DEF RetriesLeft, mark_stage1_job_succeeded_no_output
  <1>1. TypeOK'
    BY <1>g, <1>j, <1>t, <1>x, <1>p, <1>o, NoRows DEF TypeOK, mark_stage1_job_succeeded_no_output, Finishes
  <1>2. RetriesLeft'
    BY <1>g, <1>j, <1>t, <1>x, <1>p, <1>o, NoRows DEF RetriesLeft, mark_stage1_job_succeeded_no_output, Finishes
  <1>3. MarksOK'
    BY <1>g, <1>j, <1>t, <1>x, <1>p, <1>o, NoRows DEF MarksOK, Dirty, mark_stage1_job_succeeded_no_output, Finishes
  <1>4. OwnerOK'
    BY <1>g, <1>j, <1>t, <1>x, <1>p, <1>o, NoRows DEF OwnerOK, mark_stage1_job_succeeded_no_output, Finishes
  <1>5. NoLostConsolidation'
    BY <1>g, <1>j, <1>t, <1>x, <1>p, <1>o, NoRows DEF NoLostConsolidation, Dirty, mark_stage1_job_succeeded_no_output, Finishes
  <1>6. BaselineWasConsumed'
    BY <1>g, <1>j, <1>t, <1>x, <1>p, <1>o, NoRows DEF BaselineWasConsumed, mark_stage1_job_succeeded_no_output, Finishes
  <1>7. RunningCap'
    <2>1. \A u \in Threads : Leased(job'[u]) => Leased(job[u])
      BY <1>x DEF Leased
    <2> QED
      BY <2>1, CapKept
  <1> QED
    BY <1>1, <1>2, <1>3, <1>4, <1>5, <1>6, <1>7

LEMMA mark_stage1_job_failed_Inv ==
    ASSUME Inv, NEW w \in Workers, NEW t \in Threads, mark_stage1_job_failed(w, t)
    PROVE  Inv'
  <1> USE DEF Inv
  <1>j. global \in Jobs /\ \A u \in Threads : job[u] \in Jobs /\ job[u].input \in Nat
    BY Types
  <1>r. job[t].owner # NoWorker /\ job[t].retry > 0
    BY JobsAssumption DEF mark_stage1_job_failed, RetriesLeft
  <1>x. /\ job' \in [Threads -> Jobs]
        /\ job'[t].owner = NoWorker /\ ~job'[t].lease
        /\ \A u \in Threads \ {t} : job'[u] = job[u]
    BY <1>j, <1>r, FailedRow DEF mark_stage1_job_failed, TypeOK
  <1>1. TypeOK'
    BY <1>x DEF TypeOK, mark_stage1_job_failed, Finishes
  <1>2. RetriesLeft'
    BY <1>x DEF RetriesLeft, mark_stage1_job_failed, Finishes
  <1>3. MarksOK'
    BY <1>x DEF MarksOK, Dirty, mark_stage1_job_failed, Finishes
  <1>4. OwnerOK'
    BY <1>x DEF OwnerOK, mark_stage1_job_failed, Finishes
  <1>5. NoLostConsolidation'
    BY <1>x DEF NoLostConsolidation, Dirty, mark_stage1_job_failed, Finishes
  <1>6. BaselineWasConsumed'
    BY <1>x DEF BaselineWasConsumed, mark_stage1_job_failed, Finishes
  <1>7. RunningCap'
    <2>1. \A u \in Threads : Leased(job'[u]) => Leased(job[u])
      BY <1>x DEF Leased
    <2> QED
      BY <2>1, CapKept
  <1> QED
    BY <1>1, <1>2, <1>3, <1>4, <1>5, <1>6, <1>7

\* The rows stay as they are.
LEMMA claim_startup_jobs_fails_Inv ==
    ASSUME Inv, NEW w \in Workers, claim_startup_jobs_fails(w)
    PROVE  Inv'
  <1> USE DEF Inv
  <1>1. TypeOK'
    BY NoRows DEF TypeOK, claim_startup_jobs_fails
  <1>2. RetriesLeft'
    BY DEF RetriesLeft, claim_startup_jobs_fails
  <1>3. MarksOK'
    BY DEF MarksOK, Dirty, claim_startup_jobs_fails
  <1>4. OwnerOK'
    BY DEF OwnerOK, TypeOK, claim_startup_jobs_fails
  <1>5. NoLostConsolidation'
    BY DEF NoLostConsolidation, Dirty, claim_startup_jobs_fails
  <1>6. BaselineWasConsumed'
    BY DEF BaselineWasConsumed, claim_startup_jobs_fails
  <1>7. RunningCap'
    BY DEF RunningCap, claim_startup_jobs_fails
  <1> QED
    BY <1>1, <1>2, <1>3, <1>4, <1>5, <1>6, <1>7

LEMMA stage1_not_marked_Inv ==
    ASSUME Inv, NEW w \in Workers, NEW t \in Threads, stage1_not_marked(w, t)
    PROVE  Inv'
  <1> USE DEF Inv
  <1>1. TypeOK'
    BY DEF TypeOK, stage1_not_marked, Finishes
  <1>2. RetriesLeft'
    BY DEF RetriesLeft, stage1_not_marked, Finishes
  <1>3. MarksOK'
    BY DEF MarksOK, Dirty, stage1_not_marked, Finishes
  <1>4. OwnerOK'
    BY DEF OwnerOK, stage1_not_marked, Finishes
  <1>5. NoLostConsolidation'
    BY DEF NoLostConsolidation, Dirty, stage1_not_marked, Finishes
  <1>6. BaselineWasConsumed'
    BY DEF BaselineWasConsumed, stage1_not_marked, Finishes
  <1>7. RunningCap'
    BY DEF RunningCap, stage1_not_marked
  <1> QED
    BY <1>1, <1>2, <1>3, <1>4, <1>5, <1>6, <1>7

\* A claim takes the current input watermark, which no output exceeds.
LEMMA try_claim_global_phase2_job_Inv ==
    ASSUME Inv, NEW w \in Workers, try_claim_global_phase2_job(w)
    PROVE  Inv'
  <1> USE DEF Inv
  <1>j. global \in Jobs /\ \A u \in Threads : job[u] \in Jobs /\ job[u].input \in Nat
    BY Types
  <1>t. global.input \in Nat /\ global.success \in Nat
    BY Types
  <1>c. /\ Claimed(global, w) \in Jobs /\ Claimed(global, w).owner = w
        /\ Claimed(global, w).retry = global.retry
        /\ Claimed(global, w).input = global.input
        /\ Claimed(global, w).success = global.success
    BY <1>j, ClaimedRow
  <1>1. TypeOK'
    BY <1>c, <1>t DEF TypeOK, try_claim_global_phase2_job, GlobalClaimable
  <1>2. RetriesLeft'
    BY <1>c, <1>t DEF RetriesLeft, try_claim_global_phase2_job, GlobalClaimable
  <1>3. MarksOK'
    BY <1>c, <1>t DEF MarksOK, Dirty, try_claim_global_phase2_job, GlobalClaimable
  <1>4. OwnerOK'
    <2>1. CASE GlobalClaimable
      <3>1. /\ global' = Claimed(global, w) /\ watermark'[w] = global.input
            /\ pc'[w] = "select"
        BY <2>1 DEF try_claim_global_phase2_job, TypeOK
      <3> QED
        BY <1>c, <1>t, <3>1 DEF OwnerOK
    <2>2. CASE ~GlobalClaimable
      BY <2>2 DEF OwnerOK, try_claim_global_phase2_job, TypeOK
    <2> QED
      BY <2>1, <2>2
  <1>5. NoLostConsolidation'
    BY <1>c, <1>t DEF NoLostConsolidation, Dirty, try_claim_global_phase2_job, GlobalClaimable
  <1>6. BaselineWasConsumed'
    BY <1>c, <1>t DEF BaselineWasConsumed, try_claim_global_phase2_job, GlobalClaimable
  <1>7. RunningCap'
    BY DEF RunningCap, try_claim_global_phase2_job
  <1> QED
    BY <1>1, <1>2, <1>3, <1>4, <1>5, <1>6, <1>7

\* The snapshot holds all outputs, and the completion watermark stays within
\* the input watermark.
LEMMA get_phase2_input_selection_Inv ==
    ASSUME Inv, NEW w \in Workers, get_phase2_input_selection(w)
    PROVE  Inv'
  <1> USE DEF Inv
  <1>j. global \in Jobs /\ \A u \in Threads : job[u] \in Jobs /\ job[u].input \in Nat
    BY Types
  <1>t. global.input \in Nat /\ global.success \in Nat
    BY Types
  <1>o. /\ \A u \in Threads : output[u].src \in Nat /\ output[u].sel \in Nat
        /\ \A v \in Workers : watermark[v] \in Nat
    BY Types
  <1>m. PICK set \in SUBSET Eligible, m \in {0} \cup {output[t].src : t \in Threads} :
           /\ selected' = [selected EXCEPT ![w] = set]
           /\ watermark' = [watermark EXCEPT ![w] = Later(@, m)]
    BY DEF get_phase2_input_selection
  <1>b. m \in Nat /\ m <= global.input /\ set \in SUBSET Threads
    BY <1>o, <1>t DEF MarksOK, Eligible
  <1>w. /\ watermark' \in [Workers -> Nat] /\ selected' \in [Workers -> SUBSET Threads]
        /\ watermark'[w] \in {watermark[w], m}
        /\ \A v \in Workers \ {w} : watermark'[v] = watermark[v]
    BY <1>m, <1>b DEF TypeOK, Later
  <1>s. /\ snapshot' \in [Workers -> [Threads -> Nat]]
        /\ \A t \in Threads : snapshot'[w][t] = output[t].src
        /\ \A v \in Workers \ {w} : snapshot'[v] = snapshot[v]
    BY <1>o DEF get_phase2_input_selection, TypeOK
  <1>1. TypeOK'
    BY <1>b, <1>w, <1>s, <1>t, <1>o DEF TypeOK, get_phase2_input_selection
  <1>2. RetriesLeft'
    BY <1>b, <1>w, <1>s, <1>t, <1>o DEF RetriesLeft, get_phase2_input_selection
  <1>3. MarksOK'
    BY <1>b, <1>w, <1>s, <1>t, <1>o DEF MarksOK, Dirty, get_phase2_input_selection
  <1>4. OwnerOK'
    <2>1. pc[w] = "select" /\ pc'[w] \in {"agent", "empty"} /\ \A v \in Workers \ {w} : pc'[v] = pc[v]
      BY DEF get_phase2_input_selection, TypeOK
    <2>2. output' = output /\ global' = global
      BY DEF get_phase2_input_selection
    <2>3. global.owner = w => watermark'[w] <= global.input
      BY <1>b, <1>w, <2>1 DEF OwnerOK
    <2> QED
      BY <1>w, <1>s, <2>1, <2>2, <2>3 DEF OwnerOK
  <1>5. NoLostConsolidation'
    BY <1>b, <1>w, <1>s, <1>t, <1>o DEF NoLostConsolidation, Dirty, get_phase2_input_selection
  <1>6. BaselineWasConsumed'
    BY <1>b, <1>w, <1>s, <1>t, <1>o DEF BaselineWasConsumed, get_phase2_input_selection
  <1>7. RunningCap'
    BY DEF RunningCap, get_phase2_input_selection
  <1> QED
    BY <1>1, <1>2, <1>3, <1>4, <1>5, <1>6, <1>7

LEMMA heartbeat_global_phase2_job_Inv ==
    ASSUME Inv, NEW w \in Workers, heartbeat_global_phase2_job(w)
    PROVE  Inv'
  <1> USE DEF Inv
  <1>g. /\ global' \in Jobs /\ global'.owner = global.owner /\ global'.retry = global.retry
        /\ global'.input = global.input /\ global'.success = global.success
    BY DEF heartbeat_global_phase2_job, TypeOK, Jobs
  <1>l. \/ UNCHANGED <<pc, watermark, selected, snapshot>>
        \/ global.owner # w /\ Leave(w)
    BY DEF heartbeat_global_phase2_job
  <1>1. TypeOK'
    BY <1>g, <1>l, Left DEF TypeOK, heartbeat_global_phase2_job
  <1>2. RetriesLeft'
    BY <1>g DEF RetriesLeft, heartbeat_global_phase2_job
  <1>3. MarksOK'
    BY <1>g DEF MarksOK, Dirty, heartbeat_global_phase2_job
  <1>4. OwnerOK'
    <2>1. output' = output
      BY DEF heartbeat_global_phase2_job
    <2> QED
      BY <1>g, <1>l, <2>1, Left DEF OwnerOK
  <1>5. NoLostConsolidation'
    BY <1>g DEF NoLostConsolidation, Dirty, heartbeat_global_phase2_job
  <1>6. BaselineWasConsumed'
    BY <1>g DEF BaselineWasConsumed, heartbeat_global_phase2_job
  <1>7. RunningCap'
    BY DEF RunningCap, heartbeat_global_phase2_job
  <1> QED
    BY <1>1, <1>2, <1>3, <1>4, <1>5, <1>6, <1>7

\* What the snapshot does not hold was enqueued after the watermark that is
\* now marked as done.
LEMMA mark_global_phase2_job_succeeded_Inv ==
    ASSUME Inv, NEW w \in Workers, mark_global_phase2_job_succeeded(w)
    PROVE  Inv'
  <1> USE DEF Inv
  <1>j. global \in Jobs /\ \A u \in Threads : job[u] \in Jobs /\ job[u].input \in Nat
    BY Types
  <1>t. global.input \in Nat /\ global.success \in Nat
    BY Types
  <1>o. /\ \A u \in Threads : output[u].src \in Nat /\ output[u].sel \in Nat
        /\ \A v \in Workers : watermark[v] \in Nat
    BY Types
  <1>u. CASE global.owner # w
    <2>1. UNCHANGED <<global, output, considered, job>>
      BY <1>u DEF mark_global_phase2_job_succeeded
    <2>2. TypeOK' /\ OwnerOK'
      BY <1>u, <2>1, NoRows DEF TypeOK, OwnerOK, mark_global_phase2_job_succeeded, Leave
    <2> QED
      BY <2>1, <2>2 DEF RetriesLeft, MarksOK, Dirty, NoLostConsolidation, BaselineWasConsumed,
         RunningCap, Leased
  <1>w. CASE global.owner = w
    <2> DEFINE s == Later(global.success, watermark[w])
    <2>1. /\ s \in Nat /\ s <= global.input
          /\ \A t \in Threads : output[t].src \notin {0, snapshot[w][t]} => s < global.input
      BY <1>w, <1>t, <1>o, JobsAssumption DEF Later, MarksOK, Dirty, OwnerOK,
         mark_global_phase2_job_succeeded
    <2>2. /\ global' \in Jobs /\ global'.owner = NoWorker
          /\ global'.input = global.input /\ global'.success = s
      BY <1>w, <1>j, <2>1, DoneRow DEF mark_global_phase2_job_succeeded
    <2>3. /\ output' \in [Threads -> [src : Nat, sel : Nat]]
          /\ \A t \in Threads : output'[t].src = output[t].src
          /\ \A t \in Threads : output'[t].sel \in {0, snapshot[w][t]}
      <3>1. \A t \in Threads :
                LET sel == IF t \in selected[w] /\ output[t].src = snapshot[w][t]
                           THEN snapshot[w][t] ELSE 0
                IN  output'[t] = [output[t] EXCEPT !.sel = sel]
        BY <1>w DEF mark_global_phase2_job_succeeded, Rebaselined
      <3>2. DOMAIN output' = Threads /\ output' = [t \in Threads |-> output'[t]]
        BY <1>w DEF mark_global_phase2_job_succeeded, Rebaselined
      <3>3. \A t \in Threads : output[t] \in [src : Nat, sel : Nat] /\ snapshot[w][t] \in Nat
        BY DEF TypeOK
      <3> QED
        BY <3>1, <3>2, <3>3
    <2>4. considered' = snapshot[w] /\ job' = job
      BY <1>w DEF mark_global_phase2_job_succeeded
    <2> HIDE DEF s
    <2>5. TypeOK'
      BY <2>2, <2>3, <2>4, NoRows DEF TypeOK, mark_global_phase2_job_succeeded, Leave
    <2>6. MarksOK' /\ RetriesLeft'
      BY <2>1, <2>2, <2>3, <2>4 DEF MarksOK, RetriesLeft, Dirty
    <2>7. OwnerOK'
      BY <2>2, JobsAssumption DEF OwnerOK
    <2>8. NoLostConsolidation'
      BY <2>1, <2>2, <2>3, <2>4, <1>t DEF NoLostConsolidation, Dirty
    <2>9. BaselineWasConsumed' /\ RunningCap'
      BY <2>3, <2>4 DEF BaselineWasConsumed, RunningCap, Leased
    <2> QED
      BY <2>5, <2>6, <2>7, <2>8, <2>9
  <1> QED
    BY <1>u, <1>w

LEMMA mark_global_phase2_job_failed_Inv ==
    ASSUME Inv, NEW w \in Workers, mark_global_phase2_job_failed(w)
    PROVE  Inv'
  <1> USE DEF Inv
  <1>j. global \in Jobs /\ \A u \in Threads : job[u] \in Jobs /\ job[u].input \in Nat
    BY Types
  <1>r. global.owner = w => Failed(global) \in Jobs /\ Failed(global).owner = NoWorker
           /\ Failed(global).input = global.input /\ Failed(global).success = global.success
    BY <1>j, FailedRow, JobsAssumption DEF RetriesLeft
  <1>g. /\ global' \in Jobs
        /\ global'.owner = NoWorker \/ global' = global
        /\ global'.input = global.input /\ global'.success = global.success
        /\ global.owner = w => global'.owner = NoWorker
    BY <1>j, <1>r DEF mark_global_phase2_job_failed
  <1>1. TypeOK'
    BY <1>g, NoRows, JobsAssumption DEF TypeOK, mark_global_phase2_job_failed, Leave
  <1>2. RetriesLeft'
    BY <1>g, NoRows, JobsAssumption DEF RetriesLeft, mark_global_phase2_job_failed, Leave
  <1>3. MarksOK'
    BY <1>g, NoRows, JobsAssumption DEF MarksOK, Dirty, mark_global_phase2_job_failed, Leave
  <1>4. OwnerOK'
    BY <1>g, NoRows, JobsAssumption DEF OwnerOK, mark_global_phase2_job_failed, Leave
  <1>5. NoLostConsolidation'
    BY <1>g, NoRows, JobsAssumption DEF NoLostConsolidation, Dirty, mark_global_phase2_job_failed, Leave
  <1>6. BaselineWasConsumed'
    BY <1>g, NoRows, JobsAssumption DEF BaselineWasConsumed, mark_global_phase2_job_failed, Leave
  <1>7. RunningCap'
    BY DEF RunningCap, mark_global_phase2_job_failed
  <1> QED
    BY <1>1, <1>2, <1>3, <1>4, <1>5, <1>6, <1>7

LEMMA stage1_lease_expires_Inv ==
    ASSUME Inv, NEW t \in Threads, stage1_lease_expires(t)
    PROVE  Inv'
  <1> USE DEF Inv
  <1>1. TypeOK'
    BY DEF TypeOK, stage1_lease_expires, Jobs
  <1>2. RetriesLeft'
    BY DEF RetriesLeft, stage1_lease_expires, Jobs
  <1>3. MarksOK'
    BY DEF MarksOK, Dirty, stage1_lease_expires, Jobs
  <1>4. OwnerOK'
    BY DEF OwnerOK, stage1_lease_expires, Jobs
  <1>5. NoLostConsolidation'
    BY DEF NoLostConsolidation, Dirty, stage1_lease_expires, Jobs
  <1>6. BaselineWasConsumed'
    BY DEF BaselineWasConsumed, stage1_lease_expires, Jobs
  <1>7. RunningCap'
    <2>1. \A u \in Threads : Leased(job'[u]) => Leased(job[u])
      BY DEF stage1_lease_expires, Leased, TypeOK, Jobs
    <2> QED
      BY <2>1, CapKept
  <1> QED
    BY <1>1, <1>2, <1>3, <1>4, <1>5, <1>6, <1>7

LEMMA stage1_backoff_elapses_Inv ==
    ASSUME Inv, NEW t \in Threads, stage1_backoff_elapses(t)
    PROVE  Inv'
  <1> USE DEF Inv
  <1>1. TypeOK'
    BY DEF TypeOK, stage1_backoff_elapses, Jobs
  <1>2. RetriesLeft'
    BY DEF RetriesLeft, stage1_backoff_elapses, Jobs
  <1>3. MarksOK'
    BY DEF MarksOK, Dirty, stage1_backoff_elapses, Jobs
  <1>4. OwnerOK'
    BY DEF OwnerOK, stage1_backoff_elapses, Jobs
  <1>5. NoLostConsolidation'
    BY DEF NoLostConsolidation, Dirty, stage1_backoff_elapses, Jobs
  <1>6. BaselineWasConsumed'
    BY DEF BaselineWasConsumed, stage1_backoff_elapses, Jobs
  <1>7. RunningCap'
    <2>1. \A u \in Threads : Leased(job'[u]) => Leased(job[u])
      BY DEF stage1_backoff_elapses, Leased, TypeOK, Jobs
    <2> QED
      BY <2>1, CapKept
  <1> QED
    BY <1>1, <1>2, <1>3, <1>4, <1>5, <1>6, <1>7

LEMMA global_lease_expires_Inv ==
    ASSUME Inv, global_lease_expires
    PROVE  Inv'
  <1> USE DEF Inv
  <1>g. /\ global' \in Jobs /\ global'.owner = global.owner /\ global'.retry = global.retry
        /\ global'.input = global.input /\ global'.success = global.success
    BY DEF global_lease_expires, TypeOK, Jobs
  <1>1. TypeOK'
    BY <1>g DEF TypeOK, global_lease_expires
  <1>2. RetriesLeft'
    BY <1>g DEF RetriesLeft, global_lease_expires
  <1>3. MarksOK'
    BY <1>g DEF MarksOK, Dirty, global_lease_expires
  <1>4. OwnerOK'
    BY <1>g DEF OwnerOK, global_lease_expires
  <1>5. NoLostConsolidation'
    BY <1>g DEF NoLostConsolidation, Dirty, global_lease_expires
  <1>6. BaselineWasConsumed'
    BY <1>g DEF BaselineWasConsumed, global_lease_expires
  <1>7. RunningCap'
    BY DEF RunningCap, global_lease_expires
  <1> QED
    BY <1>1, <1>2, <1>3, <1>4, <1>5, <1>6, <1>7

LEMMA global_backoff_elapses_Inv ==
    ASSUME Inv, global_backoff_elapses
    PROVE  Inv'
  <1> USE DEF Inv
  <1>g. /\ global' \in Jobs /\ global'.owner = global.owner /\ global'.retry = global.retry
        /\ global'.input = global.input /\ global'.success = global.success
    BY DEF global_backoff_elapses, TypeOK, Jobs
  <1>1. TypeOK'
    BY <1>g DEF TypeOK, global_backoff_elapses
  <1>2. RetriesLeft'
    BY <1>g DEF RetriesLeft, global_backoff_elapses
  <1>3. MarksOK'
    BY <1>g DEF MarksOK, Dirty, global_backoff_elapses
  <1>4. OwnerOK'
    BY <1>g DEF OwnerOK, global_backoff_elapses
  <1>5. NoLostConsolidation'
    BY <1>g DEF NoLostConsolidation, Dirty, global_backoff_elapses
  <1>6. BaselineWasConsumed'
    BY <1>g DEF BaselineWasConsumed, global_backoff_elapses
  <1>7. RunningCap'
    BY DEF RunningCap, global_backoff_elapses
  <1> QED
    BY <1>1, <1>2, <1>3, <1>4, <1>5, <1>6, <1>7

LEMMA session_ends_Inv ==
    ASSUME Inv, NEW w \in Workers, session_ends(w)
    PROVE  Inv'
  <1> USE DEF Inv
  <1>1. TypeOK'
    BY NoRows DEF TypeOK, session_ends, Leave
  <1>2. RetriesLeft'
    BY NoRows DEF RetriesLeft, session_ends, Leave
  <1>3. MarksOK'
    BY NoRows DEF MarksOK, Dirty, session_ends, Leave
  <1>4. OwnerOK'
    <2>1. Leave(w) /\ output' = output /\ global' = global
      BY DEF session_ends
    <2> QED
      BY <2>1, Left DEF OwnerOK
  <1>5. NoLostConsolidation'
    BY NoRows DEF NoLostConsolidation, Dirty, session_ends, Leave
  <1>6. BaselineWasConsumed'
    BY NoRows DEF BaselineWasConsumed, session_ends, Leave
  <1>7. RunningCap'
    BY DEF RunningCap, session_ends
  <1> QED
    BY <1>1, <1>2, <1>3, <1>4, <1>5, <1>6, <1>7

-----------------------------------------------------------------------------
(* The specification                                                       *)

LEMMA InitInv == Init => Inv
  <1> SUFFICES ASSUME Init PROVE Inv
    OBVIOUS
  <1>1. TypeOK
    BY NoRows DEF Init, TypeOK
  <1>2. RetriesLeft /\ MarksOK /\ OwnerOK
    BY NoRows, JobsAssumption DEF Init, RetriesLeft, MarksOK, OwnerOK
  <1>3. NoLostConsolidation /\ BaselineWasConsumed
    BY NoRows DEF Init, NoLostConsolidation, BaselineWasConsumed
  <1>4. RunningCap
    <2>1. {t \in Threads : Leased(job[t])} = {}
      BY NoRows DEF Init, Leased
    <2> QED
      BY <2>1, FS_EmptySet, JobsAssumption DEF RunningCap
  <1> QED
    BY <1>1, <1>2, <1>3, <1>4 DEF Inv

LEMMA StutterInv == Inv /\ UNCHANGED vars => Inv'
  BY DEF Inv, vars, TypeOK, RetriesLeft, MarksOK, OwnerOK, NoLostConsolidation,
     BaselineWasConsumed, RunningCap, Dirty, Leased

LEMMA NextInv == Inv /\ [Next]_vars => Inv'
  <1> SUFFICES ASSUME Inv, [Next]_vars PROVE Inv'
    OBVIOUS
  <1>1. ASSUME NEW t \in Threads, ThreadStep(t) PROVE Inv'
    BY <1>1, thread_updated_Inv,
       mark_thread_memory_mode_polluted_Inv,
       stage1_lease_expires_Inv,
       stage1_backoff_elapses_Inv
    DEF ThreadStep
  <1>2. ASSUME NEW w \in Workers, NEW t \in Threads, ExtractStep(w, t) PROVE Inv'
    BY <1>2, try_claim_stage1_job_Inv,
       mark_stage1_job_succeeded_Inv,
       mark_stage1_job_succeeded_no_output_Inv,
       mark_stage1_job_failed_Inv,
       stage1_not_marked_Inv
    DEF ExtractStep
  <1>3. ASSUME NEW w \in Workers, WorkerStep(w) PROVE Inv'
    BY <1>3, claim_stage1_jobs_for_startup_Inv,
       claim_startup_jobs_fails_Inv,
       try_claim_global_phase2_job_Inv,
       get_phase2_input_selection_Inv,
       heartbeat_global_phase2_job_Inv,
       mark_global_phase2_job_succeeded_Inv,
       mark_global_phase2_job_failed_Inv,
       session_ends_Inv
    DEF WorkerStep
  <1> QED
    BY <1>1, <1>2, <1>3, StutterInv, prune_stage1_outputs_for_retention_Inv,
       clear_memory_data_Inv,
       global_lease_expires_Inv,
       global_backoff_elapses_Inv
    DEF Next

THEOREM InvHolds == Spec => []Inv
  BY InitInv, NextInv, PTL DEF Spec

\* Rows, claims and worker state keep their types, and no claim, retry or
\* failure takes retry_remaining below zero.
THEOREM TypeOKHolds == Spec => []TypeOK
  <1>1. Inv => TypeOK
    BY DEF Inv
  <1> QED
    BY <1>1, InvHolds, PTL

\* An output that the last successful consolidation did not see keeps the
\* phase-2 job dirty, for any sessions, lease losses and stale workers.
THEOREM NoLostConsolidationHolds == Spec => []NoLostConsolidation
  <1>1. Inv => NoLostConsolidation
    BY DEF Inv
  <1> QED
    BY <1>1, InvHolds, PTL

\* What is marked selected is what was consumed.
THEOREM BaselineWasConsumedHolds == Spec => []BaselineWasConsumed
  <1>1. Inv => BaselineWasConsumed
    BY DEF Inv
  <1> QED
    BY <1>1, InvHolds, PTL

\* The cap on running stage-1 jobs.
THEOREM RunningCapHolds == Spec => []RunningCap
  <1>1. Inv => RunningCap
    BY DEF Inv
  <1> QED
    BY <1>1, InvHolds, PTL

\* A step that stores an output stores no older one.
LEMMA StepNeverOlder ==
    Inv /\ [Next]_vars =>
        \A t \in Threads : output'[t].src \in {0} \cup {s \in Nat : s >= output[t].src}
  <1> SUFFICES ASSUME Inv, [Next]_vars, NEW t \in Threads
               PROVE  output'[t].src \in {0} \cup {s \in Nat : s >= output[t].src}
    OBVIOUS
  <1>t. output[t].src \in Nat /\ NoOutput.src = 0
    BY Types, NoRows DEF Inv
  <1>1. CASE output' = output
    BY <1>1, <1>t
  <1>2. CASE prune_stage1_outputs_for_retention \/ clear_memory_data
    BY <1>2, <1>t DEF prune_stage1_outputs_for_retention, clear_memory_data
  <1>3. ASSUME NEW w \in Workers, NEW u \in Threads, mark_stage1_job_succeeded(w, u)
        PROVE  output'[t].src \in {0} \cup {s \in Nat : s >= output[t].src}
    <2>1. claims[w][u] \in Nat /\ output[u].src \in Nat /\ output \in [Threads -> [src : Nat, sel : Nat]]
      BY Types DEF Inv, TypeOK
    <2>2. \/ output' = output
          \/ /\ output[u].src <= claims[w][u]
             /\ output' = [output EXCEPT ![u] = [output[u] EXCEPT !.src = claims[w][u]]]
      BY <1>3, <2>1 DEF mark_stage1_job_succeeded
    <2> QED
      BY <1>t, <2>1, <2>2
  <1>4. ASSUME NEW w \in Workers, NEW u \in Threads, mark_stage1_job_succeeded_no_output(w, u)
        PROVE  output'[t].src \in {0} \cup {s \in Nat : s >= output[t].src}
    BY <1>4, <1>t DEF mark_stage1_job_succeeded_no_output, Inv, TypeOK
  <1>5. ASSUME NEW w \in Workers, mark_global_phase2_job_succeeded(w)
        PROVE  output'[t].src \in {0} \cup {s \in Nat : s >= output[t].src}
    <2>1. CASE output' = output
      BY <2>1, <1>t
    <2>2. CASE output' = Rebaselined(w)
      <3>1. output'[t].src = output[t].src
        BY <2>2 DEF Rebaselined, Inv, TypeOK
      <3> QED
        BY <3>1, <1>t
    <2> QED
      BY <1>5, <2>1, <2>2 DEF mark_global_phase2_job_succeeded
  <1>6. ASSUME NEW u \in Threads, ThreadStep(u) PROVE output' = output
    BY <1>6 DEF ThreadStep, thread_updated, mark_thread_memory_mode_polluted,
       stage1_lease_expires, stage1_backoff_elapses
  <1>7. ASSUME NEW w \in Workers, WorkerStep(w)
        PROVE  output' = output \/ mark_global_phase2_job_succeeded(w)
    BY <1>7 DEF WorkerStep, claim_stage1_jobs_for_startup, claim_startup_jobs_fails, try_claim_global_phase2_job,
       get_phase2_input_selection, heartbeat_global_phase2_job, mark_global_phase2_job_failed,
       session_ends
  <1>8. ASSUME NEW w \in Workers, NEW u \in Threads, ExtractStep(w, u)
        PROVE  \/ output' = output
               \/ mark_stage1_job_succeeded(w, u)
               \/ mark_stage1_job_succeeded_no_output(w, u)
    BY <1>8 DEF ExtractStep, try_claim_stage1_job, mark_stage1_job_failed, stage1_not_marked
  <1>9. global_lease_expires \/ global_backoff_elapses \/ UNCHANGED vars => output' = output
    BY DEF global_lease_expires, global_backoff_elapses, vars
  <1> QED
    BY <1>1, <1>2, <1>3, <1>4, <1>5, <1>6, <1>7, <1>8, <1>9 DEF Next

\* The memory of a thread never goes back to an older source.
THEOREM NeverOlderHolds == Spec => NeverOlder
  <1>1. Inv /\ [Next]_vars =>
            [\A t \in Threads :
                output'[t].src \in {0} \cup {s \in Nat : s >= output[t].src}]_vars
    BY StepNeverOlder
  <1> QED
    BY <1>1, InvHolds, PTL DEF Spec, NeverOlder
=============================================================================
