--------------------------- MODULE RolloutWriter ---------------------------
(***************************************************************************)
(* The rollout recorder (rollout/src/recorder.rs): callers queue commands  *)
(* on a bounded channel, one writer task owns the file handle, buffers      *)
(* items, writes them line by line, reopens the file and retries once when  *)
(* an I/O operation fails, and answers the barriers (persist, flush,        *)
(* shutdown).  The file outlives the process.                              *)
(*                                                                         *)
(* record_items sends a batch; here every item is a command of its own,     *)
(* which allows the writer's every treatment of a batch and more.  `file`   *)
(* holds the writer's own lines; lines that update_thread_metadata appends  *)
(* to the same file count only through `torn`.  No I/O error is bounded:     *)
(* every open and every write may fail, any number of times.               *)
(***************************************************************************)
EXTENDS Naturals, Sequences

CONSTANTS
    Items,        \* rollout items, as filtered by record_items
    Meta,         \* the SessionMeta item
    Clients,      \* tasks that call persist, flush or shutdown
    NoClient,     \* the sender of an AddItems, which nobody waits for
    Capacity,     \* bound of the command channel (256 in the code)
    SideAppends,  \* whether update_thread_metadata appends to the file too
    MaxRecorded   \* bound: items of one conversation

ASSUME WriterAssumption ==
    /\ Capacity \in Nat \ {0}
    /\ MaxRecorded \in Nat
    /\ SideAppends \in BOOLEAN
    /\ NoClient \notin Clients

VARIABLES
    channel,   \* commands queued and not yet received
    pc,        \* where the writer task is; "closed" ended, "down" crashed
    cur,       \* the command the writer works on
    exists,    \* the file was created: deferred_log_file_info is None
    open,      \* the writer holds a file handle
    meta,      \* the SessionMeta is still to be written
    pending,   \* pending_items
    attempt,   \* 1, or 2 for the retry in recovery mode
    n,         \* written_count of the loop over pending_items
    res,       \* the outcome of the command
    file,      \* lines of the file: item, and whether the line parses
    torn,      \* the file ends in a fragment without a newline
    db,        \* lines of the file the state database has been told of
    call,      \* the barrier call of each client
    recorded,  \* ghost: the log as accepted and not since lost
    confirmed  \* ghost: the longest log a barrier has confirmed

writer == <<pc, cur, exists, open, meta, pending, attempt, n, res>>
vars == <<channel, pc, cur, exists, open, meta, pending, attempt, n, res,
          file, torn, db, call, recorded, confirmed>>

Barriers == {"Persist", "Flush", "Shutdown"}
Cmd(op, c, i, upto) == [op |-> op, from |-> c, item |-> i, upto |-> upto]
NoCmd == Cmd("none", NoClient, Meta, 0)
Idle == [st |-> "idle", need |-> 0]
Answer(ok) == [st |-> IF ok THEN "ok" ELSE "err", need |-> 0]

\* RolloutRecorder::new with Create: the path is computed, nothing is written.
Init ==
    /\ channel = <<>>
    /\ pc = "recv"
    /\ cur = NoCmd
    /\ exists = FALSE
    /\ open = FALSE
    /\ meta = TRUE
    /\ pending = <<>>
    /\ attempt = 1
    /\ n = 0
    /\ res = TRUE
    /\ file = <<>>
    /\ torn = FALSE
    /\ db = 0
    /\ call = [c \in Clients |-> Idle]
    /\ recorded = <<Meta>>
    /\ confirmed = 0

-----------------------------------------------------------------------------
(* The callers                                                             *)

Running == pc \notin {"closed", "down"}

\* record_items returns Ok as soon as the command is queued; a full channel
\* makes it wait, a closed one is an error that changes nothing.
record_items(i) ==
    /\ Running
    /\ Len(channel) < Capacity
    /\ Len(recorded) < MaxRecorded
    /\ recorded' = Append(recorded, i)
    /\ channel' = Append(channel, Cmd("AddItems", NoClient, i, Len(recorded) + 1))
    /\ UNCHANGED <<writer, file, torn, db, call, confirmed>>

\* The log a barrier promises to have stored.  flush and shutdown promise
\* nothing while only the header exists.
Need(op) == IF op # "Persist" /\ Len(recorded) <= 1 THEN 0 ELSE Len(recorded)

\* persist, flush, shutdown: queue the command and wait for the answer.
barrier(c, op) ==
    /\ Running
    /\ call[c].st = "idle"
    /\ Len(channel) < Capacity
    /\ channel' = Append(channel, Cmd(op, c, Meta, Len(recorded)))
    /\ call' = [call EXCEPT ![c] = [st |-> "wait", need |-> Need(op)]]
    /\ UNCHANGED <<writer, file, torn, db, recorded, confirmed>>

\* The send fails: the writer has ended.
barrier_closed(c) ==
    /\ pc = "closed"
    /\ call[c].st = "idle"
    /\ call' = [call EXCEPT ![c] = Answer(FALSE)]
    /\ UNCHANGED <<channel, writer, file, torn, db, recorded, confirmed>>

barrier_returns(c) ==
    /\ call[c].st \in {"ok", "err"}
    /\ call' = [call EXCEPT ![c] = Idle]
    /\ UNCHANGED <<channel, writer, file, torn, db, recorded, confirmed>>

-----------------------------------------------------------------------------
(* The writer task                                                         *)

is_deferred == ~open /\ ~exists

\* Mutant: a flush or shutdown looks only at the file, not at the buffer.
recv_unbuffered ==
    /\ pc = "recv"
    /\ channel # <<>>
    /\ LET cmd == Head(channel)
       IN  /\ cur' = cmd
           /\ pending' = IF cmd.op = "AddItems" THEN Append(pending, cmd.item) ELSE pending
           /\ pc' = IF is_deferred /\ cmd.op # "Persist" THEN "ack" ELSE "open"
    /\ channel' = Tail(channel)
    /\ UNCHANGED <<exists, open, meta, attempt, n, res, file, torn, db, call, recorded, confirmed>>

\* rollout_writer takes the next command.  AddItems writes only when the file
\* is materialized; flush and shutdown have nothing to do while it is not and
\* nothing is buffered.
recv ==
    /\ pc = "recv"
    /\ channel # <<>>
    /\ LET cmd == Head(channel)
           buffered == IF cmd.op = "AddItems" THEN Append(pending, cmd.item) ELSE pending
           idle == /\ is_deferred
                   /\ \/ cmd.op = "AddItems"
                      \/ cmd.op \in {"Flush", "Shutdown"} /\ pending = <<>>
       IN  /\ cur' = cmd
           /\ pending' = buffered
           /\ pc' = IF idle THEN "ack" ELSE "open"
    /\ channel' = Tail(channel)
    /\ UNCHANGED <<exists, open, meta, attempt, n, res, file, torn, db, call, recorded, confirmed>>

\* Mutants: the attempts are counted on; the write is retried for ever.
RecoverCounting ==
    /\ open' = FALSE
    /\ attempt' = attempt + 1
    /\ \/ attempt = 1 /\ pc' = "open" /\ res' = TRUE
       \/ attempt = 2 /\ pc' = "ack" /\ res' = FALSE

RecoverForever ==
    /\ open' = FALSE
    /\ attempt' = 2
    /\ pc' = "open"
    /\ res' = TRUE

\* write_pending_once failed: enter_recovery_mode drops the handle; the first
\* failure is retried, the second one is the outcome.
Recover ==
    /\ open' = FALSE
    /\ attempt' = 2
    /\ \/ attempt = 1 /\ pc' = "open" /\ res' = TRUE
       \/ attempt = 2 /\ pc' = "ack" /\ res' = FALSE

ensure_writer_open ==
    /\ pc = "open"
    /\ open' = TRUE
    /\ exists' = TRUE
    /\ pc' = IF meta THEN "meta" ELSE "items"
    /\ UNCHANGED <<channel, cur, meta, pending, attempt, n, res, file, torn, db,
                   call, recorded, confirmed>>

open_fails ==
    /\ pc = "open"
    /\ ~open
    /\ Recover
    /\ UNCHANGED <<channel, cur, exists, meta, pending, n, file, torn, db,
                   call, recorded, confirmed>>

\* write_line appends a whole line, or fails and may leave a fragment.  A line
\* that follows a fragment is glued to it and does not parse.
WriteLine(i) ==
    /\ file' = Append(file, [item |-> i, ok |-> ~torn])
    /\ torn' = FALSE

WriteFails ==
    /\ torn' \in {torn, TRUE}
    /\ UNCHANGED file

\* sync_thread_state_after_write, whose errors are only logged.
SyncDb(lines) == db' \in {db, lines}

write_session_meta ==
    /\ pc = "meta"
    /\ WriteLine(Meta)
    /\ SyncDb(Len(file) + 1)
    /\ meta' = FALSE
    /\ pc' = "items"
    /\ UNCHANGED <<channel, cur, exists, open, pending, attempt, n, res,
                   call, recorded, confirmed>>

write_session_meta_fails ==
    /\ pc = "meta"
    /\ WriteFails
    /\ Recover
    /\ UNCHANGED <<channel, cur, exists, meta, pending, n, db, call, recorded, confirmed>>

\* The loop of write_pending_items_once.  The items stay in pending_items
\* until the loop has ended.
write_rollout_item ==
    /\ pc = "items"
    /\ n < Len(pending)
    /\ WriteLine(pending[n + 1])
    /\ n' = n + 1
    /\ UNCHANGED <<channel, pc, cur, exists, open, meta, pending, attempt, res, db,
                   call, recorded, confirmed>>

\* Mutants: what was written before a failure stays buffered; the sync reports
\* what is buffered.
DrainComplete ==
    /\ pending' = IF n = Len(pending) THEN <<>> ELSE pending
    /\ n' = 0
    /\ IF n > 0 THEN SyncDb(Len(file)) ELSE UNCHANGED db

DrainAhead ==
    /\ pending' = SubSeq(pending, n + 1, Len(pending))
    /\ n' = 0
    /\ SyncDb(Len(file) + Len(pending) - n)

\* The loop ended: drain(..written_count), and the sync of what was written.
Drain ==
    /\ pending' = SubSeq(pending, n + 1, Len(pending))
    /\ n' = 0
    /\ IF n > 0 THEN SyncDb(Len(file)) ELSE UNCHANGED db

write_rollout_item_fails ==
    /\ pc = "items"
    /\ n < Len(pending)
    /\ WriteFails
    /\ Drain
    /\ Recover
    /\ UNCHANGED <<channel, cur, exists, meta, call, recorded, confirmed>>

\* The last flush of write_pending_once has nothing left to write.
all_written ==
    /\ pc = "items"
    /\ n = Len(pending)
    /\ Drain
    /\ pc' = "ack"
    /\ UNCHANGED <<channel, cur, exists, open, meta, attempt, res,
                   file, torn, call, recorded, confirmed>>

Later(x, y) == IF x < y THEN y ELSE x
Truncated == SubSeq(recorded, 1, Len(file))

\* Between two commands.
Ready ==
    /\ cur' = NoCmd
    /\ attempt' = 1
    /\ res' = TRUE

\* The answer.  flush_if_materialized swallows the error of an AddItems.
ack_add ==
    /\ pc = "ack"
    /\ cur.op = "AddItems"
    /\ pc' = "recv"
    /\ Ready
    /\ UNCHANGED <<channel, exists, open, meta, pending, n,
                   file, torn, db, call, recorded, confirmed>>

\* Mutant: the error of a barrier is swallowed too.
ack_barrier_swallowed ==
    /\ pc = "ack"
    /\ cur.op \in Barriers
    /\ cur.op = "Shutdown" => ~res
    /\ call' = [call EXCEPT ![cur.from] = Answer(TRUE)]
    /\ confirmed' = Later(confirmed, call[cur.from].need)
    /\ pc' = "recv"
    /\ Ready
    /\ UNCHANGED <<channel, exists, open, meta, pending, n, file, torn, db, recorded>>

ack_barrier ==
    /\ pc = "ack"
    /\ cur.op \in Barriers
    /\ cur.op = "Shutdown" => ~res
    /\ call' = [call EXCEPT ![cur.from] = Answer(res)]
    /\ confirmed' = IF res THEN Later(confirmed, call[cur.from].need) ELSE confirmed
    /\ pc' = "recv"
    /\ Ready
    /\ UNCHANGED <<channel, exists, open, meta, pending, n, file, torn, db, recorded>>

\* A shutdown that drained everything ends the task.  The commands queued
\* behind it are dropped with the channel: their barriers fail, their items
\* are gone.
ack_shutdown ==
    /\ pc = "ack"
    /\ cur.op = "Shutdown"
    /\ res
    /\ call' = [d \in Clients |->
                   IF call[d].st = "wait" THEN Answer(d = cur.from) ELSE call[d]]
    /\ confirmed' = Later(confirmed, call[cur.from].need)
    /\ pc' = "closed"
    /\ Ready
    /\ channel' = <<>>
    /\ open' = FALSE
    /\ meta' = FALSE
    /\ recorded' = Truncated
    /\ UNCHANGED <<exists, pending, n, file, torn, db>>

\* discard_thread drops the last clone of the recorder: recv returns None and
\* whatever is still buffered is dropped.
discard ==
    /\ pc = "recv"
    /\ channel = <<>>
    /\ \A c \in Clients : call[c].st = "idle"
    /\ pc' = "closed"
    /\ open' = FALSE
    /\ meta' = FALSE
    /\ pending' = <<>>
    /\ recorded' = Truncated
    /\ UNCHANGED <<channel, cur, exists, attempt, n, res, file, torn, db, call, confirmed>>

-----------------------------------------------------------------------------
(* The file and the process                                                *)

\* append_rollout_item_to_path, from update_thread_metadata: a line of its own
\* appended through another handle, while the thread is live or not.
append_rollout_item_to_path ==
    /\ SideAppends
    /\ exists
    /\ torn' \in BOOLEAN
    /\ UNCHANGED <<channel, writer, file, db, call, recorded, confirmed>>

\* The process dies; a write it was in may leave a fragment.
crash ==
    /\ pc # "down"
    /\ torn' \in IF pc \in {"meta", "items"} THEN {torn, TRUE} ELSE {torn}
    /\ pc' = "down"
    /\ Ready
    /\ channel' = <<>>
    /\ open' = FALSE
    /\ meta' = FALSE
    /\ pending' = <<>>
    /\ n' = 0
    /\ call' = [c \in Clients |-> Idle]
    /\ recorded' = Truncated
    /\ UNCHANGED <<exists, file, db, confirmed>>

\* get_rollout_history finds the SessionMeta and RolloutRecorder::new with
\* Resume opens the file for append.
resume ==
    /\ pc \in {"closed", "down"}
    /\ file # <<>>
    /\ file[1].ok
    /\ open' = TRUE
    /\ pc' = "recv"
    /\ UNCHANGED <<channel, cur, exists, meta, pending, attempt, n, res,
                   file, torn, db, call, recorded, confirmed>>

-----------------------------------------------------------------------------
WriterStep ==
    \/ recv
    \/ ensure_writer_open
    \/ open_fails
    \/ write_session_meta
    \/ write_session_meta_fails
    \/ write_rollout_item
    \/ write_rollout_item_fails
    \/ all_written
    \/ ack_add
    \/ ack_barrier
    \/ ack_shutdown

Next ==
    \/ \E i \in Items : record_items(i)
    \/ \E c \in Clients :
           \/ \E op \in Barriers : barrier(c, op)
           \/ barrier_closed(c)
           \/ barrier_returns(c)
    \/ WriterStep
    \/ discard
    \/ append_rollout_item_to_path
    \/ crash
    \/ resume

Spec == Init /\ [][Next]_vars

\* The runtime polls the writer task until it waits for a command.
FairSpec == Spec /\ WF_vars(WriterStep)

-----------------------------------------------------------------------------
(* Properties                                                              *)

\* Every variable keeps its type (RolloutWriterState, RolloutCmd, the file).
Ops == {"AddItems", "none"} \cup Barriers
Cmds == [op : Ops, from : Clients \cup {NoClient}, item : Items \cup {Meta}, upto : Nat]
TypeOK ==
    /\ channel \in Seq(Cmds)
    /\ pc \in {"recv", "open", "meta", "items", "ack", "closed", "down"}
    /\ cur \in Cmds
    /\ exists \in BOOLEAN /\ open \in BOOLEAN /\ meta \in BOOLEAN
    /\ pending \in Seq(Items)
    /\ attempt \in 1..2
    /\ n \in Nat
    /\ res \in BOOLEAN
    /\ file \in Seq([item : Items \cup {Meta}, ok : BOOLEAN])
    /\ torn \in BOOLEAN
    /\ db \in Nat
    /\ call \in [Clients -> [st : {"idle", "wait", "ok", "err"}, need : Nat]]
    /\ recorded \in Seq(Items \cup {Meta})
    /\ confirmed \in Nat

\* The lines of the file are the accepted items in the order of acceptance,
\* each exactly once: no failed write, retry, reopen, crash or resume skips,
\* repeats or swaps one (write_pending_items_once drains what it wrote).
InOrder ==
    /\ Len(file) <= Len(recorded)
    /\ \A k \in 1..Len(file) : file[k].item = recorded[k]

\* What a barrier confirmed is in the file from then on, across I/O errors,
\* crashes and resumes (persist, flush and shutdown returned Ok).
ConfirmedStored == confirmed <= Len(file)

\* The state database is never ahead of the file it is rebuilt from
\* (sync_thread_state_after_write comes after the write, for what was written).
DbBehindFile == db <= Len(file)

\* The recorder implements the log it promises (RolloutLog).
Log == INSTANCE RolloutLog WITH accepted <- recorded, stored <- Len(file)
ImplementsLog == Log!Spec

\* Every barrier is answered or dies with the process: the writer task always
\* comes to the command and retries at most once (write_pending_with_recovery).
BarrierAnswered == \A c \in Clients : call[c].st = "wait" ~> call[c].st # "wait"

\* A confirmed item can be loaded again.  The doc of flush says that it waits
\* until the queued writes "are committed by the writer task", and the doc of
\* RolloutWriterState that a failed item is kept "so the next barrier can reopen
\* the file and retry"; but the retry appends to the fragment the failed write
\* left, and load_rollout_items drops the line that results.
ConfirmedLoads == \A k \in 1..Len(file) : k <= confirmed => file[k].ok
=============================================================================
