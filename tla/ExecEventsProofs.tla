-------------------------- MODULE ExecEventsProofs --------------------------
(***************************************************************************)
(* Proofs about ExecEvents, for any streams and any amount of output: what  *)
(* a subscriber has seen is a prefix of what was published, Closed is       *)
(* published once and last, no session outlives the reader task, and the    *)
(* end of the process is never mislaid between the tasks, the wire and the  *)
(* client.                                                                  *)
(***************************************************************************)
EXTENDS ExecEvents, SequenceTheorems, TLAPS

-----------------------------------------------------------------------------
(* The inductive invariant                                                 *)

Kinds == Streams \cup {"Exited", "Closed"}

\* A process that was never started has done nothing.
NotStarted ==
    entry = "none" => /\ opened = Streams /\ ~exited /\ ~closed
                      /\ task = [x \in Tasks |-> "none"]

\* The subscriber is as far as last_published_seq.
Published == Len(delivered) = last

\* A task that still notifies holds a number that was published, and what it
\* published tells where it goes on.
HeldOK ==
    \A x \in Tasks : task[x] = "notify" => held[x] \in 1..Len(events)

\* A stream that is finished, and an exit that is recorded, publish nothing but
\* Closed.
FinishedOK ==
    /\ \A s \in Streams \ opened :
           /\ task[s] # "run"
           /\ task[s] = "notify" => events[held[s]] = "Closed"
    /\ exited => task[Exit] # "run"
    /\ task[Exit] = "notify" => events[held[Exit]] \in {"Exited", "Closed"}

\* The flags under the lock tell what was published.
FlagsOK ==
    /\ \A k \in 1..Len(events) : events[k] = "Closed" => closed
    /\ closed => exited /\ opened = {}
    /\ exited => \E j \in 1..Len(events) : events[j] = "Exited"

\* The disconnect is recorded before the sessions are failed.
RecordedFirst == reader # "run" => disconnected

Inv ==
    /\ TypeOK
    /\ NotStarted
    /\ Published
    /\ HeldOK
    /\ FinishedOK
    /\ FlagsOK
    /\ ClosedLast
    /\ DeliveredInOrder
    /\ RecordedFirst
    /\ NoDeadSession

-----------------------------------------------------------------------------
(* Publishing under the lock                                               *)

LEMMA Distinct == Exit \notin Streams /\ "Exited" \notin Streams /\ "Closed" \notin Streams
  BY ExecAssumption

\* What one task publishes leaves the others' numbers and the earlier events
\* as they are.
LEMMA PublishStep ==
    ASSUME TypeOK, NEW x \in Tasks, NEW kind \in Kinds, Publish(x, kind)
    PROVE  /\ events' \in Seq(Kinds) /\ Len(events') = Len(events) + 1
           /\ Len(events) \in Nat
           /\ \A k \in 1..Len(events) : events'[k] = events[k]
           /\ events'[Len(events) + 1] = kind
           /\ held' \in [Tasks -> Nat] /\ held'[x] = Len(events) + 1
           /\ \A y \in Tasks \ {x} : held'[y] = held[y] /\ task'[y] = task[y]
           /\ task' \in [Tasks -> {"none", "run", "notify", "close", "done"}]
           /\ task'[x] = "notify"
  <1>1. events \in Seq(Kinds) /\ Len(events) \in Nat
    BY LenProperties DEF TypeOK, Kinds
  <1>2. /\ events' \in Seq(Kinds) /\ Len(events') = Len(events) + 1
        /\ \A k \in 1..Len(events) : events'[k] = events[k]
        /\ events'[Len(events) + 1] = kind
    BY <1>1, AppendProperties DEF Publish
  <1>3. /\ held' \in [Tasks -> Nat] /\ held'[x] = Len(events) + 1
        /\ \A y \in Tasks \ {x} : held'[y] = held[y] /\ task'[y] = task[y]
        /\ task' \in [Tasks -> {"none", "run", "notify", "close", "done"}]
        /\ task'[x] = "notify"
    BY <1>1 DEF Publish, TypeOK
  <1> QED
    BY <1>1, <1>2, <1>3

\* A task that goes on without publishing.
LEMMA GotoStep ==
    ASSUME TypeOK, NEW x \in Tasks, NEW where \in {"none", "run", "notify", "close", "done"},
           Goto(x, where)
    PROVE  /\ task' \in [Tasks -> {"none", "run", "notify", "close", "done"}]
           /\ task'[x] = where
           /\ \A y \in Tasks \ {x} : task'[y] = task[y]
  BY DEF Goto, TypeOK

\* The subscriber's prefix is still one when events are published.
LEMMA PrefixKept ==
    ASSUME TypeOK, DeliveredInOrder, events' \in Seq(Kinds), Len(events') >= Len(events),
           \A k \in 1..Len(events) : events'[k] = events[k], UNCHANGED delivered
    PROVE  DeliveredInOrder'
  <1>1. Len(delivered) \in Nat /\ Len(events) \in Nat /\ Len(events') \in Nat
    BY LenProperties DEF TypeOK, Kinds
  <1> QED
    BY <1>1 DEF DeliveredInOrder

-----------------------------------------------------------------------------
(* Every step keeps the invariant                                          *)

\* A session is registered only while no disconnect is recorded.
LEMMA register_session_Inv ==
    ASSUME Inv, register_session
    PROVE  Inv'
  <1> USE DEF Inv
  <1>1. TypeOK'
    BY DEF TypeOK, Kinds, register_session, server, session
  <1>2. NotStarted'
    BY DEF NotStarted, register_session, server, session
  <1>3. Published'
    BY DEF Published, register_session, server, session
  <1>4. HeldOK'
    BY DEF HeldOK, register_session, server, session
  <1>5. FinishedOK'
    BY DEF FinishedOK, register_session, server, session
  <1>6. FlagsOK'
    BY DEF FlagsOK, register_session, server, session
  <1>7. ClosedLast'
    BY DEF ClosedLast, register_session, server, session
  <1>8. DeliveredInOrder'
    BY DEF DeliveredInOrder, register_session, server, session
  <1>9. RecordedFirst'
    BY DEF RecordedFirst, register_session, server, session
  <1>10. NoDeadSession'
    BY DEF NoDeadSession, RecordedFirst, register_session
  <1> QED
    BY <1>1, <1>2, <1>3, <1>4, <1>5, <1>6, <1>7, <1>8, <1>9, <1>10

LEMMA start_process_Inv ==
    ASSUME Inv, start_process
    PROVE  Inv'
  <1> USE DEF Inv
  <1>n. opened = Streams /\ ~exited /\ ~closed /\ \A x \in Tasks : task'[x] = "run"
    BY DEF start_process, NotStarted
  <1>1. TypeOK'
    BY <1>n DEF TypeOK, Kinds, start_process, server, session, Tasks
  <1>2. NotStarted'
    BY <1>n DEF NotStarted, start_process, server, session, Tasks
  <1>3. Published'
    BY <1>n DEF Published, start_process, server, session, Tasks
  <1>4. HeldOK'
    BY <1>n DEF HeldOK, start_process, server, session, Tasks
  <1>5. FinishedOK'
    BY <1>n DEF FinishedOK, start_process, server, session, Tasks
  <1>6. FlagsOK'
    BY <1>n DEF FlagsOK, start_process, server, session, Tasks
  <1>7. ClosedLast'
    BY <1>n DEF ClosedLast, start_process, server, session, Tasks
  <1>8. DeliveredInOrder'
    BY <1>n DEF DeliveredInOrder, start_process, server, session, Tasks
  <1>9. RecordedFirst'
    BY <1>n DEF RecordedFirst, start_process, server, session, Tasks
  <1>10. NoDeadSession'
    BY <1>n DEF NoDeadSession, start_process, server, session, Tasks
  <1> QED
    BY <1>1, <1>2, <1>3, <1>4, <1>5, <1>6, <1>7, <1>8, <1>9, <1>10

LEMMA exec_returns_Inv ==
    ASSUME Inv, exec_returns
    PROVE  Inv'
  <1> USE DEF Inv
  <1>1. TypeOK'
    BY DEF TypeOK, Kinds, exec_returns, server, session
  <1>2. NotStarted'
    BY DEF NotStarted, exec_returns, server, session
  <1>3. Published'
    BY DEF Published, exec_returns, server, session
  <1>4. HeldOK'
    BY DEF HeldOK, exec_returns, server, session
  <1>5. FinishedOK'
    BY DEF FinishedOK, exec_returns, server, session
  <1>6. FlagsOK'
    BY DEF FlagsOK, exec_returns, server, session
  <1>7. ClosedLast'
    BY DEF ClosedLast, exec_returns, server, session
  <1>8. DeliveredInOrder'
    BY DEF DeliveredInOrder, exec_returns, server, session
  <1>9. RecordedFirst'
    BY DEF RecordedFirst, exec_returns, server, session
  <1>10. NoDeadSession'
    BY DEF NoDeadSession, exec_returns, server, session
  <1> QED
    BY <1>1, <1>2, <1>3, <1>4, <1>5, <1>6, <1>7, <1>8, <1>9, <1>10

LEMMA exec_fails_Inv ==
    ASSUME Inv, exec_fails
    PROVE  Inv'
  <1> USE DEF Inv
  <1>1. TypeOK'
    BY DEF TypeOK, Kinds, exec_fails, server, session
  <1>2. NotStarted'
    BY DEF NotStarted, exec_fails, server, session
  <1>3. Published'
    BY DEF Published, exec_fails, server, session
  <1>4. HeldOK'
    BY DEF HeldOK, exec_fails, server, session
  <1>5. FinishedOK'
    BY DEF FinishedOK, exec_fails, server, session
  <1>6. FlagsOK'
    BY DEF FlagsOK, exec_fails, server, session
  <1>7. ClosedLast'
    BY DEF ClosedLast, exec_fails, server, session
  <1>8. DeliveredInOrder'
    BY DEF DeliveredInOrder, exec_fails, server, session
  <1>9. RecordedFirst'
    BY DEF RecordedFirst, exec_fails, server, session
  <1>10. NoDeadSession'
    BY DEF NoDeadSession, exec_fails, server, session
  <1> QED
    BY <1>1, <1>2, <1>3, <1>4, <1>5, <1>6, <1>7, <1>8, <1>9, <1>10

LEMMA start_dropped_Inv ==
    ASSUME Inv, start_dropped
    PROVE  Inv'
  <1> USE DEF Inv
  <1>1. TypeOK'
    BY DEF TypeOK, Kinds, start_dropped, server, session
  <1>2. NotStarted'
    BY DEF NotStarted, start_dropped, server, session
  <1>3. Published'
    BY DEF Published, start_dropped, server, session
  <1>4. HeldOK'
    BY DEF HeldOK, start_dropped, server, session
  <1>5. FinishedOK'
    BY DEF FinishedOK, start_dropped, server, session
  <1>6. FlagsOK'
    BY DEF FlagsOK, start_dropped, server, session
  <1>7. ClosedLast'
    BY DEF ClosedLast, start_dropped, server, session
  <1>8. DeliveredInOrder'
    BY DEF DeliveredInOrder, start_dropped, server, session
  <1>9. RecordedFirst'
    BY DEF RecordedFirst, start_dropped, server, session
  <1>10. NoDeadSession'
    BY DEF NoDeadSession, start_dropped, server, session
  <1> QED
    BY <1>1, <1>2, <1>3, <1>4, <1>5, <1>6, <1>7, <1>8, <1>9, <1>10

LEMMA drop_Inv ==
    ASSUME Inv, drop
    PROVE  Inv'
  <1> USE DEF Inv
  <1>1. TypeOK'
    BY DEF TypeOK, Kinds, drop, server, session
  <1>2. NotStarted'
    BY DEF NotStarted, drop, server, session
  <1>3. Published'
    BY DEF Published, drop, server, session
  <1>4. HeldOK'
    BY DEF HeldOK, drop, server, session
  <1>5. FinishedOK'
    BY DEF FinishedOK, drop, server, session
  <1>6. FlagsOK'
    BY DEF FlagsOK, drop, server, session
  <1>7. ClosedLast'
    BY DEF ClosedLast, drop, server, session
  <1>8. DeliveredInOrder'
    BY DEF DeliveredInOrder, drop, server, session
  <1>9. RecordedFirst'
    BY DEF RecordedFirst, drop, server, session
  <1>10. NoDeadSession'
    BY DEF NoDeadSession, drop, server, session
  <1> QED
    BY <1>1, <1>2, <1>3, <1>4, <1>5, <1>6, <1>7, <1>8, <1>9, <1>10

LEMMA unregister_session_Inv ==
    ASSUME Inv, unregister_session
    PROVE  Inv'
  <1> USE DEF Inv
  <1>1. TypeOK'
    BY DEF TypeOK, Kinds, unregister_session, server, session
  <1>2. NotStarted'
    BY DEF NotStarted, unregister_session, server, session
  <1>3. Published'
    BY DEF Published, unregister_session, server, session
  <1>4. HeldOK'
    BY DEF HeldOK, unregister_session, server, session
  <1>5. FinishedOK'
    BY DEF FinishedOK, unregister_session, server, session
  <1>6. FlagsOK'
    BY DEF FlagsOK, unregister_session, server, session
  <1>7. ClosedLast'
    BY DEF ClosedLast, unregister_session, server, session
  <1>8. DeliveredInOrder'
    BY DEF DeliveredInOrder, unregister_session, server, session
  <1>9. RecordedFirst'
    BY DEF RecordedFirst, unregister_session, server, session
  <1>10. NoDeadSession'
    BY DEF NoDeadSession, unregister_session, server, session
  <1> QED
    BY <1>1, <1>2, <1>3, <1>4, <1>5, <1>6, <1>7, <1>8, <1>9, <1>10

\* Output of a stream that is still open: Closed has not been published.
LEMMA stream_output_Inv ==
    ASSUME Inv, NEW s \in Streams, stream_output(s)
    PROVE  Inv'
  <1> USE DEF Inv
  <1>p. /\ events' \in Seq(Kinds) /\ Len(events') = Len(events) + 1
        /\ Len(events) \in Nat
        /\ \A k \in 1..Len(events) : events'[k] = events[k]
        /\ events'[Len(events) + 1] = s
        /\ held' \in [Tasks -> Nat] /\ held'[s] = Len(events) + 1
        /\ \A y \in Tasks \ {s} : held'[y] = held[y] /\ task'[y] = task[y]
        /\ task' \in [Tasks -> {"none", "run", "notify", "close", "done"}]
        /\ task'[s] = "notify"
    BY PublishStep DEF stream_output, Tasks, Kinds
  <1>q. s \in opened /\ ~closed /\ entry = "running" /\ s # "Closed" /\ s # Exit
    BY Distinct DEF FinishedOK, FlagsOK, stream_output
  <1>r. \A k \in 1..Len(events') : events'[k] # "Closed"
    BY <1>p, <1>q DEF FlagsOK
  <1>1. TypeOK'
    BY <1>p, <1>q DEF TypeOK, Kinds, stream_output, server, session
  <1>2. NotStarted'
    BY <1>p, <1>q DEF NotStarted, stream_output, server, session
  <1>3. Published'
    BY <1>p, <1>q DEF Published, stream_output, server, session
  <1>4. HeldOK'
    BY <1>p, <1>q DEF HeldOK, stream_output, server, session, Tasks
  <1>5. FinishedOK'
    BY <1>p, <1>q DEF FinishedOK, stream_output, server, session, Tasks, HeldOK
  <1>6. FlagsOK'
    BY <1>p, <1>q DEF FlagsOK, stream_output, server, session
  <1>7. ClosedLast'
    BY <1>r DEF ClosedLast
  <1>8. DeliveredInOrder'
    BY <1>p, PrefixKept DEF stream_output, session
  <1>9. RecordedFirst'
    BY <1>p, <1>q DEF RecordedFirst, stream_output, server, session
  <1>10. NoDeadSession'
    BY <1>p, <1>q DEF NoDeadSession, stream_output, server, session
  <1> QED
    BY <1>1, <1>2, <1>3, <1>4, <1>5, <1>6, <1>7, <1>8, <1>9, <1>10

LEMMA finish_output_stream_Inv ==
    ASSUME Inv, NEW s \in Streams, finish_output_stream(s)
    PROVE  Inv'
  <1> USE DEF Inv
  <1>p. /\ task' \in [Tasks -> {"none", "run", "notify", "close", "done"}]
        /\ task'[s] \in {"close", "done"}
        /\ \A y \in Tasks \ {s} : task'[y] = task[y]
        /\ s # Exit /\ s \in Tasks
        /\ opened' \in {opened, opened \ {s}}
        /\ entry # "none"
    BY GotoStep, Distinct DEF finish_output_stream, Tasks, NotStarted
  <1>1. TypeOK'
    BY <1>p DEF TypeOK, Kinds, finish_output_stream, server, session
  <1>2. NotStarted'
    BY <1>p DEF NotStarted, finish_output_stream, server, session
  <1>3. Published'
    BY <1>p DEF Published, finish_output_stream, server, session
  <1>4. HeldOK'
    BY <1>p DEF HeldOK, finish_output_stream, server, session, Tasks
  <1>5. FinishedOK'
    BY <1>p DEF FinishedOK, finish_output_stream, server, session, Tasks, HeldOK
  <1>6. FlagsOK'
    BY <1>p DEF FlagsOK, finish_output_stream, server, session
  <1>7. ClosedLast'
    BY <1>p DEF ClosedLast, finish_output_stream, server, session
  <1>8. DeliveredInOrder'
    BY <1>p DEF DeliveredInOrder, finish_output_stream, server, session
  <1>9. RecordedFirst'
    BY <1>p DEF RecordedFirst, finish_output_stream, server, session
  <1>10. NoDeadSession'
    BY <1>p DEF NoDeadSession, finish_output_stream, server, session
  <1> QED
    BY <1>1, <1>2, <1>3, <1>4, <1>5, <1>6, <1>7, <1>8, <1>9, <1>10

\* The exit is recorded once: the task that watches for it has not yet reported.
LEMMA watch_exit_Inv ==
    ASSUME Inv, watch_exit
    PROVE  Inv'
  <1> USE DEF Inv
  <1>e. entry # "none" /\ Exit \in Tasks /\ ~exited /\ ~closed
    BY DEF watch_exit, NotStarted, Tasks, FinishedOK, FlagsOK
  <1>1. CASE entry # "running"
    <2>1. /\ task' \in [Tasks -> {"none", "run", "notify", "close", "done"}]
          /\ task'[Exit] = "close"
          /\ \A y \in Tasks \ {Exit} : task'[y] = task[y]
      BY <1>1, <1>e, GotoStep DEF watch_exit
    <2>2. UNCHANGED <<events, held, exited, entry, opened, closed>>
      BY <1>1 DEF watch_exit
    <2>3. TypeOK'
      BY <2>1, <2>2 DEF TypeOK, watch_exit, session
    <2>4. NotStarted' /\ HeldOK'
      BY <1>e, <2>1, <2>2 DEF NotStarted, HeldOK
    <2>5. FinishedOK'
      BY <1>e, <2>1, <2>2, Distinct DEF FinishedOK, Tasks
    <2>6. FlagsOK' /\ ClosedLast'
      BY <2>2 DEF FlagsOK, ClosedLast
    <2>7. Published' /\ DeliveredInOrder' /\ RecordedFirst' /\ NoDeadSession'
      BY <2>2 DEF Published, DeliveredInOrder, RecordedFirst, NoDeadSession, watch_exit, session
    <2> QED
      BY <2>3, <2>4, <2>5, <2>6, <2>7
  <1>2. CASE entry = "running"
    <2>p. /\ events' \in Seq(Kinds) /\ Len(events') = Len(events) + 1
          /\ Len(events) \in Nat
          /\ \A k \in 1..Len(events) : events'[k] = events[k]
          /\ events'[Len(events) + 1] = "Exited"
          /\ held' \in [Tasks -> Nat] /\ held'[Exit] = Len(events) + 1
          /\ \A y \in Tasks \ {Exit} : held'[y] = held[y] /\ task'[y] = task[y]
          /\ task' \in [Tasks -> {"none", "run", "notify", "close", "done"}]
          /\ task'[Exit] = "notify"
      BY <1>2, <1>e, PublishStep DEF watch_exit, Kinds
    <2>2. UNCHANGED <<entry, opened, closed>> /\ exited' = TRUE
      BY <1>2 DEF watch_exit
    <2>3. TypeOK'
      BY <2>p, <2>2 DEF TypeOK, Kinds, watch_exit, session
    <2>4. NotStarted' /\ HeldOK'
      BY <1>e, <2>p, <2>2 DEF NotStarted, HeldOK
    <2>5. FinishedOK'
      BY <1>e, <2>p, <2>2, Distinct DEF FinishedOK, Tasks, HeldOK
    <2>a. \A k \in 1..Len(events') : events'[k] # "Closed"
      BY <1>e, <2>p DEF FlagsOK
    <2>b. \E j \in 1..Len(events') : events'[j] = "Exited"
      BY <2>p
    <2>6. FlagsOK' /\ ClosedLast'
      BY <1>e, <2>2, <2>a, <2>b DEF FlagsOK, ClosedLast
    <2>7. DeliveredInOrder'
      BY <2>p, PrefixKept DEF watch_exit, session
    <2>8. Published' /\ RecordedFirst' /\ NoDeadSession'
      BY DEF Published, RecordedFirst, NoDeadSession, watch_exit, session
    <2> QED
      BY <2>3, <2>4, <2>5, <2>6, <2>7, <2>8
  <1> QED
    BY <1>1, <1>2

\* Whoever publishes Closed finds the exit recorded and every stream finished.
LEMMA maybe_emit_closed_Inv ==
    ASSUME Inv, NEW x \in Tasks, maybe_emit_closed(x)
    PROVE  Inv'
  <1> USE DEF Inv
  <1>e. entry # "none"
    BY DEF maybe_emit_closed, NotStarted
  <1>1. CASE entry # "running" \/ closed \/ opened # {} \/ ~exited
    <2>1. /\ task' \in [Tasks -> {"none", "run", "notify", "close", "done"}]
          /\ task'[x] = "done"
          /\ \A y \in Tasks \ {x} : task'[y] = task[y]
      BY <1>1, GotoStep DEF maybe_emit_closed
    <2>2. UNCHANGED <<events, held, exited, entry, opened, closed>>
      BY <1>1 DEF maybe_emit_closed
    <2>3. TypeOK'
      BY <2>1, <2>2 DEF TypeOK, maybe_emit_closed, session
    <2>4. NotStarted' /\ HeldOK'
      BY <1>e, <2>1, <2>2 DEF NotStarted, HeldOK
    <2>5. FinishedOK'
      BY <1>e, <2>1, <2>2, Distinct DEF FinishedOK, Tasks
    <2>6. FlagsOK' /\ ClosedLast'
      BY <2>2 DEF FlagsOK, ClosedLast
    <2>7. Published' /\ DeliveredInOrder' /\ RecordedFirst' /\ NoDeadSession'
      BY <2>2 DEF Published, DeliveredInOrder, RecordedFirst, NoDeadSession, maybe_emit_closed, session
    <2> QED
      BY <2>3, <2>4, <2>5, <2>6, <2>7
  <1>2. CASE ~(entry # "running" \/ closed \/ opened # {} \/ ~exited)
    <2>p. /\ events' \in Seq(Kinds) /\ Len(events') = Len(events) + 1
          /\ Len(events) \in Nat
          /\ \A k \in 1..Len(events) : events'[k] = events[k]
          /\ events'[Len(events) + 1] = "Closed"
          /\ held' \in [Tasks -> Nat] /\ held'[x] = Len(events) + 1
          /\ \A y \in Tasks \ {x} : held'[y] = held[y] /\ task'[y] = task[y]
          /\ task' \in [Tasks -> {"none", "run", "notify", "close", "done"}]
          /\ task'[x] = "notify"
      BY <1>2, PublishStep DEF maybe_emit_closed, Kinds
    <2>2. /\ UNCHANGED <<entry, opened, exited>> /\ closed' = TRUE
          /\ exited /\ opened = {} /\ ~closed
      BY <1>2 DEF maybe_emit_closed
    <2>3. TypeOK'
      BY <2>p, <2>2 DEF TypeOK, Kinds, maybe_emit_closed, session
    <2>4. NotStarted' /\ HeldOK'
      BY <1>e, <2>p, <2>2 DEF NotStarted, HeldOK
    <2>5. FinishedOK'
      BY SMTT(30), <1>e, <2>p, <2>2, Distinct DEF FinishedOK, Tasks, HeldOK
    <2>6. FlagsOK'
      BY <2>p, <2>2 DEF FlagsOK
    <2>9. ClosedLast'
      <3>1. PICK j \in 1..Len(events) : events[j] = "Exited"
        BY <2>2 DEF FlagsOK
      <3>2. j \in 1..Len(events') /\ events'[j] = "Exited"
        BY <2>p, <3>1
      <3>3. \A k \in 1..Len(events) : events'[k] # "Closed"
        BY <2>p, <2>2 DEF FlagsOK
      <3>4. \A k \in 1..Len(events') : events'[k] = "Closed" => k = Len(events')
        BY <2>p, <3>3
      <3> QED
        BY <2>p, <3>2, <3>4 DEF ClosedLast
    <2>7. DeliveredInOrder'
      BY <2>p, PrefixKept DEF maybe_emit_closed, session
    <2>8. Published' /\ RecordedFirst' /\ NoDeadSession'
      BY DEF Published, RecordedFirst, NoDeadSession, maybe_emit_closed, session
    <2> QED
      BY <2>3, <2>4, <2>5, <2>6, <2>7, <2>8, <2>9
  <1> QED
    BY <1>1, <1>2

\* Where a task goes on after its notification is told by what it published.
LEMMA notify_Inv ==
    ASSUME Inv, NEW x \in Tasks, notify(x)
    PROVE  Inv'
  <1> USE DEF Inv
  <1>a. /\ After(x) \in {"done", "close", "run"}
        /\ events[held[x]] = "Closed" => After(x) = "done"
        /\ events[held[x]] = "Exited" => After(x) = "close"
    BY DEF After
  <1>p. /\ task' \in [Tasks -> {"none", "run", "notify", "close", "done"}]
        /\ task'[x] = After(x)
        /\ \A y \in Tasks \ {x} : task'[y] = task[y]
        /\ held' \in [Tasks -> Nat]
        /\ \A y \in Tasks \ {x} : held'[y] = held[y]
        /\ wire' \in Seq(Nat)
        /\ entry # "none"
    <2>1. wire' \in Seq(Nat)
      BY AppendProperties DEF notify, TypeOK
    <2>2. held' \in [Tasks -> Nat] /\ \A y \in Tasks \ {x} : held'[y] = held[y]
      BY DEF notify, TypeOK
    <2>3. entry # "none"
      BY DEF notify, NotStarted
    <2> QED
      BY <1>a, <2>1, <2>2, <2>3, GotoStep DEF notify
  <1>1. TypeOK'
    BY <1>a, <1>p DEF TypeOK, Kinds, notify, server, session
  <1>2. NotStarted'
    BY <1>a, <1>p DEF NotStarted, notify, server, session
  <1>3. Published'
    BY <1>a, <1>p DEF Published, notify, server, session
  <1>4. HeldOK'
    BY <1>a, <1>p DEF HeldOK, notify, server, session, Tasks
  <1>5. FinishedOK'
    BY <1>a, <1>p, Distinct DEF FinishedOK, notify, Tasks
  <1>6. FlagsOK'
    BY <1>a, <1>p DEF FlagsOK, notify, server, session
  <1>7. ClosedLast'
    BY <1>a, <1>p DEF ClosedLast, notify, server, session
  <1>8. DeliveredInOrder'
    BY <1>a, <1>p DEF DeliveredInOrder, notify, server, session
  <1>9. RecordedFirst'
    BY <1>a, <1>p DEF RecordedFirst, notify, server, session
  <1>10. NoDeadSession'
    BY <1>a, <1>p DEF NoDeadSession, notify, server, session
  <1> QED
    BY <1>1, <1>2, <1>3, <1>4, <1>5, <1>6, <1>7, <1>8, <1>9, <1>10

LEMMA remove_entry_Inv ==
    ASSUME Inv, remove_entry
    PROVE  Inv'
  <1> USE DEF Inv
  <1>1. TypeOK'
    BY DEF TypeOK, Kinds, remove_entry, server, session
  <1>2. NotStarted'
    BY DEF NotStarted, remove_entry, server, session
  <1>3. Published'
    BY DEF Published, remove_entry, server, session
  <1>4. HeldOK'
    BY DEF HeldOK, remove_entry, server, session
  <1>5. FinishedOK'
    BY DEF FinishedOK, remove_entry, server, session
  <1>6. FlagsOK'
    BY DEF FlagsOK, remove_entry, server, session
  <1>7. ClosedLast'
    BY DEF ClosedLast, remove_entry, server, session
  <1>8. DeliveredInOrder'
    BY DEF DeliveredInOrder, remove_entry, server, session
  <1>9. RecordedFirst'
    BY DEF RecordedFirst, remove_entry, server, session
  <1>10. NoDeadSession'
    BY DEF NoDeadSession, remove_entry, server, session
  <1> QED
    BY <1>1, <1>2, <1>3, <1>4, <1>5, <1>6, <1>7, <1>8, <1>9, <1>10

LEMMA disconnect_Inv ==
    ASSUME Inv, disconnect
    PROVE  Inv'
  <1> USE DEF Inv
  <1>p. wire' \in Seq(Nat)
    <2>1. PICK k \in 0..Len(wire) : wire' = Append(SubSeq(wire, 1, k), Disconnected)
      BY DEF disconnect
    <2>2. SubSeq(wire, 1, k) \in Seq(Nat)
      BY <2>1, SubSeqProperties DEF TypeOK
    <2> QED
      BY <2>1, <2>2, AppendProperties DEF Disconnected
  <1>1. TypeOK'
    BY <1>p DEF TypeOK, Kinds, disconnect, server, session
  <1>2. NotStarted'
    BY <1>p DEF NotStarted, disconnect, server, session
  <1>3. Published'
    BY <1>p DEF Published, disconnect, server, session
  <1>4. HeldOK'
    BY <1>p DEF HeldOK, disconnect, server, session, Tasks
  <1>5. FinishedOK'
    BY <1>p DEF FinishedOK, disconnect, server, session, Tasks, HeldOK
  <1>6. FlagsOK'
    BY <1>p DEF FlagsOK, disconnect, server, session
  <1>7. ClosedLast'
    BY <1>p DEF ClosedLast, disconnect, server, session
  <1>8. DeliveredInOrder'
    BY <1>p DEF DeliveredInOrder, disconnect, server, session
  <1>9. RecordedFirst'
    BY <1>p DEF RecordedFirst, disconnect, server, session
  <1>10. NoDeadSession'
    BY <1>p DEF NoDeadSession, disconnect, server, session
  <1> QED
    BY <1>1, <1>2, <1>3, <1>4, <1>5, <1>6, <1>7, <1>8, <1>9, <1>10

\* What is published next continues the prefix the subscriber has seen.
LEMMA handle_server_notification_Inv ==
    ASSUME Inv, handle_server_notification
    PROVE  Inv'
  <1> USE DEF Inv
  <1>h. wire \in Seq(Nat) /\ wire # <<>>
    BY DEF handle_server_notification, TypeOK
  <1>i. Head(wire) \in Nat /\ wire' \in Seq(Nat)
    BY <1>h, HeadTailProperties DEF handle_server_notification
  <1>d. /\ last' \in Nat /\ early' \in SUBSET Nat /\ delivered' \in Seq(Kinds)
        /\ Len(delivered') = last' /\ Len(delivered') <= Len(events)
        /\ \A k \in 1..Len(delivered') : delivered'[k] = events[k]
        /\ route' \in BOOLEAN /\ (route' => route)
    <2>0. /\ Len(events) \in Nat /\ last = Len(delivered)
          /\ events \in Seq(Kinds) /\ delivered \in Seq(Kinds) /\ early \in SUBSET Nat
          /\ last \in Nat /\ last <= Len(events)
      BY LenProperties DEF TypeOK, Published, DeliveredInOrder, Kinds
    <2>1. CASE UNCHANGED <<last, early, delivered>>
      BY <2>0, <2>1 DEF handle_server_notification, DeliveredInOrder, TypeOK
    <2>2. ASSUME route, Head(wire) > last, NEW upto \in last .. Len(events),
                 last' = upto,
                 early' = {k \in early \cup {Head(wire)} : k > upto},
                 delivered' = delivered \o SubSeq(events, last + 1, upto)
          PROVE  /\ last' \in Nat /\ early' \in SUBSET Nat /\ delivered' \in Seq(Kinds)
                 /\ Len(delivered') = last' /\ Len(delivered') <= Len(events)
                 /\ \A k \in 1..Len(delivered') : delivered'[k] = events[k]
      <3> DEFINE sub == SubSeq(events, last + 1, upto)
      <3>1. /\ sub \in Seq(Kinds) /\ Len(sub) = upto - last
            /\ \A k \in 1..(upto - last) : sub[k] = events[last + k]
        <4>1. /\ last + 1 \in 1 .. Len(events) + 1 /\ upto \in Int /\ upto <= Len(events)
              /\ upto >= last
          BY <2>0, <2>2
        <4>2. \A k \in last + 1 .. upto : k \in 1..Len(events)
          BY <2>0, <4>1
        <4> QED
          BY <2>0, <4>1, <4>2, SubSeqProperties
      <3>2. /\ delivered' \in Seq(Kinds) /\ Len(delivered') = upto
            /\ \A k \in 1..Len(delivered') :
                   delivered'[k] = IF k <= last THEN delivered[k] ELSE sub[k - last]
        <4>1. delivered' = delivered \o sub
          BY <2>2
        <4> HIDE DEF sub
        <4> QED
          BY <2>0, <3>1, <4>1, ConcatProperties
      <3> HIDE DEF sub
      <3>3. ASSUME NEW k \in 1..Len(delivered') PROVE delivered'[k] = events[k]
        <4>1. CASE k <= last
          BY <2>0, <3>2, <4>1 DEF DeliveredInOrder
        <4>2. CASE k > last
          <5>1. k - last \in 1..(upto - last) /\ last + (k - last) = k
            BY <2>0, <3>2, <4>2
          <5>2. sub[k - last] = events[k]
            BY <3>1, <5>1
          <5> QED
            BY <2>0, <3>2, <4>2, <5>2
        <4> QED
          BY <2>0, <3>2, <4>1, <4>2
      <3>4. last' \in Nat /\ Len(delivered') = last' /\ last' <= Len(events)
        BY <2>0, <2>2, <3>2
      <3>5. early' \in SUBSET Nat
        BY <1>i, <2>0, <2>2
      <3> QED
        BY <3>2, <3>3, <3>4, <3>5
    <2>3. route' \in BOOLEAN /\ (route' => route)
      BY DEF handle_server_notification, TypeOK
    <2>4. \/ UNCHANGED <<last, early, delivered>>
          \/ /\ route /\ Head(wire) > last
             /\ \E upto \in last .. Len(events) :
                    /\ last' = upto
                    /\ early' = {k \in early \cup {Head(wire)} : k > upto}
                    /\ delivered' = delivered \o SubSeq(events, last + 1, upto)
      <3>1. \/ UNCHANGED <<last, early, delivered>>
            \/ route /\ publish_ordered_event(Head(wire))
        BY DEF handle_server_notification
      <3>2. ASSUME publish_ordered_event(Head(wire)), Head(wire) > last
            PROVE  \E upto \in last .. Len(events) :
                       /\ last' = upto
                       /\ early' = {k \in early \cup {Head(wire)} : k > upto}
                       /\ delivered' = delivered \o SubSeq(events, last + 1, upto)
        <4>1. ~(Head(wire) <= last)
          BY <1>i, <2>0, <3>2
        <4> QED
          BY <3>2, <4>1 DEF publish_ordered_event
      <3>3. publish_ordered_event(Head(wire)) /\ Head(wire) <= last
                => UNCHANGED <<last, early, delivered>>
        BY DEF publish_ordered_event
      <3>4. Head(wire) <= last \/ Head(wire) > last
        BY <1>i, <2>0
      <3> QED
        BY <3>1, <3>2, <3>3, <3>4, Zenon
    <2> QED
      BY <2>1, <2>2, <2>3, <2>4
  <1>1. TypeOK'
    BY <1>i, <1>d DEF TypeOK, handle_server_notification, server, Kinds
  <1>2. NotStarted'
    BY <1>i, <1>d DEF NotStarted, handle_server_notification, server
  <1>3. Published'
    BY <1>d DEF Published
  <1>4. HeldOK'
    BY <1>i, <1>d DEF HeldOK, handle_server_notification, server, Tasks
  <1>5. FinishedOK'
    BY <1>i, <1>d DEF FinishedOK, handle_server_notification, server, Tasks, HeldOK
  <1>6. FlagsOK'
    BY <1>i, <1>d DEF FlagsOK, handle_server_notification, server
  <1>7. ClosedLast'
    BY <1>i, <1>d DEF ClosedLast, handle_server_notification, server
  <1>8. DeliveredInOrder'
    BY <1>d DEF DeliveredInOrder, handle_server_notification, server
  <1>9. RecordedFirst'
    BY <1>i, <1>d DEF RecordedFirst, handle_server_notification, server
  <1>10. NoDeadSession'
    BY <1>d DEF NoDeadSession, handle_server_notification
  <1> QED
    BY <1>1, <1>2, <1>3, <1>4, <1>5, <1>6, <1>7, <1>8, <1>9, <1>10

LEMMA reader_disconnected_Inv ==
    ASSUME Inv, reader_disconnected
    PROVE  Inv'
  <1> USE DEF Inv
  <1>i. wire' \in Seq(Nat)
    BY HeadTailProperties DEF reader_disconnected, TypeOK
  <1>1. TypeOK'
    BY <1>i DEF TypeOK, Kinds, reader_disconnected, server, session
  <1>2. NotStarted'
    BY <1>i DEF NotStarted, reader_disconnected, server, session
  <1>3. Published'
    BY <1>i DEF Published, reader_disconnected, server, session
  <1>4. HeldOK'
    BY <1>i DEF HeldOK, reader_disconnected, server, session, Tasks
  <1>5. FinishedOK'
    BY <1>i DEF FinishedOK, reader_disconnected, server, session, Tasks, HeldOK
  <1>6. FlagsOK'
    BY <1>i DEF FlagsOK, reader_disconnected, server, session
  <1>7. ClosedLast'
    BY <1>i DEF ClosedLast, reader_disconnected, server, session
  <1>8. DeliveredInOrder'
    BY <1>i DEF DeliveredInOrder, reader_disconnected, server, session
  <1>9. RecordedFirst'
    BY <1>i DEF RecordedFirst, reader_disconnected, server, session
  <1>10. NoDeadSession'
    BY <1>i DEF NoDeadSession, reader_disconnected, server, session
  <1> QED
    BY <1>1, <1>2, <1>3, <1>4, <1>5, <1>6, <1>7, <1>8, <1>9, <1>10

LEMMA reader_rejects_Inv ==
    ASSUME Inv, reader_rejects
    PROVE  Inv'
  <1> USE DEF Inv
  <1>1. TypeOK'
    BY DEF TypeOK, Kinds, reader_rejects, server, session
  <1>2. NotStarted'
    BY DEF NotStarted, reader_rejects, server, session
  <1>3. Published'
    BY DEF Published, reader_rejects, server, session
  <1>4. HeldOK'
    BY DEF HeldOK, reader_rejects, server, session, Tasks
  <1>5. FinishedOK'
    BY DEF FinishedOK, reader_rejects, server, session, Tasks, HeldOK
  <1>6. FlagsOK'
    BY DEF FlagsOK, reader_rejects, server, session
  <1>7. ClosedLast'
    BY DEF ClosedLast, reader_rejects, server, session
  <1>8. DeliveredInOrder'
    BY DEF DeliveredInOrder, reader_rejects, server, session
  <1>9. RecordedFirst'
    BY DEF RecordedFirst, reader_rejects, server, session
  <1>10. NoDeadSession'
    BY DEF NoDeadSession, reader_rejects, server, session
  <1> QED
    BY <1>1, <1>2, <1>3, <1>4, <1>5, <1>6, <1>7, <1>8, <1>9, <1>10

LEMMA fail_all_sessions_Inv ==
    ASSUME Inv, fail_all_sessions
    PROVE  Inv'
  <1> USE DEF Inv
  <1>1. TypeOK'
    BY DEF TypeOK, Kinds, fail_all_sessions, set_failure, server, session
  <1>2. NotStarted'
    BY DEF NotStarted, fail_all_sessions, set_failure, server, session
  <1>3. Published'
    BY DEF Published, fail_all_sessions, set_failure, server, session
  <1>4. HeldOK'
    BY DEF HeldOK, fail_all_sessions, set_failure, server, session
  <1>5. FinishedOK'
    BY DEF FinishedOK, fail_all_sessions, set_failure, server, session
  <1>6. FlagsOK'
    BY DEF FlagsOK, fail_all_sessions, set_failure, server, session
  <1>7. ClosedLast'
    BY DEF ClosedLast, fail_all_sessions, set_failure, server, session
  <1>8. DeliveredInOrder'
    BY DEF DeliveredInOrder, fail_all_sessions, set_failure, server, session
  <1>9. RecordedFirst'
    BY DEF RecordedFirst, fail_all_sessions, set_failure, server, session
  <1>10. NoDeadSession'
    BY DEF NoDeadSession, fail_all_sessions, set_failure, server, session
  <1> QED
    BY <1>1, <1>2, <1>3, <1>4, <1>5, <1>6, <1>7, <1>8, <1>9, <1>10

LEMMA read_fails_Inv ==
    ASSUME Inv, read_fails
    PROVE  Inv'
  <1> USE DEF Inv
  <1>1. TypeOK'
    BY DEF TypeOK, Kinds, read_fails, set_failure, server
  <1>2. NotStarted'
    BY DEF NotStarted, read_fails, set_failure, server
  <1>3. Published'
    BY DEF Published, read_fails, set_failure, server
  <1>4. HeldOK'
    BY DEF HeldOK, read_fails, set_failure, server
  <1>5. FinishedOK'
    BY DEF FinishedOK, read_fails, set_failure, server
  <1>6. FlagsOK'
    BY DEF FlagsOK, read_fails, set_failure, server
  <1>7. ClosedLast'
    BY DEF ClosedLast, read_fails, set_failure, server
  <1>8. DeliveredInOrder'
    BY DEF DeliveredInOrder, read_fails, set_failure, server
  <1>9. RecordedFirst'
    BY DEF RecordedFirst, read_fails, set_failure, server
  <1>10. NoDeadSession'
    BY DEF NoDeadSession, read_fails, set_failure, server
  <1> QED
    BY <1>1, <1>2, <1>3, <1>4, <1>5, <1>6, <1>7, <1>8, <1>9, <1>10

-----------------------------------------------------------------------------
(* The specification                                                       *)

LEMMA InitInv == Init => Inv
  <1> SUFFICES ASSUME Init PROVE Inv
    OBVIOUS
  <1>1. /\ events \in Seq(Kinds) /\ Len(events) = 0
        /\ wire \in Seq(Nat) /\ delivered \in Seq(Kinds) /\ Len(delivered) = 0
    BY EmptySeq DEF Init
  <1>2. TypeOK
    BY <1>1 DEF Init, TypeOK, Kinds
  <1>3. NotStarted /\ Published /\ HeldOK
    BY <1>1 DEF Init, NotStarted, Published, HeldOK
  <1>4. FinishedOK
    BY DEF Init, FinishedOK, Tasks
  <1>5. FlagsOK /\ ClosedLast /\ DeliveredInOrder /\ RecordedFirst /\ NoDeadSession
    BY <1>1 DEF Init, FlagsOK, ClosedLast, DeliveredInOrder, RecordedFirst, NoDeadSession
  <1> QED
    BY <1>2, <1>3, <1>4, <1>5 DEF Inv

LEMMA StutterInv == Inv /\ UNCHANGED vars => Inv'
  BY DEF Inv, vars, TypeOK, NotStarted, Published, HeldOK, FinishedOK, FlagsOK, ClosedLast,
     DeliveredInOrder, RecordedFirst, NoDeadSession

LEMMA NextInv == Inv /\ [Next]_vars => Inv'
  BY StutterInv, register_session_Inv, start_process_Inv, exec_returns_Inv, exec_fails_Inv,
     start_dropped_Inv, drop_Inv, unregister_session_Inv, stream_output_Inv, finish_output_stream_Inv, watch_exit_Inv,
     maybe_emit_closed_Inv, notify_Inv, remove_entry_Inv, disconnect_Inv,
     handle_server_notification_Inv, reader_disconnected_Inv, reader_rejects_Inv,
     fail_all_sessions_Inv, read_fails_Inv
     DEF Next, ServerStep, ReaderStep

THEOREM InvHolds == Spec => []Inv
  BY InitInv, NextInv, PTL DEF Spec

\* Every variable of server, connection and client keeps its type.
THEOREM TypeOKHolds == Spec => []TypeOK
  <1>1. Inv => TypeOK
    BY DEF Inv
  <1> QED
    BY <1>1, InvHolds, PTL

\* A subscriber sees a prefix of the events, for any number of streams, any
\* amount of output, any reordering of notifications and any loss of the link.
THEOREM DeliveredInOrderHolds == Spec => []DeliveredInOrder
  <1>1. Inv => DeliveredInOrder
    BY DEF Inv
  <1> QED
    BY <1>1, InvHolds, PTL

\* Closed is published once, after the exit and after all output.
THEOREM ClosedLastHolds == Spec => []ClosedLast
  <1>1. Inv => ClosedLast
    BY DEF Inv
  <1> QED
    BY <1>1, InvHolds, PTL

\* No session is left in the map when the reader task has ended.
THEOREM NoDeadSessionHolds == Spec => []NoDeadSession
  <1>1. Inv => NoDeadSession
    BY DEF Inv
  <1> QED
    BY <1>1, InvHolds, PTL
-----------------------------------------------------------------------------
(* What becomes of the end of the process                                  *)

\* Nothing is published before the process is started, and nobody starts it
\* before the session is registered.
NothingYet ==
    /\ entry = "none" => events = <<>>
    /\ client = "new" => entry = "none"

\* A reader that still runs finds Disconnected on the wire exactly when the link
\* is lost, and while it runs only a lost link has made it record a disconnect.
LossAnnounced ==
    /\ link = "up" => \A j \in 1..Len(wire) : wire[j] # Disconnected
    /\ link = "lost" /\ reader = "run" => \E j \in 1..Len(wire) : wire[j] = Disconnected
    /\ disconnected /\ reader = "run" => link = "lost"

SeenClosed == \E k \in 1..last : events[k] = "Closed"

\* A session leaves the map behind its caller only with the end published.
RoutedOrEnded == client \in {"registered", "held"} => route \/ failure \/ SeenClosed

\* Where an event is that the server published: with the task that has to send
\* it, on the wire, with the client ahead of its turn, or published to the
\* subscribers.
Underway(k) ==
    \/ \E x \in Tasks : task[x] = "notify" /\ held[x] = k
    \/ \E j \in 1..Len(wire) : wire[j] = k
    \/ k \in early
    \/ k <= last

NothingMislaid == link = "up" /\ route => \A k \in 1..Len(events) : Underway(k)

\* The client never waits for an event it already has.
NextIsMissing == last + 1 \notin early

\* While the end is not published, some task has still to look for it.
ClosedOwed ==
    link = "up" /\ exited /\ opened = {} /\ ~closed =>
        \E x \in Tasks :
            \/ task[x] = "close"
            \/ task[x] = "notify" /\ events[held[x]] = "Exited"

\* The closed flag is set with the event; the entry outlives it.
ClosedFlag ==
    /\ closed => \E k \in 1..Len(events) : events[k] = "Closed"
    /\ link = "up" /\ entry = "removed" => closed

EndInv ==
    /\ NothingYet
    /\ LossAnnounced
    /\ RoutedOrEnded
    /\ NothingMislaid
    /\ NextIsMissing
    /\ ClosedOwed
    /\ ClosedFlag

\* The numbers, and what Append does to the wire.
LEMMA Counted ==
    ASSUME TypeOK
    PROVE  /\ events \in Seq(Kinds) /\ Len(events) \in Nat
           /\ wire \in Seq(Nat) /\ Len(wire) \in Nat
           /\ last \in Nat /\ early \in SUBSET Nat
  BY LenProperties DEF TypeOK, Kinds

\* A session is registered before anything is published.
LEMMA register_session_EndInv ==
    ASSUME Inv, EndInv, register_session
    PROVE  EndInv'
  <1> USE DEF Inv, EndInv
  <1>1. NothingYet'
    BY DEF NothingYet, register_session, server, session
  <1>2. LossAnnounced'
    BY DEF LossAnnounced, register_session, server, session
  <1>3. RoutedOrEnded'
    BY DEF RoutedOrEnded, SeenClosed, register_session, server, session
  <1>4. NothingMislaid'
    <2>1. events = <<>> /\ events' = events
      BY DEF NothingYet, register_session, server
    <2>2. Len(events') = 0
      BY <2>1, EmptySeq
    <2> QED
      BY <2>2 DEF NothingMislaid
  <1>5. NextIsMissing'
    BY DEF NextIsMissing, register_session, server, session
  <1>6. ClosedOwed'
    BY DEF ClosedOwed, register_session, server, session
  <1>7. ClosedFlag'
    BY DEF ClosedFlag, register_session, server, session
  <1> QED
    BY <1>1, <1>2, <1>3, <1>4, <1>5, <1>6, <1>7

LEMMA start_process_EndInv ==
    ASSUME Inv, EndInv, start_process
    PROVE  EndInv'
  <1> USE DEF Inv, EndInv
  <1>1. NothingYet'
    BY DEF NothingYet, start_process, server, session
  <1>2. LossAnnounced'
    BY DEF LossAnnounced, start_process, server, session
  <1>3. RoutedOrEnded'
    BY DEF RoutedOrEnded, SeenClosed, start_process, server, session
  <1>4. NothingMislaid'
    <2>1. events = <<>> /\ events' = events
      BY DEF NothingYet, start_process
    <2>2. Len(events') = 0
      BY <2>1, EmptySeq
    <2> QED
      BY <2>2 DEF NothingMislaid
  <1>5. NextIsMissing'
    BY DEF NextIsMissing, start_process, server, session
  <1>6. ClosedOwed'
    BY DEF ClosedOwed, NotStarted, start_process
  <1>7. ClosedFlag'
    BY DEF ClosedFlag, start_process, server, session
  <1> QED
    BY <1>1, <1>2, <1>3, <1>4, <1>5, <1>6, <1>7

LEMMA exec_returns_EndInv ==
    ASSUME Inv, EndInv, exec_returns
    PROVE  EndInv'
  <1> USE DEF Inv, EndInv
  <1>1. NothingYet'
    BY DEF NothingYet, exec_returns, server, session
  <1>2. LossAnnounced'
    BY DEF LossAnnounced, exec_returns, server, session
  <1>3. RoutedOrEnded'
    BY DEF RoutedOrEnded, SeenClosed, exec_returns, server, session
  <1>4. NothingMislaid'
    BY DEF NothingMislaid, Underway, exec_returns, server, session
  <1>5. NextIsMissing'
    BY DEF NextIsMissing, exec_returns, server, session
  <1>6. ClosedOwed'
    BY DEF ClosedOwed, exec_returns, server, session
  <1>7. ClosedFlag'
    BY DEF ClosedFlag, exec_returns, server, session
  <1> QED
    BY <1>1, <1>2, <1>3, <1>4, <1>5, <1>6, <1>7

LEMMA exec_fails_EndInv ==
    ASSUME Inv, EndInv, exec_fails
    PROVE  EndInv'
  <1> USE DEF Inv, EndInv
  <1>1. NothingYet'
    BY DEF NothingYet, exec_fails, server, session
  <1>2. LossAnnounced'
    BY DEF LossAnnounced, exec_fails, server, session
  <1>3. RoutedOrEnded'
    BY DEF RoutedOrEnded, SeenClosed, exec_fails, server, session
  <1>4. NothingMislaid'
    BY DEF NothingMislaid, Underway, exec_fails, server, session
  <1>5. NextIsMissing'
    BY DEF NextIsMissing, exec_fails, server, session
  <1>6. ClosedOwed'
    BY DEF ClosedOwed, exec_fails, server, session
  <1>7. ClosedFlag'
    BY DEF ClosedFlag, exec_fails, server, session
  <1> QED
    BY <1>1, <1>2, <1>3, <1>4, <1>5, <1>6, <1>7

LEMMA start_dropped_EndInv ==
    ASSUME Inv, EndInv, start_dropped
    PROVE  EndInv'
  <1> USE DEF Inv, EndInv
  <1>1. NothingYet'
    BY DEF NothingYet, start_dropped, server, session
  <1>2. LossAnnounced'
    BY DEF LossAnnounced, start_dropped, server, session
  <1>3. RoutedOrEnded'
    BY DEF RoutedOrEnded, SeenClosed, start_dropped, server, session
  <1>4. NothingMislaid'
    BY DEF NothingMislaid, Underway, start_dropped, server, session
  <1>5. NextIsMissing'
    BY DEF NextIsMissing, start_dropped, server, session
  <1>6. ClosedOwed'
    BY DEF ClosedOwed, start_dropped, server, session
  <1>7. ClosedFlag'
    BY DEF ClosedFlag, start_dropped, server, session
  <1> QED
    BY <1>1, <1>2, <1>3, <1>4, <1>5, <1>6, <1>7

LEMMA drop_EndInv ==
    ASSUME Inv, EndInv, drop
    PROVE  EndInv'
  <1> USE DEF Inv, EndInv
  <1>1. NothingYet'
    BY DEF NothingYet, drop, server, session
  <1>2. LossAnnounced'
    BY DEF LossAnnounced, drop, server, session
  <1>3. RoutedOrEnded'
    BY DEF RoutedOrEnded, SeenClosed, drop, server, session
  <1>4. NothingMislaid'
    BY DEF NothingMislaid, Underway, drop, server, session
  <1>5. NextIsMissing'
    BY DEF NextIsMissing, drop, server, session
  <1>6. ClosedOwed'
    BY DEF ClosedOwed, drop, server, session
  <1>7. ClosedFlag'
    BY DEF ClosedFlag, drop, server, session
  <1> QED
    BY <1>1, <1>2, <1>3, <1>4, <1>5, <1>6, <1>7

LEMMA unregister_session_EndInv ==
    ASSUME Inv, EndInv, unregister_session
    PROVE  EndInv'
  <1> USE DEF Inv, EndInv
  <1>1. NothingYet'
    BY DEF NothingYet, unregister_session, server, session
  <1>2. LossAnnounced'
    BY DEF LossAnnounced, unregister_session, server, session
  <1>3. RoutedOrEnded'
    BY DEF RoutedOrEnded, SeenClosed, unregister_session, server, session
  <1>4. NothingMislaid'
    BY DEF NothingMislaid, Underway, unregister_session, server, session
  <1>5. NextIsMissing'
    BY DEF NextIsMissing, unregister_session, server, session
  <1>6. ClosedOwed'
    BY DEF ClosedOwed, unregister_session, server, session
  <1>7. ClosedFlag'
    BY DEF ClosedFlag, unregister_session, server, session
  <1> QED
    BY <1>1, <1>2, <1>3, <1>4, <1>5, <1>6, <1>7

\* What one task publishes under the lock: the new event is with the task, the
\* others are where they were.
LEMMA PublishEndInv ==
    ASSUME Inv, EndInv, NEW x \in Tasks, NEW kind \in Kinds, Publish(x, kind),
           task[x] # "notify", entry = "running",
           UNCHANGED <<entry, link, wire, client, route, disconnected, reader, session>>
    PROVE  /\ NothingYet' /\ LossAnnounced' /\ RoutedOrEnded' /\ NothingMislaid' /\ NextIsMissing'
  <1> USE DEF Inv, EndInv
  <1>c. /\ events \in Seq(Kinds) /\ Len(events) \in Nat
        /\ wire \in Seq(Nat) /\ Len(wire) \in Nat
        /\ last \in Nat /\ early \in SUBSET Nat
    BY Counted
  <1>p. /\ Len(events') = Len(events) + 1
        /\ \A k \in 1..Len(events) : events'[k] = events[k]
        /\ held'[x] = Len(events) + 1 /\ task'[x] = "notify"
        /\ \A y \in Tasks \ {x} : held'[y] = held[y] /\ task'[y] = task[y]
    BY PublishStep
  <1>1. NothingYet' /\ LossAnnounced' /\ NextIsMissing'
    BY DEF NothingYet, LossAnnounced, NextIsMissing, session
  <1>2. RoutedOrEnded'
    <2>1. last <= Len(events)
      BY <1>c DEF Published, DeliveredInOrder
    <2>2. \A k \in 1..last : events'[k] = events[k]
      BY <1>c, <1>p, <2>1
    <2> QED
      BY <2>2 DEF RoutedOrEnded, SeenClosed, session
  <1>3. NothingMislaid'
    <2> SUFFICES ASSUME link = "up", route, NEW k \in 1..Len(events')
                 PROVE  Underway(k)'
      BY DEF NothingMislaid
    <2>1. CASE k \in 1..Len(events)
      <3>1. Underway(k)
        BY <2>1 DEF NothingMislaid
      <3>2. ASSUME NEW y \in Tasks, task[y] = "notify", held[y] = k
            PROVE  task'[y] = "notify" /\ held'[y] = k
        BY <1>p, <3>2
      <3> QED
        BY <3>1, <3>2 DEF Underway, session
    <2>2. CASE k = Len(events) + 1
      BY <1>p, <2>2 DEF Underway
    <2> QED
      BY <1>c, <1>p, <2>1, <2>2
  <1> QED
    BY <1>1, <1>2, <1>3

\* A task that goes on without having notified anything.
LEMMA GotoEndInv ==
    ASSUME Inv, EndInv, NEW x \in Tasks, NEW where \in {"none", "run", "notify", "close", "done"},
           Goto(x, where), task[x] # "notify", entry # "none",
           UNCHANGED <<events, held, entry, link, wire, client, route, disconnected, reader, session>>
    PROVE  /\ NothingYet' /\ LossAnnounced' /\ RoutedOrEnded' /\ NothingMislaid' /\ NextIsMissing'
  <1> USE DEF Inv, EndInv
  <1>p. \A y \in Tasks \ {x} : task'[y] = task[y]
    BY GotoStep
  <1>1. NothingYet' /\ LossAnnounced' /\ NextIsMissing'
    BY DEF NothingYet, LossAnnounced, NextIsMissing, session
  <1>2. RoutedOrEnded'
    BY DEF RoutedOrEnded, SeenClosed, session
  <1>3. NothingMislaid'
    <2> SUFFICES ASSUME link = "up", route, NEW k \in 1..Len(events)
                 PROVE  Underway(k)'
      BY DEF NothingMislaid
    <2>1. Underway(k)
      BY DEF NothingMislaid
    <2>2. ASSUME NEW y \in Tasks, task[y] = "notify"
          PROVE  task'[y] = "notify"
      BY <1>p, <2>2
    <2> QED
      BY <2>1, <2>2 DEF Underway, session
  <1> QED
    BY <1>1, <1>2, <1>3

LEMMA stream_output_EndInv ==
    ASSUME Inv, EndInv, NEW s \in Streams, stream_output(s)
    PROVE  EndInv'
  <1> USE DEF Inv, EndInv
  <1>1. s \in Tasks /\ s \in Kinds /\ s \in opened /\ ~closed
    BY DEF Tasks, Kinds, FinishedOK, FlagsOK, stream_output
  <1>2. NothingYet' /\ LossAnnounced' /\ RoutedOrEnded' /\ NothingMislaid' /\ NextIsMissing'
    BY <1>1, PublishEndInv DEF stream_output
  <1>3. ClosedOwed' /\ ClosedFlag'
    BY <1>1 DEF ClosedOwed, ClosedFlag, stream_output
  <1> QED
    BY <1>2, <1>3

\* The task that ends the last stream looks for Closed next.
LEMMA finish_output_stream_EndInv ==
    ASSUME Inv, EndInv, NEW s \in Streams, finish_output_stream(s)
    PROVE  EndInv'
  <1> USE DEF Inv, EndInv
  <1>1. s \in Tasks /\ s # Exit /\ entry # "none"
    BY Distinct DEF Tasks, NotStarted, finish_output_stream
  <1>2. NothingYet' /\ LossAnnounced' /\ RoutedOrEnded' /\ NothingMislaid' /\ NextIsMissing'
    <2>1. Goto(s, "close") \/ Goto(s, "done")
      BY DEF finish_output_stream
    <2> QED
      BY <1>1, <2>1, GotoEndInv DEF finish_output_stream
  <1>3. ClosedFlag'
    BY DEF ClosedFlag, finish_output_stream
  <1>4. ClosedOwed'
    <2>1. CASE entry = "running"
      <3>1. task'[s] = "close"
        BY <1>1, <2>1, GotoStep DEF finish_output_stream
      <3> QED
        BY <1>1, <3>1 DEF ClosedOwed
    <2>2. CASE entry # "running"
      BY <1>1, <2>2 DEF ClosedOwed, ClosedFlag, TypeOK, finish_output_stream
    <2> QED
      BY <2>1, <2>2
  <1> QED
    BY <1>2, <1>3, <1>4

\* The task that records the exit looks for Closed when it has notified it.
LEMMA watch_exit_EndInv ==
    ASSUME Inv, EndInv, watch_exit
    PROVE  EndInv'
  <1> USE DEF Inv, EndInv
  <1>1. Exit \in Tasks /\ entry # "none" /\ ~exited /\ ~closed
    BY DEF Tasks, NotStarted, FinishedOK, FlagsOK, watch_exit
  <1>2. CASE entry # "running"
    <2>1. NothingYet' /\ LossAnnounced' /\ RoutedOrEnded' /\ NothingMislaid' /\ NextIsMissing'
      BY <1>1, <1>2, GotoEndInv DEF watch_exit
    <2>2. ClosedFlag' /\ ClosedOwed'
      BY <1>1, <1>2 DEF ClosedFlag, ClosedOwed, watch_exit
    <2> QED
      BY <2>1, <2>2
  <1>3. CASE entry = "running"
    <2>1. Publish(Exit, "Exited") /\ "Exited" \in Kinds
      BY <1>3 DEF watch_exit, Kinds
    <2>2. NothingYet' /\ LossAnnounced' /\ RoutedOrEnded' /\ NothingMislaid' /\ NextIsMissing'
      BY <1>1, <1>3, <2>1, PublishEndInv DEF watch_exit
    <2>3. ClosedFlag'
      BY <1>1, <1>3 DEF ClosedFlag, watch_exit
    <2>4. task'[Exit] = "notify" /\ events'[held'[Exit]] = "Exited"
      BY <1>1, <2>1, PublishStep
    <2>5. ClosedOwed'
      BY <1>1, <2>4 DEF ClosedOwed
    <2> QED
      BY <2>2, <2>3, <2>5
  <1> QED
    BY <1>2, <1>3

\* A task that looks for Closed and does not emit it finds a stream open, the
\* exit unknown, or Closed emitted.
LEMMA maybe_emit_closed_EndInv ==
    ASSUME Inv, EndInv, NEW x \in Tasks, maybe_emit_closed(x)
    PROVE  EndInv'
  <1> USE DEF Inv, EndInv
  <1>1. entry # "none"
    BY DEF NotStarted, maybe_emit_closed
  <1>2. CASE entry # "running" \/ closed \/ opened # {} \/ ~exited
    <2>1. NothingYet' /\ LossAnnounced' /\ RoutedOrEnded' /\ NothingMislaid' /\ NextIsMissing'
      BY <1>1, <1>2, GotoEndInv DEF maybe_emit_closed
    <2>2. UNCHANGED <<events, held, closed, entry, opened, exited, link>>
      BY <1>2 DEF maybe_emit_closed
    <2>3. ClosedFlag'
      BY <2>2 DEF ClosedFlag
    <2>4. ClosedOwed'
      BY <1>1, <1>2, <2>2 DEF ClosedOwed, ClosedFlag, TypeOK
    <2> QED
      BY <2>1, <2>3, <2>4
  <1>3. CASE ~(entry # "running" \/ closed \/ opened # {} \/ ~exited)
    <2>1. Publish(x, "Closed") /\ "Closed" \in Kinds /\ closed'
      BY <1>3 DEF maybe_emit_closed, Kinds
    <2>2. NothingYet' /\ LossAnnounced' /\ RoutedOrEnded' /\ NothingMislaid' /\ NextIsMissing'
      BY <1>3, <2>1, PublishEndInv DEF maybe_emit_closed
    <2>3. Len(events) \in Nat /\ Len(events') = Len(events) + 1 /\ events'[Len(events) + 1] = "Closed"
      BY <2>1, PublishStep
    <2>4. \E k \in 1..Len(events') : events'[k] = "Closed"
      BY <2>3
    <2>5. ClosedFlag' /\ ClosedOwed'
      BY <2>1, <2>4 DEF ClosedFlag, ClosedOwed
    <2> QED
      BY <2>2, <2>5
  <1> QED
    BY <1>2, <1>3

\* A notification is on the wire when its task lets go of it; the task that
\* notified the exit looks for Closed next.
LEMMA notify_EndInv ==
    ASSUME Inv, EndInv, NEW x \in Tasks, notify(x)
    PROVE  EndInv'
  <1> USE DEF Inv, EndInv
  <1>c. /\ wire \in Seq(Nat) /\ Len(wire) \in Nat /\ held[x] \in 1..Len(events)
        /\ task[x] = "notify" /\ Len(events) \in Nat
    BY Counted DEF HeldOK, notify
  <1>w. CASE link = "up"
    <2>w. /\ wire' = Append(wire, held[x])
          /\ Len(wire') = Len(wire) + 1
          /\ \A j \in 1..Len(wire) : wire'[j] = wire[j]
          /\ wire'[Len(wire) + 1] = held[x]
      <3>1. wire' = Append(wire, held[x]) /\ held[x] \in Nat
        BY <1>c, <1>w DEF notify
      <3> QED
        BY <1>c, <3>1, AppendProperties
    <2>t. \A y \in Tasks \ {x} : held'[y] = held[y] /\ task'[y] = task[y]
      BY DEF notify, Goto, TypeOK
    <2>1. NothingYet' /\ RoutedOrEnded' /\ NextIsMissing' /\ ClosedFlag'
      BY DEF NothingYet, RoutedOrEnded, SeenClosed, NextIsMissing, ClosedFlag, notify, session
    <2>2. LossAnnounced'
      <3>1. \A j \in 1..Len(wire') : wire'[j] # Disconnected
        BY <1>c, <1>w, <2>w DEF LossAnnounced, Disconnected
      <3> QED
        BY <1>w, <3>1 DEF LossAnnounced, notify
    <2>3. NothingMislaid'
      <3> SUFFICES ASSUME route, NEW k \in 1..Len(events)
                   PROVE  Underway(k)'
        BY <1>w DEF NothingMislaid, notify
      <3>1. Underway(k)
        BY <1>w DEF NothingMislaid
      <3>2. CASE held[x] = k
        BY <1>c, <2>w, <3>2 DEF Underway
      <3>3. CASE held[x] # k
        <4>1. ASSUME NEW y \in Tasks, task[y] = "notify", held[y] = k
              PROVE  task'[y] = "notify" /\ held'[y] = k
          BY <2>t, <3>3, <4>1
        <4>2. ASSUME NEW j \in 1..Len(wire), wire[j] = k
              PROVE  j \in 1..Len(wire') /\ wire'[j] = k
          BY <1>c, <2>w, <4>2
        <4> QED
          BY <3>1, <4>1, <4>2 DEF Underway, notify, session
      <3> QED
        BY <3>2, <3>3
    <2>4. ClosedOwed'
      <3> SUFFICES ASSUME exited, opened = {}, ~closed
                   PROVE  \E y \in Tasks : \/ task'[y] = "close"
                                           \/ task'[y] = "notify" /\ events'[held'[y]] = "Exited"
        BY DEF ClosedOwed, notify
      <3>1. PICK y \in Tasks : \/ task[y] = "close"
                               \/ task[y] = "notify" /\ events[held[y]] = "Exited"
        BY <1>w DEF ClosedOwed
      <3>2. CASE y = x
        <4>1. After(x) = "close"
          BY <1>c, <3>1, <3>2 DEF After
        <4>2. task'[x] = "close"
          BY <4>1 DEF notify, Goto, TypeOK
        <4> QED
          BY <4>2
      <3>3. CASE y # x
        <4>1. events' = events
          BY DEF notify
        <4> QED
          BY <2>t, <3>1, <3>3, <4>1
      <3> QED
        BY <3>2, <3>3
    <2> QED
      BY <2>1, <2>2, <2>3, <2>4
  <1>l. CASE link # "up"
    <2>1. link' = link /\ wire' = wire
      BY <1>l DEF notify
    <2>2. NothingYet' /\ RoutedOrEnded' /\ NextIsMissing' /\ ClosedFlag'
      BY DEF NothingYet, RoutedOrEnded, SeenClosed, NextIsMissing, ClosedFlag, notify, session
    <2>3. LossAnnounced'
      BY <2>1 DEF LossAnnounced, notify
    <2>4. NothingMislaid' /\ ClosedOwed'
      BY <1>l, <2>1 DEF NothingMislaid, ClosedOwed
    <2> QED
      BY <2>2, <2>3, <2>4
  <1> QED
    BY <1>w, <1>l

LEMMA remove_entry_EndInv ==
    ASSUME Inv, EndInv, remove_entry
    PROVE  EndInv'
  <1> USE DEF Inv, EndInv
  <1>1. NothingYet'
    BY DEF NothingYet, remove_entry, server, session
  <1>2. LossAnnounced'
    BY DEF LossAnnounced, remove_entry, server, session
  <1>3. RoutedOrEnded'
    BY DEF RoutedOrEnded, SeenClosed, remove_entry, server, session
  <1>4. NothingMislaid'
    BY DEF NothingMislaid, Underway, remove_entry, server, session
  <1>5. NextIsMissing'
    BY DEF NextIsMissing, remove_entry, server, session
  <1>6. ClosedOwed'
    BY DEF ClosedOwed, remove_entry, server, session
  <1>7. ClosedFlag'
    BY DEF ClosedFlag, remove_entry, server, session
  <1> QED
    BY <1>1, <1>2, <1>3, <1>4, <1>5, <1>6, <1>7

\* What is lost with the connection is followed by Disconnected.
LEMMA disconnect_EndInv ==
    ASSUME Inv, EndInv, disconnect
    PROVE  EndInv'
  <1> USE DEF Inv, EndInv
  <1>1. link' = "lost"
    BY DEF disconnect
  <1>2. NothingYet' /\ RoutedOrEnded' /\ NextIsMissing' /\ ClosedFlag'
    BY <1>1 DEF NothingYet, RoutedOrEnded, SeenClosed, NextIsMissing, ClosedFlag, disconnect,
       server, session
  <1>3. NothingMislaid' /\ ClosedOwed'
    BY <1>1 DEF NothingMislaid, ClosedOwed
  <1>4. \E j \in 1..Len(wire') : wire'[j] = Disconnected
    <2>1. PICK k \in 0..Len(wire) : wire' = Append(SubSeq(wire, 1, k), Disconnected)
      BY DEF disconnect
    <2> DEFINE received == SubSeq(wire, 1, k)
    <2>2. received \in Seq(Nat)
      BY SubSeqProperties DEF TypeOK
    <2>3. wire' = Append(received, Disconnected) /\ Disconnected \in Nat
      BY <2>1 DEF Disconnected
    <2> HIDE DEF received
    <2>4. Len(received) \in Nat
      BY <2>2, LenProperties
    <2>5. Len(wire') = Len(received) + 1 /\ wire'[Len(received) + 1] = Disconnected
      BY <2>2, <2>3, AppendProperties
    <2> QED
      BY <2>4, <2>5
  <1>5. LossAnnounced'
    BY <1>1, <1>4 DEF LossAnnounced
  <1> QED
    BY <1>2, <1>3, <1>5

\* What the reader has taken from the wire.
LEMMA TailOfWire ==
    ASSUME TypeOK, wire # <<>>, wire' = Tail(wire)
    PROVE  /\ Len(wire) \in Nat \ {0} /\ Head(wire) = wire[1]
           /\ Len(wire') = Len(wire) - 1
           /\ \A j \in 1..Len(wire') : wire'[j] = wire[j + 1]
  <1>1. wire \in Seq(Nat) /\ Len(wire) \in Nat
    BY Counted
  <1>2. Len(wire) # 0
    BY <1>1, EmptySeq
  <1> QED
    BY <1>1, <1>2, HeadTailProperties

\* The reader leaves every other message on the wire.
LEMMA LeftOnWire ==
    ASSUME TypeOK, wire # <<>>, wire' = Tail(wire),
           NEW k, NEW j \in 1..Len(wire), wire[j] = k, Head(wire) # k
    PROVE  \E i \in 1..Len(wire') : wire'[i] = k
  <1>1. j # 1
    BY TailOfWire
  <1>2. j - 1 \in 1..Len(wire') /\ (j - 1) + 1 = j
    BY <1>1, TailOfWire
  <1> QED
    BY <1>2, TailOfWire

\* An event that was received is published, or waits for one that is missing; a
\* session leaves the map with Closed.
LEMMA handle_server_notification_EndInv ==
    ASSUME Inv, EndInv, handle_server_notification
    PROVE  EndInv'
  <1> USE DEF Inv, EndInv
  <1>w. wire # <<>> /\ wire' = Tail(wire) /\ Head(wire) # Disconnected
    BY DEF handle_server_notification
  <1>t. /\ wire \in Seq(Nat) /\ Len(wire) \in Nat \ {0} /\ Head(wire) = wire[1]
        /\ Len(wire') = Len(wire) - 1 /\ Head(wire) \in Nat
        /\ \A j \in 1..Len(wire') : wire'[j] = wire[j + 1]
    BY <1>w, Counted, TailOfWire
  <1>s. UNCHANGED <<events, entry, opened, exited, closed, task, held, link, client, reader, disconnected,
                  failure>>
    BY DEF handle_server_notification, server
  <1>c. Len(events) \in Nat /\ last \in Nat /\ early \in SUBSET Nat /\ last <= Len(events)
    BY Counted DEF Published, DeliveredInOrder
  <1>p. \/ ~route /\ UNCHANGED <<last, early, route>>
        \/ route /\ Head(wire) <= last /\ UNCHANGED <<last, early, route>>
        \/ /\ route /\ Head(wire) > last
           /\ last' \in last .. Len(events)
           /\ last' + 1 \notin early \cup {Head(wire)}
           /\ early' = {k \in early \cup {Head(wire)} : k > last'}
           /\ (\A k \in last + 1 .. last' : events[k] # "Closed") => route'
    <2>1. CASE ~route
      BY <2>1 DEF handle_server_notification
    <2>2. CASE route /\ Head(wire) <= last
      <3>1. UNCHANGED <<last, early>>
        BY <2>2 DEF handle_server_notification, publish_ordered_event
      <3>2. route'
        BY <1>c, <2>2, <3>1 DEF handle_server_notification
      <3> QED
        BY <2>2, <3>1, <3>2 DEF TypeOK
    <2>3. CASE route /\ Head(wire) > last
      <3>1. publish_ordered_event(Head(wire)) /\ ~(Head(wire) <= last)
        BY <1>c, <1>t, <2>3 DEF handle_server_notification
      <3>2. PICK upto \in last .. Len(events) :
                /\ upto + 1 \notin early \cup {Head(wire)}
                /\ last' = upto
                /\ early' = {k \in early \cup {Head(wire)} : k > upto}
        BY <3>1 DEF publish_ordered_event, Turn
      <3>3. (\A k \in last + 1 .. last' : events[k] # "Closed") => route'
        BY <2>3 DEF handle_server_notification
      <3> QED
        BY <2>3, <3>2, <3>3
    <2>4. Head(wire) <= last \/ Head(wire) > last
      BY <1>c, <1>t
    <2> QED
      BY <2>1, <2>2, <2>3, <2>4, Zenon
  <1>m. last' \in Nat /\ last <= last'
    BY <1>c, <1>p
  <1>1. NothingYet' /\ ClosedFlag' /\ ClosedOwed'
    BY <1>s DEF NothingYet, ClosedFlag, ClosedOwed
  <1>2. LossAnnounced'
    <2>1. ASSUME link = "up" PROVE \A j \in 1..Len(wire') : wire'[j] # Disconnected
      BY <1>t, <2>1 DEF LossAnnounced
    <2>2. ASSUME link = "lost" PROVE \E j \in 1..Len(wire') : wire'[j] = Disconnected
      <3>1. PICK j \in 1..Len(wire) : wire[j] = Disconnected
        BY <2>2 DEF LossAnnounced, handle_server_notification
      <3> QED
        BY <1>w, <3>1, LeftOnWire
    <2> QED
      BY <1>s, <2>1, <2>2 DEF LossAnnounced
  <1>3. RoutedOrEnded'
    <2> SUFFICES ASSUME client \in {"registered", "held"}, ~route', ~failure
                 PROVE  SeenClosed'
      BY <1>s DEF RoutedOrEnded
    <2>1. CASE SeenClosed
      BY <1>c, <1>m, <1>s, <2>1 DEF SeenClosed
    <2>2. CASE ~SeenClosed
      <3>1. route
        BY <2>2 DEF RoutedOrEnded
      <3>2. PICK k \in last + 1 .. last' : events[k] = "Closed"
        BY <1>p, <3>1
      <3>3. k \in 1..last'
        BY <1>c, <1>m, <3>2
      <3> QED
        BY <1>s, <3>2, <3>3 DEF SeenClosed
    <2> QED
      BY <2>1, <2>2
  <1>4. NothingMislaid'
    <2> SUFFICES ASSUME link = "up", route', NEW k \in 1..Len(events)
                 PROVE  Underway(k)'
      BY <1>s DEF NothingMislaid
    <2>0. route
      BY <1>p
    <2>1. Underway(k)
      BY <2>0 DEF NothingMislaid
    <2>2. CASE \E x \in Tasks : task[x] = "notify" /\ held[x] = k
      BY <1>s, <2>2 DEF Underway
    <2>3. CASE \E j \in 1..Len(wire) : wire[j] = k /\ Head(wire) # k
      BY <1>w, <2>3, LeftOnWire DEF Underway
    <2>4. CASE k = Head(wire) \/ k \in early \/ k <= last
      <3>1. k \in early' \/ k <= last'
        BY <1>c, <1>m, <1>p, <2>0, <2>4
      <3> QED
        BY <3>1 DEF Underway
    <2>5. \/ \E x \in Tasks : task[x] = "notify" /\ held[x] = k
          \/ \E j \in 1..Len(wire) : wire[j] = k /\ Head(wire) # k
          \/ k = Head(wire) \/ k \in early \/ k <= last
      BY <2>1 DEF Underway
    <2> QED
      BY <2>2, <2>3, <2>4, <2>5
  <1>5. NextIsMissing'
    BY <1>c, <1>p DEF NextIsMissing
  <1> QED
    BY <1>1, <1>2, <1>3, <1>4, <1>5

\* The reader comes to Disconnected only when the connection is lost.
LEMMA reader_disconnected_EndInv ==
    ASSUME Inv, EndInv, reader_disconnected
    PROVE  EndInv'
  <1> USE DEF Inv, EndInv
  <1>1. link = "lost" /\ link' = link /\ reader' = "fail"
    <2>1. wire # <<>> /\ wire' = Tail(wire) /\ Head(wire) = Disconnected
      BY DEF reader_disconnected
    <2>2. Len(wire) \in Nat \ {0} /\ wire[1] = Disconnected
      BY <2>1, TailOfWire
    <2>3. 1 \in 1..Len(wire)
      BY <2>2
    <2> QED
      BY <2>2, <2>3 DEF LossAnnounced, reader_disconnected, TypeOK
  <1>2. NothingYet' /\ RoutedOrEnded' /\ NextIsMissing' /\ ClosedFlag'
    BY <1>1 DEF NothingYet, RoutedOrEnded, SeenClosed, NextIsMissing, ClosedFlag,
       reader_disconnected, server, session
  <1>3. LossAnnounced' /\ NothingMislaid' /\ ClosedOwed'
    BY <1>1 DEF LossAnnounced, NothingMislaid, ClosedOwed
  <1> QED
    BY <1>2, <1>3

\* A reader task that gives up leaves everything where it was.
LEMMA reader_rejects_EndInv ==
    ASSUME Inv, EndInv, reader_rejects
    PROVE  EndInv'
  <1> USE DEF Inv, EndInv
  <1>1. NothingYet'
    BY DEF NothingYet, reader_rejects, server, session
  <1>2. LossAnnounced'
    BY DEF LossAnnounced, reader_rejects, server, session
  <1>3. RoutedOrEnded'
    BY DEF RoutedOrEnded, SeenClosed, reader_rejects, server, session
  <1>4. NothingMislaid'
    BY DEF NothingMislaid, Underway, reader_rejects, server, session
  <1>5. NextIsMissing'
    BY DEF NextIsMissing, reader_rejects, server, session
  <1>6. ClosedOwed'
    BY DEF ClosedOwed, reader_rejects, server, session
  <1>7. ClosedFlag'
    BY DEF ClosedFlag, reader_rejects, server, session
  <1> QED
    BY <1>1, <1>2, <1>3, <1>4, <1>5, <1>6, <1>7

\* The sweep fails every session it takes out of the map.
LEMMA fail_all_sessions_EndInv ==
    ASSUME Inv, EndInv, fail_all_sessions
    PROVE  EndInv'
  <1> USE DEF Inv, EndInv
  <1>1. /\ UNCHANGED <<events, exited, opened, closed, task, held, entry, link, wire, client>>
        /\ reader' = "ended" /\ ~route'
    BY DEF fail_all_sessions, server
  <1>2. UNCHANGED <<last, early>>
    BY DEF fail_all_sessions, set_failure, session
  <1>3. RoutedOrEnded'
    <2>1. CASE route
      <3>1. failure'
        BY <2>1 DEF fail_all_sessions, set_failure
      <3> QED
        BY <3>1 DEF RoutedOrEnded
    <2>2. CASE ~route
      <3>1. failure' = failure
        BY <2>2 DEF fail_all_sessions, session
      <3> QED
        BY <1>2, <2>2, <3>1 DEF RoutedOrEnded, SeenClosed, fail_all_sessions, server
    <2> QED
      BY <2>1, <2>2
  <1>4. NothingYet' /\ NextIsMissing' /\ ClosedFlag'
    BY <1>1, <1>2 DEF NothingYet, NextIsMissing, ClosedFlag
  <1>5. LossAnnounced' /\ NothingMislaid' /\ ClosedOwed'
    BY <1>1 DEF LossAnnounced, NothingMislaid, ClosedOwed
  <1> QED
    BY <1>3, <1>4, <1>5

\* A read on a lost connection fails the session itself.
LEMMA read_fails_EndInv ==
    ASSUME Inv, EndInv, read_fails
    PROVE  EndInv'
  <1> USE DEF Inv, EndInv
  <1>1. NothingYet'
    BY DEF NothingYet, read_fails, server, session, set_failure
  <1>2. LossAnnounced'
    BY DEF LossAnnounced, read_fails, server, session, set_failure
  <1>3. RoutedOrEnded'
    BY DEF RoutedOrEnded, SeenClosed, read_fails, server, session, set_failure
  <1>4. NothingMislaid'
    BY DEF NothingMislaid, Underway, read_fails, server, session, set_failure
  <1>5. NextIsMissing'
    BY DEF NextIsMissing, read_fails, server, session, set_failure
  <1>6. ClosedOwed'
    BY DEF ClosedOwed, read_fails, server, session, set_failure
  <1>7. ClosedFlag'
    BY DEF ClosedFlag, read_fails, server, session, set_failure
  <1> QED
    BY <1>1, <1>2, <1>3, <1>4, <1>5, <1>6, <1>7

LEMMA InitEndInv == Init => EndInv
  <1> SUFFICES ASSUME Init PROVE EndInv
    OBVIOUS
  <1>1. Len(events) = 0 /\ Len(wire) = 0
    BY EmptySeq DEF Init
  <1>2. NothingYet /\ LossAnnounced /\ RoutedOrEnded
    BY <1>1 DEF Init, NothingYet, LossAnnounced, RoutedOrEnded
  <1>3. NothingMislaid /\ NextIsMissing /\ ClosedOwed /\ ClosedFlag
    BY <1>1 DEF Init, NothingMislaid, NextIsMissing, ClosedOwed, ClosedFlag
  <1> QED
    BY <1>2, <1>3 DEF EndInv

LEMMA StutterEndInv == EndInv /\ UNCHANGED vars => EndInv'
  BY DEF vars, EndInv, NothingYet, LossAnnounced, RoutedOrEnded, SeenClosed, NothingMislaid,
     Underway, NextIsMissing, ClosedOwed, ClosedFlag

LEMMA NextEndInv == Inv /\ EndInv /\ [Next]_vars => EndInv'
  BY StutterEndInv, register_session_EndInv, start_process_EndInv, exec_returns_EndInv,
     exec_fails_EndInv, start_dropped_EndInv, drop_EndInv, unregister_session_EndInv,
     stream_output_EndInv, finish_output_stream_EndInv, watch_exit_EndInv,
     maybe_emit_closed_EndInv, notify_EndInv, remove_entry_EndInv, disconnect_EndInv,
     handle_server_notification_EndInv, reader_disconnected_EndInv,
     reader_rejects_EndInv, fail_all_sessions_EndInv, read_fails_EndInv
     DEF Next, ServerStep, ReaderStep

THEOREM EndInvHolds == Spec => []EndInv
  BY InitEndInv, NextEndInv, InvHolds, PTL DEF Spec

\* A subscriber that has seen Closed has seen it last.
LEMMA SeenClosedTerminal == Inv /\ SeenClosed => Terminal
  <1> SUFFICES ASSUME Inv, SeenClosed PROVE Terminal
    OBVIOUS
  <1>1. /\ Len(events) \in Nat /\ last \in Nat /\ Len(delivered) = last
        /\ last <= Len(events) /\ delivered \in Seq(Kinds)
    BY Counted DEF Inv, Published, DeliveredInOrder, TypeOK, Kinds
  <1>2. PICK k \in 1..last : events[k] = "Closed"
    BY DEF SeenClosed
  <1>3. k = Len(events) /\ k = Len(delivered)
    BY <1>1, <1>2 DEF Inv, ClosedLast
  <1>4. delivered # <<>>
    BY <1>1, <1>2, EmptySeq
  <1>5. delivered[Len(delivered)] = "Closed"
    BY <1>1, <1>2, <1>3 DEF Inv, DeliveredInOrder
  <1> QED
    BY <1>4, <1>5 DEF Terminal

\* When nothing is under way the subscriber has seen every event.
LEMMA AllPublished ==
    ASSUME Inv, EndInv, link = "up", route, ServerAtRest, wire = <<>>
    PROVE  last = Len(events)
  <1>1. Len(events) \in Nat /\ last \in Nat /\ last <= Len(events) /\ Len(wire) = 0
    BY Counted, EmptySeq DEF Inv, Published, DeliveredInOrder
  <1>2. ASSUME last < Len(events) PROVE FALSE
    <2>1. last + 1 \in 1..Len(events)
      BY <1>1, <1>2
    <2>2. Underway(last + 1)
      BY <2>1 DEF EndInv, NothingMislaid
    <2> QED
      BY <1>1, <2>2 DEF Underway, ServerAtRest, EndInv, NextIsMissing
  <1> QED
    BY <1>1, <1>2

\* When the tasks of the server and the reader task have nothing left to do, the
\* holder of the handle of a process that is over has been told so.
THEOREM EndReportedHolds == Spec => []EndReported
  <1>1. Inv /\ EndInv => EndReported
    <2> SUFFICES ASSUME Inv, EndInv, client = "held", Over, ServerAtRest, ReaderAtRest
                 PROVE  Terminal
      BY DEF EndReported
    <2>1. CASE ~route
      BY <2>1, SeenClosedTerminal DEF EndInv, RoutedOrEnded, Terminal
    <2>2. CASE route
      <3>1. reader = "run" /\ wire = <<>> /\ Len(wire) = 0
        BY <2>2, EmptySeq DEF ReaderAtRest, Inv, NoDeadSession
      <3>2. link = "up" /\ ~disconnected
        BY <3>1 DEF EndInv, LossAnnounced, Inv, TypeOK
      <3>3. closed
        BY <3>2 DEF Over, EndInv, ClosedOwed, ServerAtRest
      <3>4. last = Len(events)
        BY <2>2, <3>1, <3>2, AllPublished
      <3>5. SeenClosed
        BY <3>3, <3>4 DEF EndInv, ClosedFlag, SeenClosed
      <3> QED
        BY <3>5, SeenClosedTerminal
    <2> QED
      BY <2>1, <2>2
  <1> QED
    BY <1>1, InvHolds, EndInvHolds, PTL
=============================================================================
