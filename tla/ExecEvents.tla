----------------------------- MODULE ExecEvents -----------------------------
(***************************************************************************)
(* The pushed event stream of one remote process (exec-server).            *)
(*                                                                         *)
(* On the server (local_process.rs) one task per output stream and one for  *)
(* the exit take sequence numbers under the lock of the process table and   *)
(* send their notifications after releasing it, so notifications overtake   *)
(* each other.  On the client (client.rs) a reader task routes them to the  *)
(* session, which publishes them in sequence order; when the connection is  *)
(* lost the messages already received are followed by a Disconnected event, *)
(* on which every session is failed.                                       *)
(*                                                                         *)
(* The queues between the server's tasks and the client's reader task       *)
(* preserve order and are one sequence here, `wire`.  Output bytes, the      *)
(* bounded replay log and polling reads of retained output are left out.    *)
(***************************************************************************)
EXTENDS Naturals, Sequences

CONSTANTS
    Streams,    \* output streams of the process: stdout and stderr
    Exit,       \* the task that watches for the exit
    MaxOutput   \* bound: no output is sequenced after this number

ASSUME ExecAssumption ==
    /\ Exit \notin Streams
    /\ MaxOutput \in Nat
    /\ {"Exited", "Closed"} \cap Streams = {}

Tasks == Streams \cup {Exit}

VARIABLES
    events,        \* what the server published; next_seq is Len(events) + 1
    entry,         \* "none", "running", "removed": the entry of the process table
    opened,        \* open_streams
    exited,        \* exit_code is set
    closed,        \* the closed flag
    task,          \* where each server task is
    held,          \* the sequence number a task has yet to notify
    link,          \* "up" or "lost"
    wire,          \* sequence numbers on their way; 0 is Disconnected
    client,        \* the caller of RemoteProcess::start, then its handle
    route,         \* the session is in the client's session map
    disconnected,  \* Inner::disconnected is set
    reader,        \* the client's reader task: "run", "fail", "ended"
    last,          \* last_published_seq
    early,         \* pending: sequence numbers received ahead of their turn
    delivered,     \* the sequenced events published to subscribers
    failure        \* SessionState::failure is set and Failed is published

server == <<events, entry, opened, exited, closed, task, held>>
session == <<last, early, delivered, failure>>
vars == <<events, entry, opened, exited, closed, task, held, link, wire, client, route,
          disconnected, reader, last, early, delivered, failure>>

Disconnected == 0

Init ==
    /\ events = <<>>
    /\ entry = "none"
    /\ opened = Streams
    /\ exited = FALSE
    /\ closed = FALSE
    /\ task = [x \in Tasks |-> "none"]
    /\ held = [x \in Tasks |-> 0]
    /\ link = "up"
    /\ wire = <<>>
    /\ client = "new"
    /\ route = FALSE
    /\ disconnected = FALSE
    /\ reader = "run"
    /\ last = 0
    /\ early = {}
    /\ delivered = <<>>
    /\ failure = FALSE

-----------------------------------------------------------------------------
(* Starting: the session is registered before the request is sent           *)

\* Mutant: no look at the disconnect.
register_session_unchecked ==
    /\ client = "new"
    /\ client' = "registered"
    /\ route' = TRUE
    /\ UNCHANGED <<server, link, wire, disconnected, reader, session>>

\* insert_session refuses once a disconnect is recorded.
register_session ==
    /\ client = "new"
    /\ IF disconnected
       THEN client' = "refused" /\ UNCHANGED route
       ELSE client' = "registered" /\ route' = TRUE
    /\ UNCHANGED <<server, link, wire, disconnected, reader, session>>

\* Mutant: watch_exit is not spawned.
start_process_unwatched ==
    /\ client \in {"registered", "abandoned"}
    /\ link = "up"
    /\ entry = "none"
    /\ entry' = "running"
    /\ task' = [x \in Streams |-> "run"]
    /\ UNCHANGED <<events, opened, exited, closed, held, link, wire, client, route,
                   disconnected, reader, session>>

start_process ==
    /\ client \in {"registered", "abandoned"}
    /\ link = "up"
    /\ entry = "none"
    /\ entry' = "running"
    /\ task' = [x \in Tasks |-> "run"]
    /\ UNCHANGED <<events, opened, exited, closed, held, link, wire, client, route,
                   disconnected, reader, session>>

\* A response already read before the end of the connection still wins.
exec_returns ==
    /\ client = "registered"
    /\ entry # "none"
    /\ client' = "held"
    /\ UNCHANGED <<server, link, wire, route, disconnected, reader, session>>

\* The call fails: in the server, at a disconnect recorded before it is sent, or
\* with the connection.
exec_fails ==
    /\ client = "registered"
    /\ \/ entry = "none" /\ link = "up" /\ UNCHANGED disconnected
       \/ link = "lost" /\ disconnected' = TRUE
    /\ client' = "refused"
    /\ UNCHANGED <<server, link, wire, route, reader, session>>

\* The future of start is dropped while the call is under way: nothing
\* unregisters the session, and the process may still be started.
start_dropped ==
    /\ client = "registered"
    /\ client' = "abandoned"
    /\ UNCHANGED <<server, link, wire, route, disconnected, reader, session>>

\* RemoteExecProcess::drop
drop ==
    /\ client = "held"
    /\ client' = "dropped"
    /\ UNCHANGED <<server, link, wire, route, disconnected, reader, session>>

\* After a failed call, or in the task that drop spawns.
unregister_session ==
    /\ client \in {"refused", "dropped"}
    /\ route
    /\ route' = FALSE
    /\ UNCHANGED <<server, link, wire, client, disconnected, reader, session>>

-----------------------------------------------------------------------------
(* The server's tasks                                                      *)

\* Under the lock: take the sequence number and publish.
Publish(x, kind) ==
    /\ events' = Append(events, kind)
    /\ held' = [held EXCEPT ![x] = Len(events) + 1]
    /\ task' = [task EXCEPT ![x] = "notify"]

Goto(x, where) == task' = [task EXCEPT ![x] = where]

stream_output(s) ==
    /\ task[s] = "run"
    /\ entry = "running"
    /\ Len(events) < MaxOutput
    /\ Publish(s, s)
    /\ UNCHANGED <<entry, opened, exited, closed, link, wire, client, route,
                   disconnected, reader, session>>

\* End of the stream, or the entry is gone.
finish_output_stream(s) ==
    /\ task[s] = "run"
    /\ IF entry = "running"
       THEN opened' = opened \ {s} /\ Goto(s, "close")
       ELSE UNCHANGED opened /\ Goto(s, "done")
    /\ UNCHANGED <<events, entry, exited, closed, held, link, wire, client, route,
                   disconnected, reader, session>>

watch_exit ==
    /\ task[Exit] = "run"
    /\ IF entry = "running"
       THEN Publish(Exit, "Exited") /\ exited' = TRUE
       ELSE Goto(Exit, "close") /\ UNCHANGED <<events, held, exited>>
    /\ UNCHANGED <<entry, opened, closed, link, wire, client, route,
                   disconnected, reader, session>>

\* Mutant: every task that finds the process over emits Closed.
maybe_emit_closed_again(x) ==
    /\ task[x] = "close"
    /\ IF entry # "running" \/ opened # {} \/ ~exited
       THEN Goto(x, "done") /\ UNCHANGED <<events, held, closed>>
       ELSE Publish(x, "Closed") /\ closed' = TRUE
    /\ UNCHANGED <<entry, opened, exited, link, wire, client, route,
                   disconnected, reader, session>>

maybe_emit_closed(x) ==
    /\ task[x] = "close"
    /\ IF entry # "running" \/ closed \/ opened # {} \/ ~exited
       THEN Goto(x, "done") /\ UNCHANGED <<events, held, closed>>
       ELSE Publish(x, "Closed") /\ closed' = TRUE
    /\ UNCHANGED <<entry, opened, exited, link, wire, client, route,
                   disconnected, reader, session>>

\* Mutant: the task that watched for the exit does not look for Closed.
AfterExitDone(x) ==
    IF events[held[x]] \in {"Closed", "Exited"} THEN "done" ELSE "run"

\* After the lock: send the notification.  A lost connection drops it.
After(x) ==
    CASE events[held[x]] = "Closed" -> "done"
      [] events[held[x]] = "Exited" -> "close"
      [] OTHER -> "run"

notify(x) ==
    /\ task[x] = "notify"
    /\ wire' = IF link = "up" THEN Append(wire, held[x]) ELSE wire
    /\ held' = [held EXCEPT ![x] = 0]
    /\ Goto(x, After(x))
    /\ UNCHANGED <<events, entry, opened, exited, closed, link, client, route,
                   disconnected, reader, session>>

\* EXITED_PROCESS_RETENTION after Closed the entry is removed; a session that
\* stays detached for DETACHED_SESSION_TTL is shut down with its processes.
remove_entry ==
    /\ entry = "running"
    /\ closed \/ link = "lost"
    /\ entry' = "removed"
    /\ UNCHANGED <<events, opened, exited, closed, task, held, link, wire, client, route,
                   disconnected, reader, session>>

-----------------------------------------------------------------------------
(* The connection                                                          *)

\* The connection is lost with any suffix of what is under way.
disconnect ==
    /\ link = "up"
    /\ link' = "lost"
    /\ \E k \in 0..Len(wire) : wire' = Append(SubSeq(wire, 1, k), Disconnected)
    /\ UNCHANGED <<server, client, route, disconnected, reader, session>>

-----------------------------------------------------------------------------
(* The client                                                              *)

\* It is the turn of the events up to k once the set `ready` has been received.
Turn(k, ready) ==
    /\ last + 1 .. k \subseteq ready
    /\ k + 1 \notin ready

\* Mutant: published on arrival.
publish_on_arrival(seq) ==
    /\ last' = IF seq <= last THEN last ELSE seq
    /\ delivered' = Append(delivered, events[seq])
    /\ UNCHANGED early

\* publish_ordered_event: nothing twice, nothing before its turn.
publish_ordered_event(seq) ==
    IF seq <= last
    THEN UNCHANGED <<last, early, delivered>>
    ELSE LET ready == early \cup {seq}
         IN  \E upto \in last .. Len(events) :
                 /\ Turn(upto, ready)
                 /\ last' = upto
                 /\ early' = {k \in ready : k > upto}
                 /\ delivered' = delivered \o SubSeq(events, last + 1, upto)

\* Mutant: the route goes when Closed arrives.
handle_server_notification_early ==
    /\ reader = "run"
    /\ wire # <<>>
    /\ Head(wire) # Disconnected
    /\ wire' = Tail(wire)
    /\ IF route
       THEN /\ publish_ordered_event(Head(wire))
            /\ route' = (events[Head(wire)] # "Closed")
       ELSE UNCHANGED <<last, early, delivered, route>>
    /\ UNCHANGED <<server, link, client, disconnected, reader, failure>>

\* handle_server_notification: the route goes when Closed has been published.
handle_server_notification ==
    /\ reader = "run"
    /\ wire # <<>>
    /\ Head(wire) # Disconnected
    /\ wire' = Tail(wire)
    /\ IF route
       THEN /\ publish_ordered_event(Head(wire))
            /\ route' = (\A k \in last + 1 .. last' : events[k] # "Closed")
       ELSE UNCHANGED <<last, early, delivered, route>>
    /\ UNCHANGED <<server, link, client, disconnected, reader, failure>>

\* The reader task comes to Disconnected: record_disconnected ...
reader_disconnected ==
    /\ reader = "run"
    /\ wire # <<>>
    /\ Head(wire) = Disconnected
    /\ wire' = Tail(wire)
    /\ disconnected' = TRUE
    /\ reader' = "fail"
    /\ UNCHANGED <<server, link, client, route, session>>

\* A notification, of this process or of other traffic on the connection, cannot
\* be handled: the reader task records a disconnect and reads no further,
\* although the connection is up and the server goes on sending.
reader_rejects ==
    /\ reader = "run"
    /\ disconnected' = TRUE
    /\ reader' = "fail"
    /\ UNCHANGED <<server, link, wire, client, route, session>>

\* set_failure publishes Failed once.
set_failure ==
    /\ failure' = TRUE
    /\ UNCHANGED <<last, early, delivered>>

\* ... then fail_all_sessions takes the sessions out of the map.
fail_all_sessions ==
    /\ reader = "fail"
    /\ reader' = "ended"
    /\ route' = FALSE
    /\ IF route THEN set_failure ELSE UNCHANGED session
    /\ UNCHANGED <<server, link, wire, client, disconnected>>

\* Session::read on a lost connection, which the call records, or after a
\* recorded disconnect, when no call is made: read fails the session itself.
read_fails ==
    /\ client = "held"
    /\ link = "lost" \/ disconnected
    /\ disconnected' = TRUE
    /\ set_failure
    /\ UNCHANGED <<server, link, wire, client, route, reader>>

-----------------------------------------------------------------------------
ServerStep(x) == notify(x) \/ maybe_emit_closed(x)
ReaderStep == handle_server_notification \/ reader_disconnected \/ fail_all_sessions

Next ==
    \/ register_session
    \/ start_process
    \/ exec_returns
    \/ exec_fails
    \/ start_dropped
    \/ drop
    \/ unregister_session
    \/ \E s \in Streams : stream_output(s) \/ finish_output_stream(s)
    \/ watch_exit
    \/ \E x \in Tasks : ServerStep(x)
    \/ remove_entry
    \/ disconnect
    \/ ReaderStep
    \/ reader_rejects
    \/ read_fails

Spec == Init /\ [][Next]_vars

\* The runtimes poll the server's tasks and the client's reader task.
FairSpec ==
    /\ Spec
    /\ \A x \in Tasks : WF_vars(ServerStep(x))
    /\ WF_vars(ReaderStep)

-----------------------------------------------------------------------------
(* Properties                                                              *)

\* Every variable keeps its type (RunningProcess, SessionState, Inner).
TypeOK ==
    /\ events \in Seq(Streams \cup {"Exited", "Closed"})
    /\ entry \in {"none", "running", "removed"}
    /\ opened \subseteq Streams
    /\ exited \in BOOLEAN /\ closed \in BOOLEAN
    /\ task \in [Tasks -> {"none", "run", "notify", "close", "done"}]
    /\ held \in [Tasks -> Nat]
    /\ link \in {"up", "lost"}
    /\ wire \in Seq(Nat)
    /\ client \in {"new", "registered", "refused", "abandoned", "held", "dropped"}
    /\ route \in BOOLEAN /\ disconnected \in BOOLEAN
    /\ reader \in {"run", "fail", "ended"}
    /\ last \in Nat
    /\ early \subseteq Nat
    /\ delivered \in Seq(Streams \cup {"Exited", "Closed"})
    /\ failure \in BOOLEAN

\* What a subscriber has seen is a prefix of what the process did: no event is
\* skipped, repeated or swapped, whatever order the notifications arrive in and
\* wherever the connection breaks (publish_ordered_event).
DeliveredInOrder ==
    /\ Len(delivered) <= Len(events)
    /\ \A k \in 1..Len(delivered) : delivered[k] = events[k]

\* Closed ends the stream: the three tasks that race to emit it emit it once,
\* after the exit and after the last chunk of every stream (maybe_emit_closed).
ClosedLast ==
    \A k \in 1..Len(events) :
        events[k] = "Closed" =>
            /\ k = Len(events)
            /\ \E j \in 1..k : events[j] = "Exited"

\* Once the reader task has ended no session waits for notifications that
\* nobody will route (insert_session against fail_all_sessions).
NoDeadSession == reader = "ended" => ~route

Terminal == failure \/ (delivered # <<>> /\ delivered[Len(delivered)] = "Closed")
Over == link = "lost" \/ disconnected \/ (exited /\ opened = {})

\* Nothing is left that the server's tasks, or the client's reader task, would
\* do of their own accord.
ServerAtRest == \A x \in Tasks : task[x] \notin {"notify", "close"}
ReaderAtRest == reader = "ended" \/ (reader = "run" /\ wire = <<>>)

\* The end of a process is never lost on its way: when every task of the server
\* and the reader task have done what they had to, the holder of the handle of a
\* process that is over has been told Closed or Failed (maybe_emit_closed,
\* publish_ordered_event, fail_all_sessions).
EndReported ==
    (client = "held" /\ Over /\ ServerAtRest /\ ReaderAtRest) => Terminal

\* A process that has exited and ended its streams, or whose connection is lost
\* or given up by the reader task, is reported to the holder of its handle as Closed or Failed: the last
\* task to finish always finds the others' updates, and no notification that
\* Closed waits for is lost without a failure.
HolderLearnsEnd == (client = "held" /\ Over) ~> (Terminal \/ client = "dropped")
=============================================================================
