----------------------------- MODULE RolloutLog -----------------------------
(***************************************************************************)
(* What RolloutRecorder promises to the session that uses it              *)
(* (rollout/src/recorder.rs): record_items accepts items into one          *)
(* conversation log; the log is stored item by item, in the order of       *)
(* acceptance; a barrier (persist, flush, shutdown) that returns Ok has     *)
(* stored everything that was accepted before it was asked; what is stored  *)
(* survives a crash, what is only accepted does not.                       *)
(*                                                                         *)
(* RolloutWriter implements this specification.                            *)
(***************************************************************************)
EXTENDS Naturals, Sequences

CONSTANTS
    Items,    \* rollout items
    Meta,     \* the SessionMeta item every rollout starts with
    Clients   \* tasks that hold a clone of the recorder

VARIABLES
    accepted,  \* the conversation log, as accepted and not since lost
    stored,    \* how many items of it are stored
    call,      \* the barrier call of each client
    confirmed  \* the longest log a barrier has confirmed

vars == <<accepted, stored, call, confirmed>>

Idle == [st |-> "idle", need |-> 0]
Answer(ok) == [st |-> IF ok THEN "ok" ELSE "err", need |-> 0]

Init ==
    /\ accepted = <<Meta>>
    /\ stored = 0
    /\ call = [c \in Clients |-> Idle]
    /\ confirmed = 0

Accept(i) ==
    /\ accepted' = Append(accepted, i)
    /\ UNCHANGED <<stored, call, confirmed>>

Store ==
    /\ stored < Len(accepted)
    /\ stored' = stored + 1
    /\ UNCHANGED <<accepted, call, confirmed>>

\* A barrier covers the whole log; one on a log that holds nothing but its
\* header may leave the header unstored.
Needs == {Len(accepted)} \cup (IF Len(accepted) <= 1 THEN {0} ELSE {})

Ask(c) ==
    /\ call[c].st = "idle"
    /\ \E need \in Needs :
           call' = [call EXCEPT ![c] = [st |-> "wait", need |-> need]]
    /\ UNCHANGED <<accepted, stored, confirmed>>

Later(x, y) == IF x < y THEN y ELSE x

Confirm(c) ==
    /\ call[c].st = "wait"
    /\ call[c].need <= stored
    /\ call' = [call EXCEPT ![c] = Answer(TRUE)]
    /\ confirmed' = Later(confirmed, call[c].need)
    /\ UNCHANGED <<accepted, stored>>

Refuse(c) ==
    /\ call[c].st \in {"idle", "wait"}
    /\ call' = [call EXCEPT ![c] = Answer(FALSE)]
    /\ UNCHANGED <<accepted, stored, confirmed>>

Return(c) ==
    /\ call[c].st \in {"ok", "err"}
    /\ call' = [call EXCEPT ![c] = Idle]
    /\ UNCHANGED <<accepted, stored, confirmed>>

\* The recorder closes under a confirmed shutdown: calls still queued are
\* refused, items accepted behind the shutdown are lost.
Close(c) ==
    /\ call[c].st = "wait"
    /\ call[c].need <= stored
    /\ call' = [d \in Clients |->
                   IF call[d].st = "wait" THEN Answer(d = c) ELSE call[d]]
    /\ confirmed' = Later(confirmed, call[c].need)
    /\ accepted' = SubSeq(accepted, 1, stored)
    /\ UNCHANGED stored

Crash ==
    /\ accepted' = SubSeq(accepted, 1, stored)
    /\ call' = [c \in Clients |-> Idle]
    /\ UNCHANGED <<stored, confirmed>>

Next ==
    \/ \E i \in Items : Accept(i)
    \/ Store
    \/ \E c \in Clients : Ask(c) \/ Confirm(c) \/ Refuse(c) \/ Return(c) \/ Close(c)
    \/ Crash

Spec == Init /\ [][Next]_vars
=============================================================================
