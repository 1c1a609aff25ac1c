--------------------------- MODULE NetworkApprovals ---------------------------
(***************************************************************************)
(* The network approvals of a session (core/src/tools/network_approval.rs). *)
(* The managed proxy asks about every request to a host that is not on the  *)
(* allowlist.  Requests to one host share one pending approval: the request *)
(* that creates it, its owner, asks the hooks, the guardian or the user;    *)
(* the others wait for the owner's decision.  A tool call that uses the     *)
(* network is registered while it runs, and takes a denial as its outcome    *)
(* when it is the only one registered.                                      *)
(*                                                                         *)
(* A step holds one of the service's locks.  A PendingHostApproval is named *)
(* by the request that created it.  A host stands for host, protocol and     *)
(* port.  The proxy drops the future of a request whose connection goes      *)
(* away, at any await.                                                       *)
(***************************************************************************)
EXTENDS Naturals

CONSTANTS
    Hosts,
    Requests,   \* requests that reach the proxy's policy decider
    NoRequest,
    Calls,      \* tool calls that registered for network approval
    NoCall

ASSUME NamesAssumption == NoRequest \notin Requests /\ NoCall \notin Calls

VARIABLES
    active,     \* active_calls
    outcome,    \* call_outcomes
    call,       \* where each tool call is
    pending,    \* pending_host_approvals: host -> owner
    decision,   \* PendingHostApproval::decision, by owner
    approved,   \* session_approved_hosts
    denied,     \* session_denied_hosts
    pc,         \* where each request is in handle_inline_policy_request
    host,       \* what it asks for
    waits,      \* the pending approval it waits for
    awake,      \* its Notified future has been notified
    blame,      \* owner_call, then the call a denial is recorded for
    verdict,    \* what an owner has resolved
    why,        \* the outcome to record for its call
    blocked,    \* the call a blocked request is about to be recorded for
    known       \* ghost: the session's decision that it can no longer miss

calls == <<active, outcome, call>>
shared == <<pending, decision, approved, denied>>
locals == <<waits, awake, blame, verdict, why>>
vars == <<calls, shared, blocked, pc, host, locals, known>>

Init ==
    /\ active = {}
    /\ outcome = [c \in Calls |-> "none"]
    /\ call = [c \in Calls |-> "new"]
    /\ pending = [h \in Hosts |-> NoRequest]
    /\ decision = [r \in Requests |-> "none"]
    /\ approved = {}
    /\ denied = {}
    /\ pc = [r \in Requests |-> "new"]
    /\ host \in [Requests -> Hosts]
    /\ waits = [r \in Requests |-> NoRequest]
    /\ awake = [r \in Requests |-> FALSE]
    /\ blame = [r \in Requests |-> NoCall]
    /\ verdict = [r \in Requests |-> "none"]
    /\ why = [r \in Requests |-> "none"]
    /\ blocked = NoCall
    /\ known = [r \in Requests |-> "none"]

-----------------------------------------------------------------------------
(* Tool calls                                                              *)

\* begin_network_approval
register_call(c) ==
    /\ call[c] = "new"
    /\ call' = [call EXCEPT ![c] = "running"]
    /\ active' = active \cup {c}
    /\ UNCHANGED <<blocked, outcome, shared, pc, host, locals, known>>

\* finish_immediate_network_approval takes the outcome and reports it; a
\* deferred approval goes straight to unregister_call.
take_call_outcome(c) ==
    /\ call[c] = "running"
    /\ call' = [call EXCEPT ![c] = "taken"]
    /\ outcome' \in {outcome, [outcome EXCEPT ![c] = "none"]}
    /\ UNCHANGED <<blocked, active, shared, pc, host, locals, known>>

\* unregister_call: the two maps, one after the other.
unregister_active(c) ==
    /\ call[c] = "taken"
    /\ call' = [call EXCEPT ![c] = "unregistered"]
    /\ active' = active \ {c}
    /\ UNCHANGED <<blocked, outcome, shared, pc, host, locals, known>>

unregister_outcome(c) ==
    /\ call[c] = "unregistered"
    /\ call' = [call EXCEPT ![c] = "over"]
    /\ outcome' = [outcome EXCEPT ![c] = "none"]
    /\ UNCHANGED <<blocked, active, shared, pc, host, locals, known>>

\* The turn is aborted: the future of the tool call is dropped at an await, and
\* nothing unregisters it.
cancel_call(c) ==
    /\ call[c] \in {"running", "taken", "unregistered"}
    /\ call' = [call EXCEPT ![c] = "over"]
    /\ UNCHANGED <<blocked, active, outcome, shared, pc, host, locals, known>>

-----------------------------------------------------------------------------
(* Requests: the session's decisions and the pending approval              *)

Goto(r, where) == pc' = [pc EXCEPT ![r] = where]

Ended == {"allow", "deny", "dropped"}

\* The locals of a request end with its future.
EndLocals(r) ==
    /\ waits' = [waits EXCEPT ![r] = NoRequest]
    /\ awake' = [awake EXCEPT ![r] = FALSE]
    /\ blame' = [blame EXCEPT ![r] = NoCall]
    /\ verdict' = [verdict EXCEPT ![r] = "none"]
    /\ why' = [why EXCEPT ![r] = "none"]

\* Mutant: the decision itself is the answer.
Unconverted(d) == d

ToNetworkDecision(d) == IF d = "deny" THEN "deny" ELSE "allow"

Standing(h) ==
    IF h \in denied THEN "deny" ELSE IF h \in approved THEN "allow" ELSE "none"

request(r) ==
    /\ pc[r] = "new"
    /\ Goto(r, "denied?")
    /\ known' = [known EXCEPT ![r] = Standing(host[r])]
    /\ UNCHANGED <<blocked, calls, shared, host, locals>>

find_denied(r) ==
    /\ pc[r] = "denied?"
    /\ IF host[r] \in denied
       THEN Goto(r, "deny")
       ELSE Goto(r, "approved?")
    /\ UNCHANGED <<blocked, calls, shared, host, waits, awake, blame, verdict, why, known>>

find_approved(r) ==
    /\ pc[r] = "approved?"
    /\ IF host[r] \in approved
       THEN Goto(r, "allow")
       ELSE Goto(r, "join")
    /\ UNCHANGED <<blocked, calls, shared, host, waits, awake, blame, verdict, why, known>>

\* Mutant: an existing approval is replaced.
get_or_create_always(r) ==
    /\ pc[r] = "join"
    /\ pending' = [pending EXCEPT ![host[r]] = r]
    /\ Goto(r, "policy?")
    /\ UNCHANGED <<blocked, calls, decision, approved, denied, host, locals, known>>

get_or_create_pending_approval(r) ==
    /\ pc[r] = "join"
    /\ IF pending[host[r]] = NoRequest
       THEN /\ pending' = [pending EXCEPT ![host[r]] = r]
            /\ Goto(r, "policy?")
            /\ UNCHANGED waits
       ELSE /\ waits' = [waits EXCEPT ![r] = pending[host[r]]]
            /\ Goto(r, "listen")
            /\ UNCHANGED pending
    /\ UNCHANGED <<blocked, calls, decision, approved, denied, host, awake, blame, verdict,
                   why, known>>

-----------------------------------------------------------------------------
(* A request that waits: wait_for_decision                                 *)

\* A Notified future is created before the decision is read.
listen(r) ==
    /\ pc[r] = "listen"
    /\ Goto(r, "check")
    /\ awake' = [awake EXCEPT ![r] = FALSE]
    /\ UNCHANGED <<blocked, calls, shared, host, waits, blame, verdict, why, known>>

check_decision(r) ==
    /\ pc[r] = "check"
    /\ IF decision[waits[r]] # "none"
       THEN Goto(r, ToNetworkDecision(decision[waits[r]])) /\ EndLocals(r)
       ELSE Goto(r, "sleep") /\ UNCHANGED locals
    /\ UNCHANGED <<blocked, calls, shared, host, known>>

wake(r) ==
    /\ pc[r] = "sleep"
    /\ awake[r]
    /\ Goto(r, "listen")
    /\ UNCHANGED <<blocked, calls, shared, host, locals, known>>

-----------------------------------------------------------------------------
(* The owner                                                               *)

\* No active turn, or its policies exclude approvals: denied by policy.
policy_denies(r) ==
    /\ pc[r] = "policy?"
    /\ verdict' = [verdict EXCEPT ![r] = "deny"]
    /\ why' = [why EXCEPT ![r] = "late"]
    /\ Goto(r, "set")
    /\ UNCHANGED <<blocked, calls, shared, host, waits, awake, blame, known>>

\* The call that is registered when no other one is.
Single == IF \E c \in Calls : active = {c} THEN CHOOSE c \in Calls : active = {c} ELSE NoCall

resolve_single_active_call(r) ==
    /\ pc[r] = "policy?"
    /\ blame' = [blame EXCEPT ![r] = Single]
    /\ Goto(r, "ask")
    /\ UNCHANGED <<blocked, calls, shared, host, waits, awake, verdict, why, known>>

\* What the hooks, the guardian or the user may answer, with the outcome that
\* is recorded for the call.  An aborted turn answers like a denial.
Answers ==
    {<<"once", "none">>, <<"session", "none">>, <<"deny", "user">>, <<"deny", "policy">>,
     <<"deny_session", "user">>}

answer(r) ==
    /\ pc[r] = "ask"
    /\ \E a \in Answers :
           /\ verdict' = [verdict EXCEPT ![r] = a[1]]
           /\ why' = [why EXCEPT ![r] = a[2]]
    /\ Goto(r, "record")
    /\ UNCHANGED <<blocked, calls, shared, host, waits, awake, blame, known>>

\* Mutant: the last outcome wins.
RecordedLast(c, o) == [outcome EXCEPT ![c] = o]

\* record_call_outcome: a denial by the user stays.
Recorded(c, o) == [outcome EXCEPT ![c] = IF @ = "user" THEN @ ELSE o]

\* Mutant: the pending approval is removed with the answer, before the caches.
record_and_remove(r) ==
    /\ pc[r] = "record"
    /\ outcome' = IF why[r] # "none" /\ blame[r] # NoCall
                  THEN Recorded(blame[r], why[r]) ELSE outcome
    /\ pending' = [pending EXCEPT ![host[r]] = NoRequest]
    /\ Goto(r, IF verdict[r] \in {"session", "deny_session"} THEN "clear" ELSE "set")
    /\ UNCHANGED <<blocked, active, call, decision, approved, denied, host, locals, known>>

record_call_outcome(r) ==
    /\ pc[r] = "record"
    /\ outcome' = IF why[r] # "none" /\ blame[r] # NoCall
                  THEN Recorded(blame[r], why[r]) ELSE outcome
    /\ Goto(r, IF verdict[r] \in {"session", "deny_session"} THEN "clear" ELSE "set")
    /\ UNCHANGED <<blocked, active, call, shared, host, locals, known>>

\* The session's decision that a verdict stands for.
Made(v) == IF v = "session" THEN "allow" ELSE "deny"

\* Ghost: the decision that r is about to make withdraws the opposite one.
Withdraw(r) ==
    known' = [q \in Requests |->
                 IF host[q] = host[r] /\ known[q] # Made(verdict[r]) THEN "none" ELSE known[q]]

\* Ghost: who has not joined a pending approval meets the decision that r caches,
\* in a cache it still looks at or in the pending approval of r.
Learn(r) ==
    known' = [q \in Requests |->
                 IF host[q] = host[r] /\ pc[q] \in {"denied?", "approved?", "join"}
                 THEN Made(verdict[r]) ELSE known[q]]

\* q has looked at the cache that holds its decision: the pending approval is
\* what is left to tell it.
PastLook(q) == pc[q] = "join" \/ (pc[q] = "approved?" /\ known[q] = "deny")

\* Ghost: with the pending approval of r gone, those requests miss the decision.
Miss(r) ==
    known' = [q \in Requests |->
                 IF host[q] = host[r] /\ PastLook(q) THEN "none" ELSE known[q]]

\* Mutant: the opposite decision is left in place.
clear_opposite_skipped(r) ==
    /\ pc[r] = "clear"
    /\ Goto(r, "cache")
    /\ Withdraw(r)
    /\ UNCHANGED <<blocked, calls, shared, host, locals>>

clear_opposite(r) ==
    /\ pc[r] = "clear"
    /\ IF verdict[r] = "session"
       THEN denied' = denied \ {host[r]} /\ UNCHANGED approved
       ELSE approved' = approved \ {host[r]} /\ UNCHANGED denied
    /\ Goto(r, "cache")
    /\ Withdraw(r)
    /\ UNCHANGED <<blocked, calls, pending, decision, host, locals>>

cache_decision(r) ==
    /\ pc[r] = "cache"
    /\ IF verdict[r] = "session"
       THEN approved' = approved \cup {host[r]} /\ UNCHANGED denied
       ELSE denied' = denied \cup {host[r]} /\ UNCHANGED approved
    /\ Goto(r, "set")
    /\ Learn(r)
    /\ UNCHANGED <<blocked, calls, pending, decision, host, locals>>

Resolved(r) == IF verdict[r] = "deny_session" THEN "deny" ELSE verdict[r]

set_decision(r) ==
    /\ pc[r] = "set"
    /\ decision' = [decision EXCEPT ![r] = Resolved(r)]
    /\ Goto(r, "notify")
    /\ UNCHANGED <<blocked, calls, pending, approved, denied, host, locals, known>>

\* Who holds a Notified future of this approval.
Listeners(r) == {q \in Requests : waits[q] = r /\ pc[q] \in {"check", "sleep"}}

\* Mutant: one waiter is notified.
notify_one(r) ==
    /\ pc[r] = "notify"
    /\ IF Listeners(r) = {}
       THEN UNCHANGED awake
       ELSE \E q \in Listeners(r) : awake' = [awake EXCEPT ![q] = TRUE]
    /\ Goto(r, "remove")
    /\ UNCHANGED <<blocked, calls, shared, host, waits, blame, verdict, why, known>>

notify_waiters(r) ==
    /\ pc[r] = "notify"
    /\ awake' = [q \in Requests |-> awake[q] \/ q \in Listeners(r)]
    /\ Goto(r, "remove")
    /\ UNCHANGED <<blocked, calls, shared, host, waits, blame, verdict, why, known>>

remove_pending(r) ==
    /\ pc[r] = "remove"
    /\ pending' = [pending EXCEPT ![host[r]] = NoRequest]
    /\ IF why[r] = "late"
       THEN Goto(r, "late")
       ELSE Goto(r, ToNetworkDecision(Resolved(r)))
    /\ EndLocals(r)
    /\ Miss(r)
    /\ UNCHANGED <<blocked, calls, decision, approved, denied, host>>

-----------------------------------------------------------------------------
(* record_outcome_for_single_active_call                                   *)

\* After a denial by policy, when the approval is already decided and removed.
resolve_late(r) ==
    /\ pc[r] = "late"
    /\ blame' = [blame EXCEPT ![r] = Single]
    /\ Goto(r, "late_record")
    /\ UNCHANGED <<calls, shared, blocked, host, waits, awake, verdict, why, known>>

record_late(r) ==
    /\ pc[r] = "late_record"
    /\ outcome' = IF blame[r] # NoCall THEN Recorded(blame[r], "policy") ELSE outcome
    /\ Goto(r, "deny")
    /\ EndLocals(r)
    /\ UNCHANGED <<active, call, shared, blocked, host, known>>

\* record_blocked_request, which the proxy calls for what it has denied, with or
\* without asking: one at a time, since all record the same.
record_blocked_request ==
    /\ blocked = NoCall
    /\ blocked' = Single
    /\ UNCHANGED <<calls, shared, pc, host, locals, known>>

record_blocked ==
    /\ blocked # NoCall
    /\ outcome' = Recorded(blocked, "policy")
    /\ blocked' = NoCall
    /\ UNCHANGED <<active, call, shared, pc, host, locals, known>>

\* The connection of the request goes away.  No await lies between the decision
\* and the notification.
drop_request(r) ==
    /\ pc[r] \notin {"new", "notify"} \cup Ended
    /\ Goto(r, "dropped")
    /\ EndLocals(r)
    /\ UNCHANGED <<blocked, calls, shared, host, known>>

-----------------------------------------------------------------------------
CallStep(c) ==
    \/ register_call(c)
    \/ take_call_outcome(c)
    \/ unregister_active(c)
    \/ unregister_outcome(c)
    \/ cancel_call(c)

WaiterStep(r) ==
    \/ listen(r)
    \/ check_decision(r)
    \/ wake(r)

OwnerStep(r) ==
    \/ policy_denies(r)
    \/ resolve_single_active_call(r)
    \/ answer(r)
    \/ record_call_outcome(r)
    \/ clear_opposite(r)
    \/ cache_decision(r)
    \/ set_decision(r)
    \/ notify_waiters(r)
    \/ remove_pending(r)
    \/ resolve_late(r)
    \/ record_late(r)

RequestStep(r) ==
    \/ request(r)
    \/ find_denied(r)
    \/ find_approved(r)
    \/ get_or_create_pending_approval(r)
    \/ WaiterStep(r)
    \/ OwnerStep(r)
    \/ drop_request(r)

Next ==
    \/ \E c \in Calls : CallStep(c)
    \/ \E r \in Requests : RequestStep(r)
    \/ record_blocked_request
    \/ record_blocked

Spec == Init /\ [][Next]_vars

-----------------------------------------------------------------------------
(* Properties                                                              *)

\* Every variable keeps its type (NetworkApprovalService and the locals of
\* handle_inline_policy_request).
Owning == {"policy?", "ask", "record", "clear", "cache", "set", "notify", "remove"}
Waiting == {"listen", "check", "sleep"}
TypeOK ==
    /\ active \subseteq Calls
    /\ outcome \in [Calls -> {"none", "user", "policy"}]
    /\ call \in [Calls -> {"new", "running", "taken", "unregistered", "over"}]
    /\ pending \in [Hosts -> Requests \cup {NoRequest}]
    /\ decision \in [Requests -> {"none", "once", "session", "deny"}]
    /\ approved \subseteq Hosts
    /\ denied \subseteq Hosts
    /\ blocked \in Calls \cup {NoCall}
    /\ pc \in [Requests -> {"new", "denied?", "approved?", "join", "late", "late_record"}
                               \cup Owning \cup Waiting \cup Ended]
    /\ host \in [Requests -> Hosts]
    /\ waits \in [Requests -> Requests \cup {NoRequest}]
    /\ awake \in [Requests -> BOOLEAN]
    /\ blame \in [Requests -> Calls \cup {NoCall}]
    /\ verdict \in [Requests -> {"none", "once", "session", "deny", "deny_session"}]
    /\ why \in [Requests -> {"none", "user", "policy", "late"}]
    /\ known \in [Requests -> {"none", "allow", "deny"}]

\* Requests to one host ask once at a time: whoever asks owns the pending
\* approval of its host, from its creation to its removal and across dropped
\* requests (get_or_create_pending_approval).
OneAsker == \A r \in Requests : pc[r] \in Owning => pending[host[r]] = r

\* No host is both approved and denied for the session, although the two caches
\* have locks of their own and change one after the other.
CachesDisjoint == approved \cap denied = {}

\* No request asks again about a decision of the session, or answers against it,
\* when the decision stood at its beginning or was cached while it looked, unless
\* it was withdrawn since.  handle_inline_policy_request looks at the denied, the
\* approved and the pending hosts under three locks; its owner fills the cache
\* before it removes the pending approval, so a request that has passed the cache
\* waits for the very owner that filled it.  One gap is left, where the request
\* asks again: it passes the cache before the decision is there, and joins when
\* the approval has been removed (Miss).
SessionDecisionHolds ==
    \A r \in Requests : known[r] # "none" =>
        /\ pc[r] \notin Owning
        /\ pc[r] \in {"allow", "deny"} => pc[r] = known[r]
        /\ pc[r] \in Waiting =>
              pc[waits[r]] \in {"set", "notify", "remove", "dropped", known[r]}

\* No waiter misses the notification: when the decision of its approval is set, a
\* sleeping waiter has been notified or is about to be (wait_for_decision
\* creates its Notified before it reads, set_decision notifies after it wrote).
NoLostWakeup ==
    \A r \in Requests : (pc[r] = "sleep" /\ decision[waits[r]] # "none") =>
        awake[r] \/ pc[waits[r]] = "notify"

\* Only the tool call itself removes the user's denial from its outcome; no later
\* denial by policy, late or from a blocked request, replaces it
\* (record_call_outcome).
UserDenialKept ==
    [][\A c \in Calls :
          (outcome[c] = "user" /\ outcome'[c] # "user") => call'[c] # call[c]]_vars
=============================================================================
