------------------------ MODULE NetworkApprovalsProofs ------------------------
(***************************************************************************)
(* Proofs of the safety properties of NetworkApprovals, for any number of   *)
(* hosts, requests and tool calls.                                          *)
(***************************************************************************)
EXTENDS NetworkApprovals, TLAPS

-----------------------------------------------------------------------------
(* The inductive invariant                                                 *)

\* An owner between its answer and the caches: what it records is not the late
\* outcome, and the cache it has cleared stays clear until it fills the other.
CacheOrder ==
    \A r \in Requests :
        /\ pc[r] \in {"record", "clear", "cache"} => why[r] # "late"
        /\ pc[r] = "clear" => verdict[r] \in {"session", "deny_session"}
        /\ pc[r] = "cache" =>
              \/ verdict[r] = "session" /\ host[r] \notin denied
              \/ verdict[r] = "deny_session" /\ host[r] \notin approved

\* A pending approval is decided when its owner says so, and not before.
DecidedLate ==
    \A r \in Requests :
        pc[r] \in (Owning \ {"notify", "remove"}) \cup {"new", "denied?", "approved?", "join"} =>
            decision[r] = "none"

\* What a pending approval is decided with when its owner made the session's
\* decision d.
DecisionFor(d) == IF d = "allow" THEN "session" ELSE "deny"

\* o has made the session's decision d and tells its waiters nothing else.
Tells(o, d) ==
    /\ pc[o] \in {"set", "notify", "remove"} =>
          why[o] # "late" /\ verdict[o] = (IF d = "allow" THEN "session" ELSE "deny_session")
    /\ pc[o] \in {"set", "notify", "remove", "dropped", d}
    /\ decision[o] \in {"none", DecisionFor(d)}

\* What a request can still meet of the session's decision it cannot miss.
KnownStands ==
    \A r \in Requests : known[r] # "none" =>
        /\ pc[r] \notin {"new", "late", "late_record"} \cup Owning
        /\ known[r] = "allow" => host[r] \in approved
        /\ known[r] = "deny" => host[r] \in denied
        /\ pc[r] \in {"allow", "deny"} => pc[r] = known[r]
        /\ PastLook(r) => pending[host[r]] \in Requests /\ Tells(pending[host[r]], known[r])
        /\ pc[r] \in Waiting => Tells(waits[r], known[r])

\* Who waits, waits for a request.
WaitsForOwner == \A r \in Requests : pc[r] \in Waiting => waits[r] \in Requests

Inv ==
    /\ TypeOK
    /\ OneAsker
    /\ WaitsForOwner
    /\ CacheOrder
    /\ DecidedLate
    /\ CachesDisjoint
    /\ KnownStands
    /\ NoLostWakeup

-----------------------------------------------------------------------------
(* Operators                                                               *)

LEMMA SingleType == Single \in Calls \cup {NoCall}
BY DEF Single

LEMMA RecordedType ==
    ASSUME outcome \in [Calls -> {"none", "user", "policy"}],
           NEW c \in Calls, NEW o \in {"user", "policy"}
    PROVE  Recorded(c, o) \in [Calls -> {"none", "user", "policy"}]
BY DEF Recorded

-----------------------------------------------------------------------------
(* Types                                                                   *)

LEMMA RequestTypes ==
    ASSUME TypeOK, CacheOrder, NEW r \in Requests, RequestStep(r)
    PROVE  TypeOK'
<1>1. CASE request(r)
  BY <1>1 DEF TypeOK, request, Goto, Standing, Owning, Waiting, Ended, calls, shared, locals
<1>2. CASE find_denied(r)
  BY <1>2 DEF TypeOK, find_denied, Goto, Owning, Waiting, Ended, calls, shared, locals
<1>3. CASE find_approved(r)
  BY <1>3 DEF TypeOK, find_approved, Goto, Owning, Waiting, Ended, calls, shared, locals
<1>4. CASE get_or_create_pending_approval(r)
  BY <1>4 DEF TypeOK, get_or_create_pending_approval, Goto, Owning, Waiting, Ended, calls, shared, locals
<1>5. CASE listen(r)
  BY <1>5 DEF TypeOK, listen, Goto, Owning, Waiting, Ended, calls, shared, locals
<1>6. CASE check_decision(r)
  <2>1. CASE decision[waits[r]] # "none"
    <3>1. ToNetworkDecision(decision[waits[r]]) \in Ended
      BY DEF ToNetworkDecision, Ended
    <3>2. Goto(r, ToNetworkDecision(decision[waits[r]])) /\ EndLocals(r)
      BY <1>6, <2>1 DEF check_decision
    <3>3. UNCHANGED <<blocked, calls, shared, host, known>>
      BY <1>6 DEF check_decision
    <3>q. QED
      BY <3>1, <3>2, <3>3 DEF TypeOK, Goto, EndLocals, calls, shared
  <2>2. CASE decision[waits[r]] = "none"
    BY <1>6, <2>2 DEF TypeOK, check_decision, Goto, Waiting, calls, shared, locals
  <2>q. QED
    BY <2>1, <2>2
<1>7. CASE wake(r)
  BY <1>7 DEF TypeOK, wake, Goto, Owning, Waiting, Ended, calls, shared, locals
<1>8. CASE policy_denies(r)
  BY <1>8 DEF TypeOK, policy_denies, Goto, Owning, Waiting, Ended, calls, shared, locals
<1>9. CASE resolve_single_active_call(r)
  BY <1>9, SingleType DEF TypeOK, resolve_single_active_call, Goto, Owning, Waiting, Ended, calls, shared, locals
<1>10. CASE answer(r)
  BY <1>10 DEF TypeOK, answer, Goto, Answers, Owning, Waiting, Ended, calls, shared, locals
<1>11. CASE record_call_outcome(r)
  <2>1. outcome' \in [Calls -> {"none", "user", "policy"}]
    <3>1. CASE why[r] # "none" /\ blame[r] # NoCall
      <4>1. why[r] \in {"user", "policy"} /\ blame[r] \in Calls
        BY <1>11, <3>1 DEF TypeOK, CacheOrder, record_call_outcome
      <4>q. QED
        BY <1>11, <3>1, <4>1, RecordedType DEF TypeOK, record_call_outcome
    <3>2. CASE ~(why[r] # "none" /\ blame[r] # NoCall)
      BY <1>11, <3>2 DEF TypeOK, record_call_outcome
    <3>q. QED
      BY <3>1, <3>2
  <2>q. QED
    BY <1>11, <2>1 DEF TypeOK, record_call_outcome, Goto, Owning, Waiting, Ended, shared, locals
<1>12. CASE clear_opposite(r)
  BY <1>12 DEF TypeOK, clear_opposite, Goto, Withdraw, Made, Owning, Waiting, Ended, calls, shared, locals
<1>13. CASE cache_decision(r)
  BY <1>13 DEF TypeOK, cache_decision, Goto, Learn, Made, Owning, Waiting, Ended, calls, shared, locals
<1>14. CASE set_decision(r)
  BY <1>14 DEF TypeOK, set_decision, Goto, Resolved, Owning, Waiting, Ended, calls, shared, locals
<1>15. CASE notify_waiters(r)
  BY <1>15 DEF TypeOK, notify_waiters, Goto, Listeners, Owning, Waiting, Ended, calls, shared, locals
<1>16. CASE remove_pending(r)
  BY <1>16 DEF TypeOK, remove_pending, Goto, EndLocals, Miss, ToNetworkDecision, Resolved, Owning, Waiting, Ended, calls, shared, locals
<1>17. CASE resolve_late(r)
  BY <1>17, SingleType DEF TypeOK, resolve_late, Goto, Owning, Waiting, Ended, calls, shared, locals
<1>18. CASE record_late(r)
  BY <1>18, RecordedType DEF TypeOK, record_late, Goto, EndLocals, Owning, Waiting, Ended, calls, shared, locals
<1>19. CASE drop_request(r)
  BY <1>19 DEF TypeOK, drop_request, Goto, EndLocals, Owning, Waiting, Ended, calls, shared, locals
<1>q. QED
  BY <1>1, <1>2, <1>3, <1>4, <1>5, <1>6, <1>7, <1>8, <1>9, <1>10, <1>11, <1>12, <1>13, <1>14, <1>15, <1>16, <1>17, <1>18, <1>19 DEF RequestStep, WaiterStep, OwnerStep

LEMMA OtherTypes ==
    ASSUME TypeOK
    PROVE  /\ \A c \in Calls : CallStep(c) => TypeOK'
           /\ record_blocked_request => TypeOK'
           /\ record_blocked => TypeOK'
<1>1. ASSUME NEW c \in Calls, CallStep(c) PROVE TypeOK'
  <2>1. CASE register_call(c)
    BY <2>1 DEF TypeOK, register_call, shared, locals
  <2>2. CASE take_call_outcome(c)
    BY <2>2 DEF TypeOK, take_call_outcome, shared, locals
  <2>3. CASE unregister_active(c)
    BY <2>3 DEF TypeOK, unregister_active, shared, locals
  <2>4. CASE unregister_outcome(c)
    BY <2>4 DEF TypeOK, unregister_outcome, shared, locals
  <2>5. CASE cancel_call(c)
    BY <2>5 DEF TypeOK, cancel_call, shared, locals
  <2>q. QED
    BY <1>1, <2>1, <2>2, <2>3, <2>4, <2>5 DEF CallStep
<1>2. CASE record_blocked_request
  BY <1>2, SingleType DEF TypeOK, record_blocked_request, calls, shared, locals
<1>3. CASE record_blocked
  BY <1>3, RecordedType DEF TypeOK, record_blocked, shared, locals
<1>q. QED
  BY <1>1, <1>2, <1>3

-----------------------------------------------------------------------------
(* Every step of a request preserves the invariant                         *)

LEMMA OneAskerStep ==
    ASSUME TypeOK, NamesAssumption, OneAsker, NEW r \in Requests, RequestStep(r)
    PROVE  OneAsker'
<1>1. CASE request(r)
  BY <1>1 DEF TypeOK, NamesAssumption, OneAsker, request, Goto, Standing, Owning, Waiting, Ended, calls, shared, locals
<1>2. CASE find_denied(r)
  BY <1>2 DEF TypeOK, NamesAssumption, OneAsker, find_denied, Goto, Owning, Waiting, Ended, calls, shared, locals
<1>3. CASE find_approved(r)
  BY <1>3 DEF TypeOK, NamesAssumption, OneAsker, find_approved, Goto, Owning, Waiting, Ended, calls, shared, locals
<1>4. CASE get_or_create_pending_approval(r)
  BY <1>4 DEF TypeOK, NamesAssumption, OneAsker, get_or_create_pending_approval, Goto, Owning, Waiting, Ended, calls, shared, locals
<1>5. CASE listen(r)
  BY <1>5 DEF TypeOK, NamesAssumption, OneAsker, listen, Goto, Owning, Waiting, Ended, calls, shared, locals
<1>6. CASE check_decision(r)
  BY <1>6 DEF TypeOK, NamesAssumption, OneAsker, check_decision, Goto, EndLocals, ToNetworkDecision, Owning, Waiting, Ended, calls, shared, locals
<1>7. CASE wake(r)
  BY <1>7 DEF TypeOK, NamesAssumption, OneAsker, wake, Goto, Owning, Waiting, Ended, calls, shared, locals
<1>8. CASE policy_denies(r)
  BY <1>8 DEF TypeOK, NamesAssumption, OneAsker, policy_denies, Goto, Owning, Waiting, Ended, calls, shared, locals
<1>9. CASE resolve_single_active_call(r)
  BY <1>9 DEF TypeOK, NamesAssumption, OneAsker, resolve_single_active_call, Goto, Owning, Waiting, Ended, calls, shared, locals
<1>10. CASE answer(r)
  BY <1>10 DEF TypeOK, NamesAssumption, OneAsker, answer, Goto, Answers, Owning, Waiting, Ended, calls, shared, locals
<1>11. CASE record_call_outcome(r)
  BY <1>11 DEF TypeOK, NamesAssumption, OneAsker, record_call_outcome, Goto, Owning, Waiting, Ended, calls, shared, locals
<1>12. CASE clear_opposite(r)
  BY <1>12 DEF TypeOK, NamesAssumption, OneAsker, clear_opposite, Goto, Withdraw, Made, Owning, Waiting, Ended, calls, shared, locals
<1>13. CASE cache_decision(r)
  BY <1>13 DEF TypeOK, NamesAssumption, OneAsker, cache_decision, Goto, Learn, Made, Owning, Waiting, Ended, calls, shared, locals
<1>14. CASE set_decision(r)
  BY <1>14 DEF TypeOK, NamesAssumption, OneAsker, set_decision, Goto, Resolved, Owning, Waiting, Ended, calls, shared, locals
<1>15. CASE notify_waiters(r)
  BY <1>15 DEF TypeOK, NamesAssumption, OneAsker, notify_waiters, Goto, Listeners, Owning, Waiting, Ended, calls, shared, locals
<1>16. CASE remove_pending(r)
  BY <1>16 DEF TypeOK, NamesAssumption, OneAsker, remove_pending, Goto, EndLocals, Miss, ToNetworkDecision, Resolved, Owning, Waiting, Ended, calls, shared, locals
<1>17. CASE resolve_late(r)
  BY <1>17 DEF TypeOK, NamesAssumption, OneAsker, resolve_late, Goto, Owning, Waiting, Ended, calls, shared, locals
<1>18. CASE record_late(r)
  BY <1>18 DEF TypeOK, NamesAssumption, OneAsker, record_late, Goto, EndLocals, Owning, Waiting, Ended, calls, shared, locals
<1>19. CASE drop_request(r)
  BY <1>19 DEF TypeOK, NamesAssumption, OneAsker, drop_request, Goto, EndLocals, Owning, Waiting, Ended, calls, shared, locals
<1>q. QED
  BY <1>1, <1>2, <1>3, <1>4, <1>5, <1>6, <1>7, <1>8, <1>9, <1>10, <1>11, <1>12, <1>13, <1>14, <1>15, <1>16, <1>17, <1>18, <1>19 DEF RequestStep, WaiterStep, OwnerStep

LEMMA CacheStep ==
    ASSUME TypeOK, OneAsker, CacheOrder, CachesDisjoint, NEW r \in Requests, RequestStep(r)
    PROVE  (CacheOrder /\ CachesDisjoint)'
<1>1. CASE request(r)
  BY <1>1 DEF TypeOK, OneAsker, CacheOrder, CachesDisjoint, request, Goto, Standing, Owning, Waiting, Ended, calls, shared, locals
<1>2. CASE find_denied(r)
  BY <1>2 DEF TypeOK, OneAsker, CacheOrder, CachesDisjoint, find_denied, Goto, Owning, Waiting, Ended, calls, shared, locals
<1>3. CASE find_approved(r)
  BY <1>3 DEF TypeOK, OneAsker, CacheOrder, CachesDisjoint, find_approved, Goto, Owning, Waiting, Ended, calls, shared, locals
<1>4. CASE get_or_create_pending_approval(r)
  BY <1>4 DEF TypeOK, OneAsker, CacheOrder, CachesDisjoint, get_or_create_pending_approval, Goto, Owning, Waiting, Ended, calls, shared, locals
<1>5. CASE listen(r)
  BY <1>5 DEF TypeOK, OneAsker, CacheOrder, CachesDisjoint, listen, Goto, Owning, Waiting, Ended, calls, shared, locals
<1>6. CASE check_decision(r)
  BY <1>6 DEF TypeOK, OneAsker, CacheOrder, CachesDisjoint, check_decision, Goto, EndLocals, ToNetworkDecision, Owning, Waiting, Ended, calls, shared, locals
<1>7. CASE wake(r)
  BY <1>7 DEF TypeOK, OneAsker, CacheOrder, CachesDisjoint, wake, Goto, Owning, Waiting, Ended, calls, shared, locals
<1>8. CASE policy_denies(r)
  BY <1>8 DEF TypeOK, OneAsker, CacheOrder, CachesDisjoint, policy_denies, Goto, Owning, Waiting, Ended, calls, shared, locals
<1>9. CASE resolve_single_active_call(r)
  BY <1>9 DEF TypeOK, OneAsker, CacheOrder, CachesDisjoint, resolve_single_active_call, Goto, Owning, Waiting, Ended, calls, shared, locals
<1>10. CASE answer(r)
  BY <1>10 DEF TypeOK, OneAsker, CacheOrder, CachesDisjoint, answer, Goto, Answers, Owning, Waiting, Ended, calls, shared, locals
<1>11. CASE record_call_outcome(r)
  BY <1>11 DEF TypeOK, OneAsker, CacheOrder, CachesDisjoint, record_call_outcome, Goto, Owning, Waiting, Ended, calls, shared, locals
<1>12. CASE clear_opposite(r)
  BY <1>12 DEF TypeOK, OneAsker, CacheOrder, CachesDisjoint, clear_opposite, Goto, Withdraw, Made, Owning, Waiting, Ended, calls, shared, locals
<1>13. CASE cache_decision(r)
  BY <1>13 DEF TypeOK, OneAsker, CacheOrder, CachesDisjoint, cache_decision, Goto, Learn, Made, Owning, Waiting, Ended, calls, shared, locals
<1>14. CASE set_decision(r)
  BY <1>14 DEF TypeOK, OneAsker, CacheOrder, CachesDisjoint, set_decision, Goto, Resolved, Owning, Waiting, Ended, calls, shared, locals
<1>15. CASE notify_waiters(r)
  BY <1>15 DEF TypeOK, OneAsker, CacheOrder, CachesDisjoint, notify_waiters, Goto, Listeners, Owning, Waiting, Ended, calls, shared, locals
<1>16. CASE remove_pending(r)
  BY <1>16 DEF TypeOK, OneAsker, CacheOrder, CachesDisjoint, remove_pending, Goto, EndLocals, Miss, ToNetworkDecision, Resolved, Owning, Waiting, Ended, calls, shared, locals
<1>17. CASE resolve_late(r)
  BY <1>17 DEF TypeOK, OneAsker, CacheOrder, CachesDisjoint, resolve_late, Goto, Owning, Waiting, Ended, calls, shared, locals
<1>18. CASE record_late(r)
  BY <1>18 DEF TypeOK, OneAsker, CacheOrder, CachesDisjoint, record_late, Goto, EndLocals, Owning, Waiting, Ended, calls, shared, locals
<1>19. CASE drop_request(r)
  BY <1>19 DEF TypeOK, OneAsker, CacheOrder, CachesDisjoint, drop_request, Goto, EndLocals, Owning, Waiting, Ended, calls, shared, locals
<1>q. QED
  BY <1>1, <1>2, <1>3, <1>4, <1>5, <1>6, <1>7, <1>8, <1>9, <1>10, <1>11, <1>12, <1>13, <1>14, <1>15, <1>16, <1>17, <1>18, <1>19 DEF RequestStep, WaiterStep, OwnerStep

LEMMA DecidedStep ==
    ASSUME TypeOK, DecidedLate, NEW r \in Requests, RequestStep(r)
    PROVE  DecidedLate'
<1>1. CASE request(r)
  BY <1>1 DEF TypeOK, DecidedLate, request, Goto, Standing, Owning, Waiting, Ended, calls, shared, locals
<1>2. CASE find_denied(r)
  BY <1>2 DEF TypeOK, DecidedLate, find_denied, Goto, Owning, Waiting, Ended, calls, shared, locals
<1>3. CASE find_approved(r)
  BY <1>3 DEF TypeOK, DecidedLate, find_approved, Goto, Owning, Waiting, Ended, calls, shared, locals
<1>4. CASE get_or_create_pending_approval(r)
  BY <1>4 DEF TypeOK, DecidedLate, get_or_create_pending_approval, Goto, Owning, Waiting, Ended, calls, shared, locals
<1>5. CASE listen(r)
  BY <1>5 DEF TypeOK, DecidedLate, listen, Goto, Owning, Waiting, Ended, calls, shared, locals
<1>6. CASE check_decision(r)
  BY <1>6 DEF TypeOK, DecidedLate, check_decision, Goto, EndLocals, ToNetworkDecision, Owning, Waiting, Ended, calls, shared, locals
<1>7. CASE wake(r)
  BY <1>7 DEF TypeOK, DecidedLate, wake, Goto, Owning, Waiting, Ended, calls, shared, locals
<1>8. CASE policy_denies(r)
  BY <1>8 DEF TypeOK, DecidedLate, policy_denies, Goto, Owning, Waiting, Ended, calls, shared, locals
<1>9. CASE resolve_single_active_call(r)
  BY <1>9 DEF TypeOK, DecidedLate, resolve_single_active_call, Goto, Owning, Waiting, Ended, calls, shared, locals
<1>10. CASE answer(r)
  BY <1>10 DEF TypeOK, DecidedLate, answer, Goto, Answers, Owning, Waiting, Ended, calls, shared, locals
<1>11. CASE record_call_outcome(r)
  BY <1>11 DEF TypeOK, DecidedLate, record_call_outcome, Goto, Owning, Waiting, Ended, calls, shared, locals
<1>12. CASE clear_opposite(r)
  BY <1>12 DEF TypeOK, DecidedLate, clear_opposite, Goto, Withdraw, Made, Owning, Waiting, Ended, calls, shared, locals
<1>13. CASE cache_decision(r)
  BY <1>13 DEF TypeOK, DecidedLate, cache_decision, Goto, Learn, Made, Owning, Waiting, Ended, calls, shared, locals
<1>14. CASE set_decision(r)
  BY <1>14 DEF TypeOK, DecidedLate, set_decision, Goto, Resolved, Owning, Waiting, Ended, calls, shared, locals
<1>15. CASE notify_waiters(r)
  BY <1>15 DEF TypeOK, DecidedLate, notify_waiters, Goto, Listeners, Owning, Waiting, Ended, calls, shared, locals
<1>16. CASE remove_pending(r)
  BY <1>16 DEF TypeOK, DecidedLate, remove_pending, Goto, EndLocals, Miss, ToNetworkDecision, Resolved, Owning, Waiting, Ended, calls, shared, locals
<1>17. CASE resolve_late(r)
  BY <1>17 DEF TypeOK, DecidedLate, resolve_late, Goto, Owning, Waiting, Ended, calls, shared, locals
<1>18. CASE record_late(r)
  BY <1>18 DEF TypeOK, DecidedLate, record_late, Goto, EndLocals, Owning, Waiting, Ended, calls, shared, locals
<1>19. CASE drop_request(r)
  BY <1>19 DEF TypeOK, DecidedLate, drop_request, Goto, EndLocals, Owning, Waiting, Ended, calls, shared, locals
<1>q. QED
  BY <1>1, <1>2, <1>3, <1>4, <1>5, <1>6, <1>7, <1>8, <1>9, <1>10, <1>11, <1>12, <1>13, <1>14, <1>15, <1>16, <1>17, <1>18, <1>19 DEF RequestStep, WaiterStep, OwnerStep

LEMMA KnownStep ==
    ASSUME TypeOK, NamesAssumption, OneAsker, WaitsForOwner, CacheOrder,
           DecidedLate, CachesDisjoint, KnownStands, NEW r \in Requests, RequestStep(r)
    PROVE  KnownStands'
<1> USE DEF TypeOK, NamesAssumption, OneAsker, WaitsForOwner, CacheOrder, DecidedLate,
            CachesDisjoint, KnownStands, PastLook, Tells, DecisionFor, Owning, Waiting,
            Ended, calls, shared, locals
<1>1. CASE request(r)
  BY <1>1 DEF request, Goto, Standing
<1>2. CASE find_denied(r)
  BY <1>2 DEF find_denied, Goto
<1>3. CASE find_approved(r)
  BY <1>3 DEF find_approved, Goto
<1>4. CASE get_or_create_pending_approval(r)
  BY <1>4 DEF get_or_create_pending_approval, Goto
<1>5. CASE listen(r)
  BY <1>5 DEF listen, Goto
<1>6. CASE check_decision(r)
  BY <1>6 DEF check_decision, Goto, EndLocals, ToNetworkDecision
<1>7. CASE wake(r)
  BY <1>7 DEF wake, Goto
<1>8. CASE policy_denies(r)
  BY <1>8 DEF policy_denies, Goto
<1>9. CASE resolve_single_active_call(r)
  BY <1>9 DEF resolve_single_active_call, Goto
<1>10. CASE answer(r)
  BY <1>10 DEF answer, Goto, Answers
<1>11. CASE record_call_outcome(r)
  BY <1>11 DEF record_call_outcome, Goto
<1>12. CASE clear_opposite(r)
  BY <1>12 DEF clear_opposite, Goto, Withdraw, Made
<1>13. CASE cache_decision(r)
  BY <1>13 DEF cache_decision, Goto, Learn, Made
<1>14. CASE set_decision(r)
  BY <1>14 DEF set_decision, Goto, Resolved
<1>15. CASE notify_waiters(r)
  BY <1>15 DEF notify_waiters, Goto, Listeners
<1>16. CASE remove_pending(r)
  BY <1>16 DEF remove_pending, Goto, EndLocals, Miss, ToNetworkDecision, Resolved
<1>17. CASE resolve_late(r)
  BY <1>17 DEF resolve_late, Goto
<1>18. CASE record_late(r)
  BY <1>18 DEF record_late, Goto, EndLocals
<1>19. CASE drop_request(r)
  BY <1>19 DEF drop_request, Goto, EndLocals
<1>q. QED
  BY <1>1, <1>2, <1>3, <1>4, <1>5, <1>6, <1>7, <1>8, <1>9, <1>10, <1>11, <1>12, <1>13, <1>14, <1>15, <1>16, <1>17, <1>18, <1>19 DEF RequestStep, WaiterStep, OwnerStep

LEMMA WakeStep ==
    ASSUME TypeOK, WaitsForOwner, NoLostWakeup, NEW r \in Requests, RequestStep(r)
    PROVE  (WaitsForOwner /\ NoLostWakeup)'
<1>1. CASE request(r)
  BY <1>1 DEF TypeOK, WaitsForOwner, NoLostWakeup, request, Goto, Standing, Owning, Waiting, Ended, calls, shared, locals
<1>2. CASE find_denied(r)
  BY <1>2 DEF TypeOK, WaitsForOwner, NoLostWakeup, find_denied, Goto, Owning, Waiting, Ended, calls, shared, locals
<1>3. CASE find_approved(r)
  BY <1>3 DEF TypeOK, WaitsForOwner, NoLostWakeup, find_approved, Goto, Owning, Waiting, Ended, calls, shared, locals
<1>4. CASE get_or_create_pending_approval(r)
  BY <1>4 DEF TypeOK, WaitsForOwner, NoLostWakeup, get_or_create_pending_approval, Goto, Owning, Waiting, Ended, calls, shared, locals
<1>5. CASE listen(r)
  BY <1>5 DEF TypeOK, WaitsForOwner, NoLostWakeup, listen, Goto, Owning, Waiting, Ended, calls, shared, locals
<1>6. CASE check_decision(r)
  BY <1>6 DEF TypeOK, WaitsForOwner, NoLostWakeup, check_decision, Goto, EndLocals, ToNetworkDecision, Owning, Waiting, Ended, calls, shared, locals
<1>7. CASE wake(r)
  BY <1>7 DEF TypeOK, WaitsForOwner, NoLostWakeup, wake, Goto, Owning, Waiting, Ended, calls, shared, locals
<1>8. CASE policy_denies(r)
  BY <1>8 DEF TypeOK, WaitsForOwner, NoLostWakeup, policy_denies, Goto, Owning, Waiting, Ended, calls, shared, locals
<1>9. CASE resolve_single_active_call(r)
  BY <1>9 DEF TypeOK, WaitsForOwner, NoLostWakeup, resolve_single_active_call, Goto, Owning, Waiting, Ended, calls, shared, locals
<1>10. CASE answer(r)
  BY <1>10 DEF TypeOK, WaitsForOwner, NoLostWakeup, answer, Goto, Answers, Owning, Waiting, Ended, calls, shared, locals
<1>11. CASE record_call_outcome(r)
  BY <1>11 DEF TypeOK, WaitsForOwner, NoLostWakeup, record_call_outcome, Goto, Owning, Waiting, Ended, calls, shared, locals
<1>12. CASE clear_opposite(r)
  BY <1>12 DEF TypeOK, WaitsForOwner, NoLostWakeup, clear_opposite, Goto, Withdraw, Made, Owning, Waiting, Ended, calls, shared, locals
<1>13. CASE cache_decision(r)
  BY <1>13 DEF TypeOK, WaitsForOwner, NoLostWakeup, cache_decision, Goto, Learn, Made, Owning, Waiting, Ended, calls, shared, locals
<1>14. CASE set_decision(r)
  BY <1>14 DEF TypeOK, WaitsForOwner, NoLostWakeup, set_decision, Goto, Resolved, Owning, Waiting, Ended, calls, shared, locals
<1>15. CASE notify_waiters(r)
  <2>1. /\ pc[r] = "notify" /\ UNCHANGED <<waits, decision>>
        /\ pc' = [pc EXCEPT ![r] = "remove"]
        /\ \A q \in Requests : awake'[q] = (awake[q] \/ q \in Listeners(r))
    BY <1>15 DEF notify_waiters, Goto, shared
  <2>2. WaitsForOwner'
    BY <2>1 DEF TypeOK, WaitsForOwner, Waiting
  <2>3. ASSUME NEW q \in Requests, pc'[q] = "sleep", decision'[waits'[q]] # "none"
        PROVE  awake'[q] \/ pc'[waits'[q]] = "notify"
    <3>1. pc[q] = "sleep" /\ decision[waits[q]] # "none"
      BY <2>1, <2>3 DEF TypeOK
    <3>2. CASE waits[q] = r
      BY <2>1, <3>1, <3>2 DEF Listeners
    <3>3. CASE waits[q] # r
      <4>1. pc'[waits[q]] = pc[waits[q]]
        BY <2>1, <3>1, <3>3 DEF TypeOK, WaitsForOwner, Waiting
      <4>2. awake[q] \/ pc[waits[q]] = "notify"
        BY <3>1 DEF NoLostWakeup
      <4> QED
        BY <2>1, <4>1, <4>2
    <3> QED
      BY <3>2, <3>3
  <2> QED
    BY <2>2, <2>3 DEF NoLostWakeup
<1>16. CASE remove_pending(r)
  BY <1>16 DEF TypeOK, WaitsForOwner, NoLostWakeup, remove_pending, Goto, EndLocals, Miss, ToNetworkDecision, Resolved, Owning, Waiting, Ended, calls, shared, locals
<1>17. CASE resolve_late(r)
  BY <1>17 DEF TypeOK, WaitsForOwner, NoLostWakeup, resolve_late, Goto, Owning, Waiting, Ended, calls, shared, locals
<1>18. CASE record_late(r)
  BY <1>18 DEF TypeOK, WaitsForOwner, NoLostWakeup, record_late, Goto, EndLocals, Owning, Waiting, Ended, calls, shared, locals
<1>19. CASE drop_request(r)
  BY <1>19 DEF TypeOK, WaitsForOwner, NoLostWakeup, drop_request, Goto, EndLocals, Owning, Waiting, Ended, calls, shared, locals
<1>q. QED
  BY <1>1, <1>2, <1>3, <1>4, <1>5, <1>6, <1>7, <1>8, <1>9, <1>10, <1>11, <1>12, <1>13, <1>14, <1>15, <1>16, <1>17, <1>18, <1>19 DEF RequestStep, WaiterStep, OwnerStep

\* The steps of calls and of the blocked requests' recorder leave all of this
\* alone.
LEMMA QuietInv ==
    ASSUME Inv, TypeOK', UNCHANGED <<shared, pc, host, waits, awake, verdict, why, known>>
    PROVE  Inv'
BY DEF Inv, OneAsker, WaitsForOwner, CacheOrder, DecidedLate, CachesDisjoint, KnownStands, PastLook, Tells, NoLostWakeup, shared

\* The invariant holds in every behaviour: TypeOK, one asker per host, disjoint
\* caches, the session's standing decisions and the waiters' notification, with
\* what an owner is about to write.
THEOREM InvHolds == Spec => []Inv
<1>1. Init => Inv
  BY DEF Init, Inv, TypeOK, OneAsker, WaitsForOwner, CacheOrder, DecidedLate, CachesDisjoint, KnownStands,
         PastLook, NoLostWakeup, Owning, Waiting, Ended
<1>2. Inv /\ [Next]_vars => Inv'
  <2> SUFFICES ASSUME Inv, [Next]_vars PROVE Inv'
    OBVIOUS
  <2>1. CASE \E r \in Requests : RequestStep(r)
    BY <2>1, NamesAssumption, RequestTypes, OneAskerStep, CacheStep, DecidedStep, KnownStep, WakeStep DEF Inv
  <2>2. CASE \E c \in Calls : CallStep(c)
    <3>1. TypeOK'
      BY <2>2, OtherTypes DEF Inv
    <3>2. UNCHANGED <<shared, pc, host, waits, awake, verdict, why, known>>
      BY <2>2 DEF CallStep, register_call, take_call_outcome, unregister_active,
                  unregister_outcome, cancel_call, locals
    <3>q. QED
      BY <3>1, <3>2, QuietInv
  <2>3. CASE record_blocked_request
    BY <2>3, OtherTypes, QuietInv DEF Inv, record_blocked_request, locals
  <2>4. CASE record_blocked
    BY <2>4, OtherTypes, QuietInv DEF Inv, record_blocked, locals
  <2>5. CASE UNCHANGED vars
    <3>1. TypeOK'
      BY <2>5 DEF Inv, TypeOK, vars, calls, shared, locals
    <3>q. QED
      BY <2>5, <3>1, QuietInv DEF vars, locals
  <2>q. QED
    BY <2>1, <2>2, <2>3, <2>4, <2>5 DEF Next
<1>q. QED
  BY <1>1, <1>2, PTL DEF Spec

-----------------------------------------------------------------------------
(* The properties                                                          *)

\* Every variable of the service and of its requests keeps its type.
THEOREM TypeOKHolds == Spec => []TypeOK
BY InvHolds, PTL DEF Inv

\* At most one request per host asks at a time, and it owns the pending approval
\* of get_or_create_pending_approval, whoever is dropped meanwhile.
THEOREM OneAskerHolds == Spec => []OneAsker
BY InvHolds, PTL DEF Inv

\* The two session caches of handle_inline_policy_request never share a host.
THEOREM CachesDisjointHolds == Spec => []CachesDisjoint
BY InvHolds, PTL DEF Inv

\* A session's decision that a request can still meet is its answer, and nobody is
\* asked again: it is in a cache that the request has not looked at, or in the
\* pending approval of the owner that filled it (handle_inline_policy_request).
THEOREM SessionDecisionStands == Spec => []SessionDecisionHolds
<1>1. Inv => SessionDecisionHolds
  BY DEF Inv, TypeOK, KnownStands, Tells, SessionDecisionHolds, Waiting, Ended
<1>q. QED
  BY <1>1, InvHolds, PTL

\* wait_for_decision never sleeps through the notification of set_decision.
THEOREM NoLostWakeupHolds == Spec => []NoLostWakeup
BY InvHolds, PTL DEF Inv

\* Only the call itself removes the user's denial from its outcome
\* (record_call_outcome keeps it against any later denial).
THEOREM UserDenialIsKept == Spec => UserDenialKept
<1> DEFINE Kept == \A c \in Calls :
                      (outcome[c] = "user" /\ outcome'[c] # "user") => call'[c] # call[c]
<1>1. Inv /\ Inv' /\ [Next]_vars => [Kept]_vars
  <2> SUFFICES ASSUME Inv, Next, NEW c \in Calls, outcome[c] = "user", outcome'[c] # "user"
               PROVE  call'[c] # call[c]
    BY DEF Kept
  <2>1. ASSUME NEW d \in Calls, CallStep(d) PROVE call'[c] # call[c]
    BY <2>1 DEF Inv, TypeOK, CallStep, register_call, take_call_outcome, unregister_active,
                unregister_outcome, cancel_call
  <2>2. ASSUME NEW d, NEW o PROVE Recorded(d, o)[c] = "user"
    BY DEF Inv, TypeOK, Recorded
  <2>3. ASSUME NEW r \in Requests, RequestStep(r) PROVE FALSE
    <3>1. UNCHANGED outcome \/ record_call_outcome(r) \/ record_late(r)
      BY <2>3 DEF RequestStep, WaiterStep, OwnerStep, request, find_denied, find_approved,
                  get_or_create_pending_approval, listen, check_decision, wake, policy_denies,
                  resolve_single_active_call, answer, clear_opposite, cache_decision,
                  set_decision, notify_waiters, remove_pending, resolve_late, drop_request, calls
    <3>q. QED
      BY <3>1, <2>2 DEF record_call_outcome, record_late
  <2>4. CASE record_blocked_request
    BY <2>4 DEF record_blocked_request, calls
  <2>5. CASE record_blocked
    BY <2>5, <2>2 DEF record_blocked
  <2>q. QED
    BY <2>1, <2>3, <2>4, <2>5 DEF Next
<1>q. QED
  BY <1>1, InvHolds, PTL DEF Spec, UserDenialKept
=============================================================================
