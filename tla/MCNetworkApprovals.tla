------------------------- MODULE MCNetworkApprovals -------------------------
(***************************************************************************)
(* NetworkApprovals on a small instance.                                   *)
(***************************************************************************)
EXTENDS NetworkApprovals, TLC

\* The requests and the calls are interchangeable.
Symmetry == Permutations(Requests) \cup Permutations(Calls)

\* States that differ in what no step and no property reads any more are the same.
\* Of an owner: the call and the reason once the outcome is recorded, and how its
\* decision was worded.  Of a waiter: the wake-up it has followed.  Of an ended
\* request: how it ended and what it decided when nobody finds or waits for its
\* approval, and what it knew unless it was answered otherwise.
Worded(d) == IF d = "none" THEN d ELSE ToNetworkDecision(d)
Read(r) ==
    \/ pc[r] \notin Ended
    \/ pending[host[r]] = r
    \/ \E q \in Requests : waits[q] = r
Answered(r) == pc[r] = "dropped" \/ (pc[r] \in Ended /\ known[r] \in {"none", pc[r]})
RequestView(r) ==
    <<IF Read(r) THEN pc[r] ELSE "over",
      IF Read(r) THEN Worded(decision[r]) ELSE "none",
      IF Answered(r) THEN "none" ELSE known[r],
      waits[r],
      awake[r] /\ pc[r] # "listen",
      IF pc[r] \in {"ask", "record", "late_record"} THEN blame[r] ELSE NoCall,
      IF pc[r] = "record" THEN why[r] ELSE IF why[r] = "late" THEN "late" ELSE "none",
      IF pc[r] \in {"set", "notify", "remove"} THEN Worded(Resolved(r)) ELSE verdict[r]>>
View == <<calls, blocked, pending, approved, denied, [r \in Requests |-> RequestView(r)]>>
=============================================================================
