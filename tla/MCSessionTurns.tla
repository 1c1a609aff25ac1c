-------------------------- MODULE MCSessionTurns --------------------------
(***************************************************************************)
(* SessionTurns on small instances; the .cfg files choose which inputs the *)
(* outside world has.                                                      *)
(***************************************************************************)
EXTENDS SessionTurns

\* An ActiveTurn allocation matters only through who refers to it, and its
\* content only while someone does: states that differ in the names or in the
\* garbage of allocations are the same for every action and property.
Holders(o) == {th \in Threads : obj[th] = o}
Heap == {<<o = active, Holders(o), tasks[o], pend[o], phase[o], approvals[o]>> :
            o \in {o \in Objs : Live(o)}}
View == <<Heap, active = NoObj, queues, signals, params, log, env, pc, tgt, hand, victims,
          why>>
=============================================================================
