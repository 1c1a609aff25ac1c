-------------------------- MODULE MCAgentRegistry --------------------------
(***************************************************************************)
(* AgentRegistry on small instances.                                       *)
(***************************************************************************)
EXTENDS AgentRegistry, Sequences, TLC

\* The nicknames of the first three ordinals, spelled out.
Suffix == <<"", " the 2nd", " the 3rd">>
MCFormat == [r \in Ordinals |-> [m \in Names |-> m \o Suffix[r + 1]]]
MCNicks == UNION {{MCFormat[r][m] : m \in Names} : r \in Ordinals}

\* One default candidate for every role; and a role whose list holds it and the
\* name it reads as after a reset.
OneList == {{"Plato"}}
TwoLists == {{"Plato"}, {"Plato", "Plato the 2nd"}}

\* The calls are interchangeable.
Symmetry == Permutations(Callers)

\* States that differ in what no later step reads are the same: the locals of a
\* call after their last use, the parent of a thread that is gone, and `issued`
\* (read by NicknameRepeatsExplained alone).
Spawning == HoldingPcs \cup {"load", "cas"}
Shared == <<total, tree, used, resets, threads, dead, born, nickDb>>
CallLocals ==
    <<pc, agent, victims,
      [c \in Callers |-> IF pc[c] = "cas" THEN cur[c] ELSE 0],
      [c \in Callers |-> IF pc[c] \in {"create", "created"} THEN nick[c] ELSE NoNick],
      [c \in Callers |-> IF pc[c] \in Spawning THEN <<kind[c], path[c], from[c] = Root>>
                         ELSE <<>>]>>
View == <<Shared, CallLocals, [c \in Callers |-> IF pc[c] \in Spawning THEN from[c] ELSE Root],
          [a \in threads \ {Root} |-> parent[a]]>>

\* Without closes nobody asks whose child an agent is.
NamesView == <<Shared, CallLocals, issued>>
=============================================================================
