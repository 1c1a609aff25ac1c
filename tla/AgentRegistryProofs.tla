------------------------ MODULE AgentRegistryProofs ------------------------
(***************************************************************************)
(* The slot count of AgentRegistry never wraps and agent_max_threads holds *)
(* for every number of concurrent calls, agents and paths.                 *)
(*                                                                         *)
(* SlotsCovered counts three sets; every step moves at most one call       *)
(* between program counters and changes at most one entry of the tree, so  *)
(* the counting is done once, in HoldersCount, ReleasersCount and          *)
(* RegisteredCount, and each action is then arithmetic.                    *)
(***************************************************************************)
EXTENDS AgentRegistry, FiniteSetTheorems, TLAPS

Spawning == HoldingPcs \cup {"load", "cas"}

\* What a call's locals hold at the program counters that use them.
CallsOK ==
    \A c \in Callers :
        /\ kind[c] = "resume" => pc[c] \in Spawning /\ agent[c] \in Agents
        /\ pc[c] = "created" => agent[c] \in Agents
        /\ pc[c] \in {"path", "drop_path"} => path[c] \in Paths
        /\ pc[c] = "ready" \/ kind[c] = "plain" => path[c] = NoPath

\* The root is registered under its own path only.
RootAtRootPath == \A k \in Keys : tree[k] = Root => k = RootPath

\* The count itself never exceeds the limit.
CountWithinLimit == Limited => total <= MaxThreads

SlotInv == TypeOK /\ CallsOK /\ RootAtRootPath /\ SlotsCovered /\ CountWithinLimit

-----------------------------------------------------------------------------
(* Counting.                                                               *)

\* One element more or less.
LEMMA CardMove ==
    ASSUME NEW S, IsFiniteSet(S), NEW x
    PROVE  /\ Cardinality(S) \in Nat
           /\ x \notin S => Cardinality(S \cup {x}) = Cardinality(S) + 1
           /\ x \in S => Cardinality(S \ {x}) = Cardinality(S) - 1
           /\ IsFiniteSet(S \cup {x}) /\ IsFiniteSet(S \ {x})
<1>1. Cardinality(S) \in Nat
  BY FS_CardinalityType
<1>2. IsFiniteSet(S \cup {x}) /\ (x \notin S => Cardinality(S \cup {x}) = Cardinality(S) + 1)
  BY FS_AddElement
<1>3. IsFiniteSet(S \ {x}) /\ (x \in S => Cardinality(S \ {x}) = Cardinality(S) - 1)
  BY FS_RemoveElement
<1> QED
  BY <1>1, <1>2, <1>3

\* The three sets that SlotsCovered counts are finite.
LEMMA CountedFinite ==
    /\ IsFiniteSet(Holders) /\ IsFiniteSet(Releasers) /\ IsFiniteSet(Registered)
    /\ Cardinality(Holders) \in Nat /\ Cardinality(Releasers) \in Nat
    /\ Cardinality(Registered) \in Nat
<1>1. IsFiniteSet(Callers) /\ IsFiniteSet(Keys)
  BY FiniteAssumption
<1>2. Holders \subseteq Callers /\ Releasers \subseteq Callers /\ Registered \subseteq Keys
  BY DEF Holders, Releasers, Registered
<1>3. IsFiniteSet(Holders) /\ IsFiniteSet(Releasers) /\ IsFiniteSet(Registered)
  BY <1>1, <1>2, FS_Subset
<1> QED
  BY <1>3, FS_CardinalityType

\* The same in the state after a step.
LEMMA CountedFiniteNext ==
    /\ Cardinality(Holders') \in Nat /\ Cardinality(Releasers') \in Nat
    /\ Cardinality(Registered') \in Nat
<1>1. IsFiniteSet(Callers) /\ IsFiniteSet(Keys)
  BY FiniteAssumption
<1>2. Holders' \subseteq Callers /\ Releasers' \subseteq Callers /\ Registered' \subseteq Keys
  BY DEF Holders, Releasers, Registered
<1>3. IsFiniteSet(Holders') /\ IsFiniteSet(Releasers') /\ IsFiniteSet(Registered')
  BY <1>1, <1>2, FS_Subset
<1> QED
  BY <1>3, FS_CardinalityType

Holds(label) == IF label \in HoldingPcs THEN 1 ELSE 0
Subtracts(label) == IF label = "sub" THEN 1 ELSE 0
Counts(id) == IF id \in Agents THEN 1 ELSE 0

\* A call that moves from one program counter to another.
LEMMA HoldersCount ==
    ASSUME NEW c \in Callers, NEW label, pc \in [Callers -> Pcs],
           pc' = [pc EXCEPT ![c] = label]
    PROVE  Cardinality(Holders') = Cardinality(Holders) - Holds(pc[c]) + Holds(label)
<1>1. IsFiniteSet(Holders) /\ Cardinality(Holders) \in Nat
  BY CountedFinite
<1>2. c \in Holders <=> pc[c] \in HoldingPcs
  BY DEF Holders
<1>3. CASE label \in HoldingPcs
  <2>1. Holders' = Holders \cup {c}
    BY <1>3 DEF Holders
  <2>2. CASE c \in Holders
    <3>1. Holders' = Holders
      BY <2>1, <2>2
    <3> QED
      BY <3>1, <1>1, <1>2, <1>3, <2>2 DEF Holds
  <2>3. CASE c \notin Holders
    <3>1. Cardinality(Holders') = Cardinality(Holders) + 1
      BY <2>1, <2>3, <1>1, CardMove
    <3> QED
      BY <3>1, <1>1, <1>2, <1>3, <2>3 DEF Holds
  <2> QED
    BY <2>2, <2>3
<1>4. CASE label \notin HoldingPcs
  <2>1. Holders' = Holders \ {c}
    BY <1>4 DEF Holders
  <2>2. CASE c \in Holders
    <3>1. Cardinality(Holders') = Cardinality(Holders) - 1
      BY <2>1, <2>2, <1>1, CardMove
    <3> QED
      BY <3>1, <1>1, <1>2, <1>4, <2>2 DEF Holds
  <2>3. CASE c \notin Holders
    <3>1. Holders' = Holders
      BY <2>1, <2>3
    <3> QED
      BY <3>1, <1>1, <1>2, <1>4, <2>3 DEF Holds
  <2> QED
    BY <2>2, <2>3
<1> QED
  BY <1>3, <1>4

\* The same for a call that is about to give a slot back.
LEMMA ReleasersCount ==
    ASSUME NEW c \in Callers, NEW label, pc \in [Callers -> Pcs],
           pc' = [pc EXCEPT ![c] = label]
    PROVE  Cardinality(Releasers') = Cardinality(Releasers) - Subtracts(pc[c]) + Subtracts(label)
<1>1. IsFiniteSet(Releasers) /\ Cardinality(Releasers) \in Nat
  BY CountedFinite
<1>2. c \in Releasers <=> pc[c] = "sub"
  BY DEF Releasers
<1>3. CASE label = "sub"
  <2>1. Releasers' = Releasers \cup {c}
    BY <1>3 DEF Releasers
  <2>2. CASE c \in Releasers
    <3>1. Releasers' = Releasers
      BY <2>1, <2>2
    <3> QED
      BY <3>1, <1>1, <1>2, <1>3, <2>2 DEF Subtracts
  <2>3. CASE c \notin Releasers
    <3>1. Cardinality(Releasers') = Cardinality(Releasers) + 1
      BY <2>1, <2>3, <1>1, CardMove
    <3> QED
      BY <3>1, <1>1, <1>2, <1>3, <2>3 DEF Subtracts
  <2> QED
    BY <2>2, <2>3
<1>4. CASE label # "sub"
  <2>1. Releasers' = Releasers \ {c}
    BY <1>4 DEF Releasers
  <2>2. CASE c \in Releasers
    <3>1. Cardinality(Releasers') = Cardinality(Releasers) - 1
      BY <2>1, <2>2, <1>1, CardMove
    <3> QED
      BY <3>1, <1>1, <1>2, <1>4, <2>2 DEF Subtracts
  <2>3. CASE c \notin Releasers
    <3>1. Releasers' = Releasers
      BY <2>1, <2>3
    <3> QED
      BY <3>1, <1>1, <1>2, <1>4, <2>3 DEF Subtracts
  <2> QED
    BY <2>2, <2>3
<1> QED
  BY <1>3, <1>4

\* An entry of the tree, other than the root's, that changes its agent.
LEMMA RegisteredCount ==
    ASSUME NEW k \in Keys \ {RootPath}, NEW id,
           tree \in [Keys -> Agents \cup {Root, Vacant, Reserved}],
           tree' = [tree EXCEPT ![k] = id]
    PROVE  Cardinality(Registered') = Cardinality(Registered) - Counts(tree[k]) + Counts(id)
<1>1. IsFiniteSet(Registered) /\ Cardinality(Registered) \in Nat
  BY CountedFinite
<1>2. k \in Registered <=> tree[k] \in Agents
  BY DEF Registered
<1>3. CASE id \in Agents
  <2>1. Registered' = Registered \cup {k}
    BY <1>3 DEF Registered
  <2>2. CASE k \in Registered
    <3>1. Registered' = Registered
      BY <2>1, <2>2
    <3> QED
      BY <3>1, <1>1, <1>2, <1>3, <2>2 DEF Counts
  <2>3. CASE k \notin Registered
    <3>1. Cardinality(Registered') = Cardinality(Registered) + 1
      BY <2>1, <2>3, <1>1, CardMove
    <3> QED
      BY <3>1, <1>1, <1>2, <1>3, <2>3 DEF Counts
  <2> QED
    BY <2>2, <2>3
<1>4. CASE id \notin Agents
  <2>1. Registered' = Registered \ {k}
    BY <1>4 DEF Registered
  <2>2. CASE k \in Registered
    <3>1. Cardinality(Registered') = Cardinality(Registered) - 1
      BY <2>1, <2>2, <1>1, CardMove
    <3> QED
      BY <3>1, <1>1, <1>2, <1>4, <2>2 DEF Counts
  <2>3. CASE k \notin Registered
    <3>1. Registered' = Registered
      BY <2>1, <2>3
    <3> QED
      BY <3>1, <1>1, <1>2, <1>4, <2>3 DEF Counts
  <2> QED
    BY <2>2, <2>3
<1> QED
  BY <1>3, <1>4

-----------------------------------------------------------------------------
(* Types and locals.                                                       *)

\* The types of a call's locals.
LocalsOK ==
    /\ pc \in [Callers -> Pcs]
    /\ kind \in [Callers -> {"none", "spawn", "plain", "resume"}]
    /\ agent \in [Callers -> Agents \cup {Root, NoAgent}]
    /\ path \in [Callers -> Paths \cup {NoPath}]
    /\ from \in [Callers -> Agents \cup {Root, NoAgent}]
    /\ cur \in [Callers -> Nat]
    /\ nick \in [Callers -> Nicks \cup {NoNick}]
    /\ victims \in [Callers -> SUBSET (Agents \cup {Root})]

\* A call that returns, and one that only moves, keep them.
LEMMA ReturnShape == ASSUME ShapeOK, NEW c \in Callers, Return(c) PROVE LocalsOK'
BY DEF LocalsOK, ShapeOK, Return, Goto, Pcs

\* The label of a move is a program counter.
LEMMA GotoShape ==
    ASSUME ShapeOK, NEW c \in Callers, NEW label \in Pcs, Goto(c, label), UNCHANGED locals
    PROVE  LocalsOK'
BY DEF LocalsOK, ShapeOK, Goto, locals

\* So does shutdown_agent_tree, whether it returns or goes on with a descendant.
LEMMA NextVictimShape ==
    ASSUME ShapeOK, NEW c \in Callers, NextVictim(c) PROVE LocalsOK'
<1>1. CASE Return(c)
  BY <1>1, ReturnShape
<1>2. ASSUME NEW v \in victims[c],
             agent' = [agent EXCEPT ![c] = v],
             victims' = [victims EXCEPT ![c] = @ \ {v}],
             pc' = [pc EXCEPT ![c] = "stop_child"],
             UNCHANGED <<kind, path, from, cur, nick>>
      PROVE  LocalsOK'
  <2>1. v \in Agents \cup {Root}
    BY DEF ShapeOK
  <2>2. agent' \in [Callers -> Agents \cup {Root, NoAgent}]
    BY <1>2, <2>1 DEF ShapeOK
  <2>3. victims' \in [Callers -> SUBSET (Agents \cup {Root})]
    BY <1>2 DEF ShapeOK
  <2>4. pc' \in [Callers -> Pcs]
    BY <1>2 DEF ShapeOK, Pcs
  <2> QED
    BY <1>2, <2>2, <2>3, <2>4 DEF LocalsOK, ShapeOK
<1> QED
  BY <1>1, <1>2 DEF NextVictim, Goto

\* Every effect of the calls on the types, action by action.
LEMMA ShapeNext == SlotInv /\ [Next]_vars => ShapeOK' /\ total' \in Int
<1> SUFFICES ASSUME SlotInv, [Next]_vars PROVE ShapeOK' /\ total' \in Int
  OBVIOUS
<1> USE IdsAssumption, LimitsAssumption
<1>t. TypeOK /\ CallsOK
  BY DEF SlotInv
<1> HIDE DEF Keys
<1>1. ASSUME NEW c \in Callers, Call(c) PROVE ShapeOK' /\ total' \in Int
  <2>1. CASE \E p \in Paths \cup {NoPath}, a \in Parents : SpawnAgent(c, p, a)
    BY <2>1, <1>t DEF SpawnAgent, Parents, TypeOK, ShapeOK, Goto, registry, world, Pcs
  <2>2. CASE SpawnPlain(c)
    BY <2>2, <1>t DEF SpawnPlain, TypeOK, ShapeOK, Goto, registry, world, Pcs
  <2>3. CASE \E a \in Agents, b \in Parents : ResumeAgent(c, a, b)
    BY <2>3, <1>t DEF ResumeAgent, Parents, TypeOK, ShapeOK, Goto, registry, world, Pcs
  <2>4. CASE \E a \in Agents : SendInput(c, a) \/ ShutdownLiveAgent(c, a)
    BY <2>4, <1>t DEF SendInput, ShutdownLiveAgent, TypeOK, ShapeOK, Goto, registry, world, Pcs
  <2>5. CASE \E a \in Agents \cup {Root} : CloseAgent(c, a)
    <3>1. PICK a \in Agents \cup {Root} : CloseAgent(c, a)
      BY <2>5
    <3>2. Descendants(a) \subseteq threads
      BY DEF Descendants
    <3> QED
      BY <3>1, <3>2, <1>t DEF CloseAgent, TypeOK, ShapeOK, Goto, registry, world, Pcs
  <2> QED
    BY <1>1, <2>1, <2>2, <2>3, <2>4, <2>5 DEF Call
<1>2. ASSUME NEW c \in Callers, Reserve(c) PROVE ShapeOK' /\ total' \in Int
  <2>1. CASE LoadCount(c)
    BY <2>1, <1>t DEF LoadCount, TypeOK, ShapeOK, Goto, registry, world, Pcs
  <2>2. CASE LimitReached(c)
    <3>1. LocalsOK'
      BY <2>2, <1>t, ReturnShape DEF LimitReached, TypeOK
    <3> QED
      BY <2>2, <3>1, <1>t DEF LimitReached, LocalsOK, TypeOK, ShapeOK, registry, world
  <2>3. CASE CompareExchange(c)
    <3>1. total' \in Int /\ pc' \in [Callers -> Pcs] /\ cur' \in [Callers -> Nat]
      <4>1. /\ total \in Nat /\ pc \in [Callers -> Pcs] /\ cur \in [Callers -> Nat]
            /\ "prepare" \in Pcs
        BY <1>t DEF TypeOK, ShapeOK, Pcs, HoldingPcs
      <4> QED
        BY <2>3, <4>1 DEF CompareExchange, Goto
    <3>2. UNCHANGED <<tree, used, resets, issued, world, kind, agent, path, from, nick, victims>>
      BY <2>3 DEF CompareExchange
    <3> QED
      BY <3>1, <3>2, <1>t DEF TypeOK, ShapeOK, world
  <2>4. CASE FetchAdd(c)
    BY <2>4, <1>t DEF FetchAdd, TypeOK, ShapeOK, Goto, world, locals, Pcs, HoldingPcs
  <2>5. CASE Prepare(c)
    BY <2>5, <1>t DEF Prepare, TypeOK, ShapeOK, Goto, registry, world, locals, Pcs, HoldingPcs
  <2>6. CASE RegisterRoot(c)
    BY <2>6, <1>t DEF RegisterRoot, TypeOK, ShapeOK, Goto, world, locals, Pcs, HoldingPcs, Keys
  <2>7. CASE ReservePath(c)
    <3>1. tree' \in [Keys -> Agents \cup {Root, Vacant, Reserved}] /\ pc' \in [Callers -> Pcs]
      BY <2>7, <1>t DEF ReservePath, TypeOK, ShapeOK, Goto, Pcs, HoldingPcs, Keys
    <3>2. UNCHANGED <<total, used, resets, issued, world, locals>>
      BY <2>7 DEF ReservePath
    <3> QED
      BY <3>1, <3>2, <1>t DEF TypeOK, ShapeOK, world, locals
  <2>8. CASE PreferredNickname(c)
    BY <2>8, <1>t DEF PreferredNickname, CallsOK, TypeOK, ShapeOK, Goto, world, Pcs, HoldingPcs
  <2>9. CASE NextNickname(c)
    <3>1. PICK names \in CandidateLists, n \in Nicks :
            /\ \/ n \in Available(names) /\ used' = used \cup {n} /\ UNCHANGED resets
               \/ /\ Available(names) = {} /\ resets < MaxResets
                  /\ resets' = resets + 1
                  /\ n \in {Format[resets'][m] : m \in names}
                  /\ used' = {n}
            /\ nick' = [nick EXCEPT ![c] = n]
            /\ issued' = [issued EXCEPT ![resets'][n] = @ + 1]
      BY <2>9 DEF NextNickname
    <3>2. resets' \in Ordinals /\ used' \subseteq Nicks
      BY <3>1, <1>t DEF TypeOK, ShapeOK, Ordinals
    <3>3. issued' \in [Ordinals -> [Nicks -> Nat]]
      BY <3>1, <3>2, <1>t DEF TypeOK, ShapeOK
    <3> QED
      BY <2>9, <3>1, <3>2, <3>3, <1>t
         DEF NextNickname, TypeOK, ShapeOK, Goto, world, Pcs, HoldingPcs
  <2> QED
    BY <1>2, <2>1, <2>2, <2>3, <2>4, <2>5, <2>6, <2>7, <2>8, <2>9 DEF Reserve
<1>3. ASSUME NEW c \in Callers, Finalize(c) PROVE ShapeOK' /\ total' \in Int
  <2>1. CASE CreateThread(c)
    BY <2>1, <1>t DEF CreateThread, CallsOK, TypeOK, ShapeOK, Goto, registry, Pcs, HoldingPcs
  <2>2. CASE CreateFails(c)
    BY <2>2, <1>t DEF CreateFails, DropLabel, TypeOK, ShapeOK, Goto, registry, world, locals,
                      Pcs, HoldingPcs
  <2>3. CASE Commit(c)
    <3>1. agent[c] \in Agents /\ (path[c] # NoPath => path[c] \in Paths)
      BY <2>3, <1>t DEF Commit, CallsOK, TypeOK, ShapeOK
    <3>2. tree' \in [Keys -> Agents \cup {Root, Vacant, Reserved}]
      BY <2>3, <3>1, <1>t DEF Commit, TypeOK, ShapeOK, Keys
    <3>3. used' \subseteq Nicks
      BY <2>3, <1>t DEF Commit, TypeOK, ShapeOK
    <3>4. LocalsOK'
      BY <2>3, <1>t, ReturnShape, GotoShape DEF Commit, TypeOK, Pcs
    <3>5. UNCHANGED <<total, resets, issued, world>>
      BY <2>3 DEF Commit
    <3> QED
      BY <3>2, <3>3, <3>4, <3>5, <1>t DEF LocalsOK, TypeOK, ShapeOK, world
  <2>4. CASE Send(c)
    <3>1. LocalsOK'
      BY <2>4, <1>t, ReturnShape, GotoShape DEF Send, TypeOK, Pcs
    <3> QED
      BY <2>4, <3>1, <1>t DEF Send, LocalsOK, TypeOK, ShapeOK, registry, world
  <2>5. CASE DropPath(c)
    BY <2>5, <1>t DEF DropPath, CallsOK, TypeOK, ShapeOK, Goto, world, locals, Pcs, HoldingPcs, Keys
  <2>6. CASE DropSlot(c)
    <3>1. LocalsOK'
      BY <2>6, <1>t, ReturnShape DEF DropSlot, TypeOK
    <3> QED
      BY <2>6, <3>1, <1>t DEF DropSlot, LocalsOK, TypeOK, ShapeOK, world
  <2> QED
    BY <1>3, <2>1, <2>2, <2>3, <2>4, <2>5, <2>6 DEF Finalize
<1>4. ASSUME NEW c \in Callers, Close(c) PROVE ShapeOK' /\ total' \in Int
  <2>1. CASE Stop(c)
    BY <2>1, <1>t DEF Stop, TypeOK, ShapeOK, Goto, registry, world, locals, Pcs
  <2>2. CASE FlushFails(c)
    <3>1. LocalsOK'
      BY <2>2, <1>t, ReturnShape, NextVictimShape DEF FlushFails, TypeOK
    <3> QED
      BY <2>2, <3>1, <1>t DEF FlushFails, LocalsOK, TypeOK, ShapeOK, registry, world
  <2>3. CASE RemoveThread(c)
    BY <2>3, <1>t DEF RemoveThread, TypeOK, ShapeOK, Goto, registry, locals, Pcs
  <2>4. CASE ReleaseSpawned(c)
    <3>1. tree' \in [Keys -> Agents \cup {Root, Vacant, Reserved}]
      BY <2>4, <1>t DEF ReleaseSpawned, TypeOK, ShapeOK
    <3>2. UNCHANGED <<total, used, resets, issued, world>>
      BY <2>4 DEF ReleaseSpawned
    <3>3. CASE NextVictim(c)
      <4>1. LocalsOK'
        BY <3>3, <1>t, NextVictimShape DEF TypeOK
      <4> QED
        BY <3>1, <3>2, <4>1, <1>t DEF LocalsOK, TypeOK, ShapeOK, world
    <3>4. CASE Goto(c, "sub") /\ UNCHANGED locals
      BY <3>1, <3>2, <3>4, <1>t DEF TypeOK, ShapeOK, Goto, world, locals, Pcs
    <3> QED
      BY <2>4, <3>3, <3>4 DEF ReleaseSpawned
  <2>5. CASE ReleaseSlot(c)
    <3>1. LocalsOK'
      BY <2>5, <1>t, NextVictimShape DEF ReleaseSlot, TypeOK
    <3> QED
      BY <2>5, <3>1, <1>t DEF ReleaseSlot, LocalsOK, TypeOK, ShapeOK, world
  <2> QED
    BY <1>4, <2>1, <2>2, <2>3, <2>4, <2>5 DEF Close
<1>5. ASSUME NEW c \in Callers, Cancel(c) PROVE ShapeOK' /\ total' \in Int
  <2>1. LocalsOK'
    <3>1. DropLabel(c) \in Pcs /\ "drop_sub" \in Pcs
      BY DEF DropLabel, Pcs, HoldingPcs
    <3> QED
      BY <1>5, <3>1, <1>t, ReturnShape, GotoShape DEF Cancel, TypeOK
  <2> QED
    BY <1>5, <2>1, <1>t DEF Cancel, LocalsOK, TypeOK, ShapeOK, registry, world
<1>6. ASSUME NEW a \in Agents, AgentDies(a) PROVE ShapeOK' /\ total' \in Int
  BY <1>6, <1>t DEF AgentDies, TypeOK, ShapeOK, registry, locals
<1>7. CASE UNCHANGED vars
  BY <1>7, <1>t DEF TypeOK, ShapeOK, vars, registry, world, locals
<1> QED
  BY <1>1, <1>2, <1>3, <1>4, <1>5, <1>6, <1>7 DEF Next

\* What a call's locals hold is kept by its own steps; others leave it alone.
LEMMA CallsNext == SlotInv /\ [Next]_vars => CallsOK'
<1> SUFFICES ASSUME SlotInv, [Next]_vars PROVE CallsOK'
  OBVIOUS
<1> USE IdsAssumption
<1>t. ShapeOK /\ CallsOK
  BY DEF SlotInv, TypeOK
<1>1. ASSUME NEW c \in Callers, Call(c) PROVE CallsOK'
  BY <1>1, <1>t DEF Call, SpawnAgent, SpawnPlain, ResumeAgent, SendInput, ShutdownLiveAgent,
                    CloseAgent, CallsOK, ShapeOK, Goto, Spawning, HoldingPcs
<1>2. ASSUME NEW c \in Callers, Reserve(c) PROVE CallsOK'
  <2>1. CASE LoadCount(c) \/ CompareExchange(c) \/ FetchAdd(c)
    BY <2>1, <1>t DEF LoadCount, CompareExchange, FetchAdd, locals, CallsOK, ShapeOK, Goto,
                      Spawning, HoldingPcs
  <2>2. CASE LimitReached(c)
    BY <2>2, <1>t DEF LimitReached, Return, CallsOK, ShapeOK, Goto
  <2>3. CASE Prepare(c) \/ RegisterRoot(c) \/ ReservePath(c)
    BY <2>3, <1>t DEF Prepare, RegisterRoot, ReservePath, locals, CallsOK, ShapeOK, Goto,
                      Spawning, HoldingPcs
  <2>4. CASE PreferredNickname(c) \/ NextNickname(c)
    BY <2>4, <1>t DEF PreferredNickname, NextNickname, CallsOK, ShapeOK, Goto, Spawning,
                      HoldingPcs
  <2> QED
    BY <1>2, <2>1, <2>2, <2>3, <2>4 DEF Reserve
<1>3. ASSUME NEW c \in Callers, Finalize(c) PROVE CallsOK'
  <2>1. CASE CreateThread(c)
    BY <2>1, <1>t DEF CreateThread, CallsOK, ShapeOK, Goto, Spawning, HoldingPcs
  <2>2. CASE CreateFails(c) \/ DropPath(c)
    BY <2>2, <1>t DEF CreateFails, DropPath, DropLabel, locals, CallsOK, ShapeOK, Goto,
                      Spawning, HoldingPcs
  <2>3. CASE Commit(c)
    BY <2>3, <1>t DEF Commit, Return, locals, CallsOK, ShapeOK, Goto
  <2>4. CASE Send(c) \/ DropSlot(c)
    BY <2>4, <1>t DEF Send, DropSlot, Return, locals, CallsOK, ShapeOK, Goto, Spawning,
                      HoldingPcs
  <2> QED
    BY <1>3, <2>1, <2>2, <2>3, <2>4 DEF Finalize
<1>4. ASSUME NEW c \in Callers, Close(c) PROVE CallsOK'
  BY <1>4, <1>t DEF Close, Stop, FlushFails, RemoveThread, ReleaseSpawned, ReleaseSlot,
                    NextVictim, Return, locals, CallsOK, ShapeOK, Goto, Spawning, HoldingPcs
<1>5. ASSUME NEW c \in Callers, Cancel(c) PROVE CallsOK'
  BY <1>5, <1>t DEF Cancel, DropLabel, Return, locals, CallsOK, ShapeOK, Goto, Spawning,
                    HoldingPcs
<1>6. ASSUME NEW a \in Agents, AgentDies(a) PROVE CallsOK'
  BY <1>6, <1>t DEF AgentDies, locals, CallsOK
<1>7. CASE UNCHANGED vars
  BY <1>7, <1>t DEF vars, locals, CallsOK
<1> QED
  BY <1>1, <1>2, <1>3, <1>4, <1>5, <1>6, <1>7 DEF Next

-----------------------------------------------------------------------------
(* Slots.                                                                  *)

SlotsOK == RootAtRootPath /\ SlotsCovered /\ CountWithinLimit

\* A step that neither opens nor closes a reservation, nor touches the tree.
LEMMA QuietSlots ==
    ASSUME SlotInv, NEW c \in Callers, NEW label,
           pc' = [pc EXCEPT ![c] = label], total' = total, tree' = tree,
           Holds(label) = Holds(pc[c]), Subtracts(label) = Subtracts(pc[c])
    PROVE  SlotsOK'
<1>1. pc \in [Callers -> Pcs]
  BY DEF SlotInv, TypeOK, ShapeOK
<1>2. Cardinality(Holders') = Cardinality(Holders)
  <2>1. Cardinality(Holders') = Cardinality(Holders) - Holds(pc[c]) + Holds(label)
    BY <1>1, HoldersCount
  <2>2. Holds(label) \in Int
    BY DEF Holds
  <2> QED
    BY <2>1, <2>2, CountedFinite
<1>3. Cardinality(Releasers') = Cardinality(Releasers)
  <2>1. Cardinality(Releasers') = Cardinality(Releasers) - Subtracts(pc[c]) + Subtracts(label)
    BY <1>1, ReleasersCount
  <2>2. Subtracts(label) \in Int
    BY DEF Subtracts
  <2> QED
    BY <2>1, <2>2, CountedFinite
<1>4. Registered' = Registered
  BY DEF Registered
<1> QED
  BY <1>2, <1>3, <1>4 DEF SlotsOK, SlotInv, RootAtRootPath, SlotsCovered, CountWithinLimit

\* The arithmetic of a step that moves a call: the count grows at least as
\* much as what it has to cover.
Need(label) == Holds(label) + Subtracts(label)
Pays(c, label) ==
    /\ pc' = [pc EXCEPT ![c] = label] /\ total' \in Int
    /\ total' - Cardinality(Registered') >=
           (total - Cardinality(Registered)) + (Need(label) - Need(pc[c]))

\* A step that pays for what it moves keeps the slots covered.
LEMMA MoveSlots ==
    ASSUME SlotInv, NEW c \in Callers, NEW label, Pays(c, label)
    PROVE  SlotsCovered'
<1> USE DEF Pays
<1>1. pc \in [Callers -> Pcs] /\ total \in Int /\ SlotsCovered
  BY DEF SlotInv, TypeOK, ShapeOK
<1>2. Cardinality(Holders') = Cardinality(Holders) - Holds(pc[c]) + Holds(label)
  BY <1>1, HoldersCount
<1>3. Cardinality(Releasers') = Cardinality(Releasers) - Subtracts(pc[c]) + Subtracts(label)
  BY <1>1, ReleasersCount
<1>4. /\ Holds(label) \in Int /\ Holds(pc[c]) \in Int
      /\ Subtracts(label) \in Int /\ Subtracts(pc[c]) \in Int
  BY DEF Holds, Subtracts
<1>5. /\ Cardinality(Holders) \in Int /\ Cardinality(Releasers) \in Int
      /\ Cardinality(Registered) \in Int /\ Cardinality(Registered') \in Int
  BY CountedFinite, CountedFiniteNext
<1> QED
  BY <1>1, <1>2, <1>3, <1>4, <1>5 DEF SlotsCovered, Need

\* The next descendant: the call is neither a holder nor a releaser after it.
LEMMA NextVictimMoves ==
    ASSUME NEW c \in Callers, NextVictim(c)
    PROVE  \E label \in {"ready", "stop_child"} : pc' = [pc EXCEPT ![c] = label]
BY DEF NextVictim, Return, Goto

\* A call that begins holds no slot yet.
LEMMA CallSlots == ASSUME SlotInv, NEW c \in Callers, Call(c) PROVE SlotsOK'
<1>1. /\ pc[c] = "ready" /\ total' = total /\ tree' = tree
      /\ \E label \in {"load", "send", "stop"} : pc' = [pc EXCEPT ![c] = label]
  BY DEF Call, SpawnAgent, SpawnPlain, ResumeAgent, SendInput, ShutdownLiveAgent, CloseAgent,
         registry, Goto
<1> QED
  BY <1>1, QuietSlots DEF Holds, Subtracts, HoldingPcs

\* try_increment_spawned takes the slot in the step that opens the
\* reservation; the rest of prepare_thread_spawn keeps it.
LEMMA ReserveSlots == ASSUME SlotInv, NEW c \in Callers, Reserve(c) PROVE SlotsOK'
<1> USE IdsAssumption, LimitsAssumption
<1>t. ShapeOK /\ CallsOK /\ total \in Nat /\ RootAtRootPath /\ CountWithinLimit
  BY DEF SlotInv, TypeOK
<1>1. CASE LoadCount(c) \/ LimitReached(c)
  <2>1. /\ pc[c] \in {"load", "cas"} /\ total' = total /\ tree' = tree
        /\ \E label \in {"cas", "ready"} : pc' = [pc EXCEPT ![c] = label]
    BY <1>1 DEF LoadCount, LimitReached, Return, registry, Goto
  <2> QED
    BY <2>1, QuietSlots DEF Holds, Subtracts, HoldingPcs
<1>2. CASE (CompareExchange(c) /\ total' # total) \/ FetchAdd(c)
  <2>1. /\ pc[c] \in {"load", "cas"} /\ total' = total + 1 /\ tree' = tree
        /\ pc' = [pc EXCEPT ![c] = "prepare"]
        /\ Limited => total < MaxThreads
    BY <1>2, <1>t DEF CompareExchange, FetchAdd, Goto
  <2>2. Registered' = Registered
    BY <2>1 DEF Registered
  <2>3. Pays(c, "prepare")
    BY <2>1, <2>2, <1>t, CountedFinite DEF Pays, Need, Holds, Subtracts, HoldingPcs
  <2>4. SlotsCovered'
    BY <2>3, MoveSlots
  <2> QED
    BY <2>1, <2>4, <1>t DEF SlotsOK, RootAtRootPath, CountWithinLimit
<1>3. CASE CompareExchange(c) /\ total' = total
  <2>1. tree' = tree /\ pc' = [pc EXCEPT ![c] = pc[c]]
    BY <1>3, <1>t DEF CompareExchange, ShapeOK
  <2> QED
    BY <1>3, <2>1, QuietSlots
<1>4. CASE Prepare(c) \/ PreferredNickname(c) \/ NextNickname(c)
  <2>1. /\ pc[c] \in HoldingPcs /\ total' = total /\ tree' = tree
        /\ \E label \in HoldingPcs : pc' = [pc EXCEPT ![c] = label]
    BY <1>4 DEF Prepare, PreferredNickname, NextNickname, registry, Goto, HoldingPcs
  <2> QED
    BY <2>1, QuietSlots DEF Holds, Subtracts, HoldingPcs
<1>5. CASE RegisterRoot(c) \/ ReservePath(c)
  <2>1. PICK label \in HoldingPcs : pc' = [pc EXCEPT ![c] = label]
    BY <1>5 DEF RegisterRoot, ReservePath, Goto, HoldingPcs
  <2>2. pc[c] \in HoldingPcs /\ total' = total
    BY <1>5 DEF RegisterRoot, ReservePath, HoldingPcs
  <2>3. Registered' = Registered /\ RootAtRootPath'
    <3>1. tree \in [Keys -> Agents \cup {Root, Vacant, Reserved}]
      BY <1>t DEF ShapeOK
    <3>2. CASE RegisterRoot(c)
      BY <2>1, <3>1, <3>2, <1>t DEF RegisterRoot, Registered, RootAtRootPath, Keys
    <3>3. CASE ReservePath(c)
      <4>1. path[c] \in Paths
        BY <3>3, <1>t DEF ReservePath, CallsOK
      <4> QED
        BY <3>1, <3>3, <4>1, <1>t DEF ReservePath, Registered, RootAtRootPath, Keys
    <3> QED
      BY <1>5, <3>2, <3>3
  <2>4. Pays(c, label)
    BY <2>1, <2>2, <2>3, <1>t, CountedFinite DEF Pays, Need, Holds, Subtracts, HoldingPcs
  <2>5. SlotsCovered'
    BY <2>4, MoveSlots
  <2> QED
    BY <2>2, <2>3, <2>5, <1>t DEF SlotsOK, CountWithinLimit
<1> QED
  BY <1>1, <1>2, <1>3, <1>4, <1>5 DEF Reserve

\* commit turns the reservation into a registered agent, drop gives its slot
\* back.
LEMMA FinalizeSlots == ASSUME SlotInv, NEW c \in Callers, Finalize(c) PROVE SlotsOK'
<1> USE IdsAssumption, LimitsAssumption
<1>t. ShapeOK /\ CallsOK /\ total \in Nat /\ RootAtRootPath /\ CountWithinLimit
  BY DEF SlotInv, TypeOK
<1>1. CASE CreateThread(c) \/ CreateFails(c)
  <2>1. /\ pc[c] = "create" /\ total' = total /\ tree' = tree
        /\ \E label \in {"created", "drop_path", "drop_sub"} : pc' = [pc EXCEPT ![c] = label]
    BY <1>1 DEF CreateThread, CreateFails, DropLabel, registry, Goto
  <2> QED
    BY <2>1, QuietSlots DEF Holds, Subtracts, HoldingPcs
<1>2. CASE Send(c)
  <2>1. /\ pc[c] = "send" /\ total' = total /\ tree' = tree
        /\ \E label \in {"remove", "ready"} : pc' = [pc EXCEPT ![c] = label]
    BY <1>2 DEF Send, Return, registry, Goto
  <2> QED
    BY <2>1, QuietSlots DEF Holds, Subtracts, HoldingPcs
<1>3. CASE Commit(c)
  <2> DEFINE k == IF path[c] # NoPath THEN path[c] ELSE agent[c]
  <2>1. agent[c] \in Agents /\ k \in Keys \ {RootPath}
    BY <1>3, <1>t DEF Commit, CallsOK, ShapeOK, Keys
  <2>2. tree' = [tree EXCEPT ![k] = agent[c]] /\ total' = total /\ pc[c] = "created"
    BY <1>3 DEF Commit
  <2>3. PICK label \in {"ready", "send"} : pc' = [pc EXCEPT ![c] = label]
    BY <1>3 DEF Commit, Return, Goto
  <2> HIDE DEF k
  <2>4. Cardinality(Registered') = Cardinality(Registered) - Counts(tree[k]) + Counts(agent[c])
    BY <2>1, <2>2, <1>t, RegisteredCount DEF ShapeOK
  <2>5. Pays(c, label)
    BY <2>2, <2>3, <2>4, <1>t, CountedFinite DEF Pays, Need, Counts, Holds, Subtracts, HoldingPcs
  <2>6. SlotsCovered'
    BY <2>5, MoveSlots
  <2>7. RootAtRootPath'
    BY <2>1, <2>2, <1>t DEF RootAtRootPath, ShapeOK
  <2> QED
    BY <2>2, <2>6, <2>7, <1>t DEF SlotsOK, CountWithinLimit
<1>4. CASE DropPath(c)
  <2>1. Registered' = Registered /\ RootAtRootPath'
    BY <1>4, <1>t DEF DropPath, CallsOK, ShapeOK, Registered, RootAtRootPath, Keys
  <2>2. total' = total /\ pc[c] = "drop_path" /\ pc' = [pc EXCEPT ![c] = "drop_sub"]
    BY <1>4 DEF DropPath, Goto
  <2>3. Pays(c, "drop_sub")
    BY <2>1, <2>2, <1>t, CountedFinite DEF Pays, Need, Holds, Subtracts, HoldingPcs
  <2>4. SlotsCovered'
    BY <2>3, MoveSlots
  <2> QED
    BY <2>1, <2>2, <2>4, <1>t DEF SlotsOK, CountWithinLimit
<1>5. CASE DropSlot(c)
  <2>1. /\ total' = total - 1 /\ tree' = tree
        /\ pc[c] = "drop_sub" /\ pc' = [pc EXCEPT ![c] = "ready"]
    BY <1>5 DEF DropSlot, Return, Goto
  <2>2. Registered' = Registered
    BY <2>1 DEF Registered
  <2>3. Pays(c, "ready")
    BY <2>1, <2>2, <1>t, CountedFinite DEF Pays, Need, Holds, Subtracts, HoldingPcs
  <2>4. SlotsCovered'
    BY <2>3, MoveSlots
  <2> QED
    BY <2>1, <2>4, <1>t DEF SlotsOK, RootAtRootPath, CountWithinLimit
<1> QED
  BY <1>1, <1>2, <1>3, <1>4, <1>5 DEF Finalize

\* release_spawned_thread frees an entry before it gives its slot back.
LEMMA CloseSlots == ASSUME SlotInv, NEW c \in Callers, Close(c) PROVE SlotsOK'
<1> USE IdsAssumption, LimitsAssumption
<1>t. ShapeOK /\ CallsOK /\ total \in Nat /\ RootAtRootPath /\ CountWithinLimit
  BY DEF SlotInv, TypeOK
<1>1. CASE Stop(c) \/ FlushFails(c) \/ RemoveThread(c)
  <2>1. /\ pc[c] \in {"stop", "stop_child", "remove"} /\ total' = total /\ tree' = tree
        /\ \E label \in {"remove", "release", "ready", "stop_child"} :
              pc' = [pc EXCEPT ![c] = label]
    BY <1>1, NextVictimMoves DEF Stop, FlushFails, RemoveThread, Return, registry, Goto
  <2> QED
    BY <2>1, QuietSlots DEF Holds, Subtracts, HoldingPcs
<1>2. CASE ReleaseSpawned(c)
  <2>1. pc[c] = "release" /\ total' = total
    BY <1>2 DEF ReleaseSpawned
  <2>2. CASE \A k \in Keys : tree[k] # agent[c]
    <3>1. tree' = tree /\ \E label \in {"ready", "stop_child"} : pc' = [pc EXCEPT ![c] = label]
      BY <1>2, <2>2, NextVictimMoves DEF ReleaseSpawned
    <3> QED
      BY <2>1, <3>1, QuietSlots DEF Holds, Subtracts, HoldingPcs
  <2>3. CASE \E k \in Keys : tree[k] = agent[c]
    <3>1. PICK k \in Keys :
            /\ tree[k] = agent[c]
            /\ tree' = [tree EXCEPT ![k] = Vacant]
            /\ \/ k # RootPath /\ Goto(c, "sub") /\ UNCHANGED locals
               \/ k = RootPath /\ NextVictim(c)
      BY <1>2, <2>3 DEF ReleaseSpawned
    <3>2. RootAtRootPath'
      BY <3>1, <1>t DEF RootAtRootPath, ShapeOK
    <3>3. CASE k # RootPath
      <4>1. tree[k] \in Agents /\ pc' = [pc EXCEPT ![c] = "sub"]
        BY <3>1, <3>3, <1>t DEF RootAtRootPath, ShapeOK, Goto
      <4>2. Cardinality(Registered') = Cardinality(Registered) - Counts(tree[k]) + Counts(Vacant)
        BY <3>1, <3>3, <1>t, RegisteredCount DEF ShapeOK
      <4>3. Pays(c, "sub")
        BY <2>1, <4>1, <4>2, <1>t, CountedFinite DEF Pays, Need, Counts, Holds, Subtracts, HoldingPcs
      <4>4. SlotsCovered'
        BY <4>3, MoveSlots
      <4> QED
        BY <2>1, <3>2, <4>4, <1>t DEF SlotsOK, CountWithinLimit
    <3>4. CASE k = RootPath
      <4>1. Registered' = Registered
        BY <3>1, <3>4, <1>t DEF Registered, ShapeOK
      <4>2. PICK label \in {"ready", "stop_child"} : pc' = [pc EXCEPT ![c] = label]
        BY <3>1, <3>4, NextVictimMoves
      <4>3. Pays(c, label)
        BY <2>1, <4>1, <4>2, <1>t, CountedFinite DEF Pays, Need, Holds, Subtracts, HoldingPcs
      <4>4. SlotsCovered'
        BY <4>3, MoveSlots
      <4> QED
        BY <2>1, <3>2, <4>4, <1>t DEF SlotsOK, CountWithinLimit
    <3> QED
      BY <3>3, <3>4
  <2> QED
    BY <2>2, <2>3
<1>3. CASE ReleaseSlot(c)
  <2>1. pc[c] = "sub" /\ total' = total - 1 /\ tree' = tree
    BY <1>3 DEF ReleaseSlot
  <2>2. PICK label \in {"ready", "stop_child"} : pc' = [pc EXCEPT ![c] = label]
    BY <1>3, NextVictimMoves DEF ReleaseSlot
  <2>3. Registered' = Registered
    BY <2>1 DEF Registered
  <2>4. Pays(c, label)
    BY <2>1, <2>2, <2>3, <1>t, CountedFinite DEF Pays, Need, Holds, Subtracts, HoldingPcs
  <2>5. SlotsCovered'
    BY <2>4, MoveSlots
  <2> QED
    BY <2>1, <2>5, <1>t DEF SlotsOK, RootAtRootPath, CountWithinLimit
<1> QED
  BY <1>1, <1>2, <1>3 DEF Close

\* A dropped future keeps its reservation open until the drop has run.
LEMMA CancelSlots == ASSUME SlotInv, NEW c \in Callers, Cancel(c) PROVE SlotsOK'
<1>1. CASE pc[c] \in {"prepare", "create", "created"}
  <2>1. /\ total' = total /\ tree' = tree
        /\ \E label \in {"drop_path", "drop_sub"} : pc' = [pc EXCEPT ![c] = label]
    BY <1>1 DEF Cancel, DropLabel, registry, Goto
  <2> QED
    BY <1>1, <2>1, QuietSlots DEF Holds, Subtracts, HoldingPcs
<1>2. CASE pc[c] \in {"send", "stop", "stop_child", "remove"}
  <2>1. total' = total /\ tree' = tree /\ pc' = [pc EXCEPT ![c] = "ready"]
    BY <1>2 DEF Cancel, Return, registry, Goto
  <2> QED
    BY <1>2, <2>1, QuietSlots DEF Holds, Subtracts, HoldingPcs
<1> QED
  BY <1>1, <1>2 DEF Cancel

\* No step of any call leaves a slot uncovered or exceeds the limit.
LEMMA SlotsNext == SlotInv /\ [Next]_vars => SlotsOK'
<1> SUFFICES ASSUME SlotInv, [Next]_vars PROVE SlotsOK'
  OBVIOUS
<1>1. ASSUME UNCHANGED <<total, tree, pc>> PROVE SlotsOK'
  BY <1>1 DEF SlotInv, SlotsOK, RootAtRootPath, SlotsCovered, CountWithinLimit, Holders,
              Releasers, Registered
<1>2. ASSUME NEW a \in Agents, AgentDies(a) PROVE SlotsOK'
  BY <1>1, <1>2 DEF AgentDies, registry
<1>3. CASE UNCHANGED vars
  BY <1>1, <1>3 DEF vars, registry
<1> QED
  BY <1>2, <1>3, CallSlots, ReserveSlots, FinalizeSlots, CloseSlots, CancelSlots DEF Next

-----------------------------------------------------------------------------
\* The registry starts empty but for the root.
LEMMA SlotInit == Init => SlotInv
<1> SUFFICES ASSUME Init PROVE SlotInv
  OBVIOUS
<1> USE IdsAssumption, LimitsAssumption
<1>1. ShapeOK
  BY DEF Init, ShapeOK, Pcs, Keys, Ordinals
<1>2. CallsOK /\ RootAtRootPath /\ CountWithinLimit /\ total \in Nat
  BY DEF Init, CallsOK, RootAtRootPath, CountWithinLimit
<1>3. Holders = {} /\ Releasers = {} /\ Registered = {}
  BY DEF Init, Holders, Releasers, Registered, HoldingPcs
<1>4. SlotsCovered
  BY <1>3, FS_EmptySet DEF Init, SlotsCovered
<1> QED
  BY <1>1, <1>2, <1>4 DEF SlotInv, TypeOK

\* The invariant is inductive.
LEMMA SlotStep == SlotInv /\ [Next]_vars => SlotInv'
<1> SUFFICES ASSUME SlotInv, [Next]_vars PROVE SlotInv'
  OBVIOUS
<1>1. ShapeOK' /\ total' \in Int
  BY ShapeNext
<1>2. CallsOK'
  BY CallsNext
<1>3. SlotsOK'
  BY SlotsNext
<1>4. total' \in Nat
  BY <1>1, <1>3, CountedFiniteNext DEF SlotsOK, SlotsCovered
<1> QED
  BY <1>1, <1>2, <1>3, <1>4 DEF SlotInv, TypeOK, SlotsOK

\* The inductive invariant of the slot count, for any number of concurrent
\* calls of AgentControl.
THEOREM SlotsCorrect == Spec => []SlotInv
BY SlotInit, SlotStep, PTL DEF Spec

\* The types, and with them that total_count never wraps below zero.
THEOREM RegistryTypeCorrect == Spec => []TypeOK
<1>1. SlotInv => TypeOK
  BY DEF SlotInv
<1> QED
  BY <1>1, SlotsCorrect, PTL

\* Every reservation, registered agent and pending release has its slot.
THEOREM SlotsAlwaysCovered == Spec => []SlotsCovered
<1>1. SlotInv => SlotsCovered
  BY DEF SlotInv
<1> QED
  BY <1>1, SlotsCorrect, PTL

\* agent_max_threads bounds the reservations and the registered agents.
THEOREM LimitHolds == Spec => []RegisteredWithinLimit
<1>1. SlotInv => RegisteredWithinLimit
  BY CountedFinite, LimitsAssumption
     DEF SlotInv, TypeOK, SlotsCovered, CountWithinLimit, RegisteredWithinLimit
<1> QED
  BY <1>1, SlotsCorrect, PTL

-----------------------------------------------------------------------------
(* Paths.                                                                  *)

\* A step by c that leaves the paths of the tree alone and does not make c the
\* holder of a path.
LEMMA QuietPaths ==
    ASSUME SlotInv, ReservedPathHeld, NEW c \in Callers,
           \A p \in Paths : tree'[p] = tree[p],
           \A d \in Callers \ {c} : path'[d] = path[d] /\ pc'[d] = pc[d],
           PathHeld(c)' => PathHeld(c) /\ path'[c] = path[c]
    PROVE  ReservedPathHeld'
<1>1. \A d \in Callers : PathHeld(d) => path[d] \in Paths
  BY DEF SlotInv, TypeOK, ShapeOK, PathHeld
<1>2. \A d \in Callers : PathHeld(d)' => PathHeld(d) /\ path'[d] = path[d]
  BY DEF PathHeld
<1> QED
  BY <1>1, <1>2 DEF ReservedPathHeld

\* A call changes its own locals only.
LEMMA PathsNext == SlotInv /\ ReservedPathHeld /\ [Next]_vars => ReservedPathHeld'
<1> SUFFICES ASSUME SlotInv, ReservedPathHeld, [Next]_vars PROVE ReservedPathHeld'
  OBVIOUS
<1> USE IdsAssumption
<1>t. ShapeOK /\ CallsOK
  BY DEF SlotInv, TypeOK
<1>1. ASSUME NEW c \in Callers, Call(c) PROVE ReservedPathHeld'
  <2>1. \A p \in Paths : tree'[p] = tree[p]
    BY <1>1 DEF Call, SpawnAgent, SpawnPlain, ResumeAgent, SendInput, ShutdownLiveAgent,
                CloseAgent, registry
  <2>2. /\ \A d \in Callers \ {c} : path'[d] = path[d] /\ pc'[d] = pc[d]
        /\ pc'[c] \in {"load", "send", "stop"}
    BY <1>1, <1>t DEF Call, SpawnAgent, SpawnPlain, ResumeAgent, SendInput,
                      ShutdownLiveAgent, CloseAgent, Goto, ShapeOK
  <2> QED
    BY <2>1, <2>2, QuietPaths DEF PathHeld
<1>2. ASSUME NEW c \in Callers, Reserve(c) PROVE ReservedPathHeld'
  <2>1. CASE LoadCount(c) \/ LimitReached(c) \/ CompareExchange(c) \/ FetchAdd(c)
    <3>1. /\ tree' = tree /\ pc'[c] \in {"cas", "ready", "prepare"}
          /\ \A d \in Callers \ {c} : path'[d] = path[d] /\ pc'[d] = pc[d]
      BY <2>1, <1>t DEF LoadCount, LimitReached, CompareExchange, FetchAdd, Return, Goto,
                        registry, locals, ShapeOK
    <3> QED
      BY <3>1, QuietPaths DEF PathHeld
  <2>2. CASE Prepare(c) \/ RegisterRoot(c)
    <3>1. /\ \A p \in Paths : tree'[p] = tree[p]
          /\ pc'[c] \in {"create", "root", "path", "nick"}
          /\ pc'[c] \in {"create", "nick"} => path[c] = NoPath
          /\ path' = path
          /\ \A d \in Callers \ {c} : pc'[d] = pc[d]
      BY <2>2, <1>t DEF Prepare, RegisterRoot, CallsOK, Goto, registry, locals, ShapeOK, Keys
    <3> QED
      BY <3>1, <2>2, QuietPaths DEF PathHeld
  <2>3. CASE ReservePath(c)
    <3>1. path[c] \in Paths /\ path' = path
      BY <2>3, <1>t DEF ReservePath, CallsOK, locals
    <3>2. CASE tree[path[c]] = Vacant
      <4>1. /\ tree' = [tree EXCEPT ![path[c]] = Reserved]
            /\ pc' = [pc EXCEPT ![c] = "nick"]
        BY <2>3, <3>2 DEF ReservePath, Goto
      <4>2. \A d \in Callers \ {c} : PathHeld(d) => path[d] # path[c]
        BY <3>2 DEF ReservedPathHeld
      <4>3. \A d \in Callers : PathHeld(d) => path[d] \in Paths
        BY <1>t DEF PathHeld, ShapeOK
      <4>4. \A d \in Callers \ {c} : PathHeld(d)' => PathHeld(d)
        BY <3>1, <4>1, <1>t DEF PathHeld, ShapeOK
      <4>5. tree'[path[c]] = Reserved /\ \A p \in Paths \ {path[c]} : tree'[p] = tree[p]
        BY <3>1, <4>1, <1>t DEF ShapeOK, Keys
      <4> QED
        BY <3>1, <4>2, <4>3, <4>4, <4>5 DEF ReservedPathHeld
    <3>3. CASE tree[path[c]] # Vacant
      <4>1. tree' = tree /\ pc' = [pc EXCEPT ![c] = "drop_sub"]
        BY <2>3, <3>3 DEF ReservePath, Goto
      <4> QED
        BY <3>1, <4>1, <1>t, QuietPaths DEF PathHeld, ShapeOK
    <3> QED
      BY <3>2, <3>3
  <2>4. CASE PreferredNickname(c) \/ NextNickname(c)
    <3>1. tree' = tree /\ pc[c] = "nick" /\ pc' = [pc EXCEPT ![c] = "create"] /\ path' = path
      BY <2>4 DEF PreferredNickname, NextNickname, Goto
    <3> QED
      BY <3>1, <1>t, QuietPaths DEF PathHeld, ShapeOK
  <2> QED
    BY <1>2, <2>1, <2>2, <2>3, <2>4 DEF Reserve
<1>3. ASSUME NEW c \in Callers, Finalize(c) PROVE ReservedPathHeld'
  <2>1. CASE CreateThread(c) \/ CreateFails(c)
    <3>1. /\ tree' = tree /\ pc[c] = "create" /\ path' = path
          /\ pc'[c] \in {"created", "drop_path", "drop_sub"}
          /\ \A d \in Callers \ {c} : pc'[d] = pc[d]
      BY <2>1, <1>t DEF CreateThread, CreateFails, DropLabel, Goto, registry, locals, ShapeOK
    <3> QED
      BY <3>1, QuietPaths DEF PathHeld
  <2>2. CASE Send(c) \/ DropSlot(c)
    <3>1. /\ tree' = tree /\ pc'[c] \in {"ready", "remove"}
          /\ \A d \in Callers \ {c} : path'[d] = path[d] /\ pc'[d] = pc[d]
      BY <2>2, <1>t DEF Send, DropSlot, Return, Goto, registry, locals, ShapeOK
    <3> QED
      BY <3>1, QuietPaths DEF PathHeld
  <2>3. CASE Commit(c) \/ DropPath(c)
    <3>1. /\ pc[c] \in {"created", "drop_path"} /\ pc'[c] \in {"ready", "send", "drop_sub"}
          /\ \A d \in Callers \ {c} : path'[d] = path[d] /\ pc'[d] = pc[d]
      BY <2>3, <1>t DEF Commit, DropPath, Return, Goto, locals, ShapeOK
    <3>2. \A p \in Paths \ {path[c]} : tree'[p] = tree[p]
      BY <2>3, <1>t DEF Commit, DropPath, CallsOK, ShapeOK, Keys
    <3>3. \A d \in Callers : PathHeld(d)' => PathHeld(d) /\ d # c /\ path'[d] = path[d]
      BY <3>1 DEF PathHeld
    <3>4. \A d \in Callers \ {c} : PathHeld(d) => path[d] \in Paths \ {path[c]}
      <4>1. \A d \in Callers : PathHeld(d) => path[d] \in Paths
        BY <1>t DEF PathHeld, ShapeOK
      <4>2. path[c] # NoPath => PathHeld(c)
        BY <3>1 DEF PathHeld
      <4> QED
        BY <4>1, <4>2 DEF ReservedPathHeld
    <3> QED
      BY <3>2, <3>3, <3>4 DEF ReservedPathHeld
  <2> QED
    BY <1>3, <2>1, <2>2, <2>3 DEF Finalize
<1>4. ASSUME NEW c \in Callers, Close(c) PROVE ReservedPathHeld'
  <2>1. /\ pc'[c] \in {"remove", "ready", "stop_child", "release", "sub"}
        /\ \A d \in Callers \ {c} : path'[d] = path[d] /\ pc'[d] = pc[d]
    BY <1>4, <1>t DEF Close, Stop, FlushFails, RemoveThread, ReleaseSpawned, ReleaseSlot,
                      NextVictim, Return, Goto, locals, ShapeOK
  <2>2. \A p \in Paths : tree[p] = Reserved => tree'[p] = Reserved
    BY <1>4, <1>t DEF Close, Stop, FlushFails, RemoveThread, ReleaseSpawned, ReleaseSlot,
                      registry, ShapeOK, Keys
  <2>3. \A d \in Callers : PathHeld(d)' => PathHeld(d) /\ path'[d] = path[d]
    BY <2>1 DEF PathHeld
  <2>4. \A d \in Callers : PathHeld(d) => path[d] \in Paths
    BY <1>t DEF PathHeld, ShapeOK
  <2> QED
    BY <2>2, <2>3, <2>4 DEF ReservedPathHeld
<1>5. ASSUME NEW c \in Callers, Cancel(c) PROVE ReservedPathHeld'
  <2>1. /\ tree' = tree
        /\ \A d \in Callers \ {c} : path'[d] = path[d] /\ pc'[d] = pc[d]
    BY <1>5, <1>t DEF Cancel, Return, Goto, registry, locals, ShapeOK
  <2>2. PathHeld(c)' => PathHeld(c) /\ path'[c] = path[c]
    BY <1>5, <1>t DEF Cancel, DropLabel, PathHeld, Return, Goto, locals, ShapeOK
  <2> QED
    BY <2>1, <2>2, QuietPaths
<1>6. ASSUME UNCHANGED <<tree, pc, path>> PROVE ReservedPathHeld'
  BY <1>6 DEF ReservedPathHeld, PathHeld
<1>7. ASSUME NEW a \in Agents, AgentDies(a) PROVE ReservedPathHeld'
  BY <1>6, <1>7 DEF AgentDies, registry, locals
<1>8. CASE UNCHANGED vars
  BY <1>6, <1>8 DEF vars, registry, locals
<1> QED
  BY <1>1, <1>2, <1>3, <1>4, <1>5, <1>7, <1>8 DEF Next

\* A reserved path belongs to one spawn until it is committed or dropped,
\* however the calls interleave.
THEOREM PathsHeld == Spec => []ReservedPathHeld
<1>1. Init => ReservedPathHeld
  BY DEF Init, ReservedPathHeld, PathHeld
<1> QED
  BY <1>1, SlotsCorrect, PathsNext, PTL DEF Spec

-----------------------------------------------------------------------------
(* Nicknames.                                                              *)

\* The pool has issued nothing at a later ordinal, at its own ordinal only what
\* it lists as used, at any ordinal only what a candidate reads as, and nothing
\* twice.
PoolInv ==
    \A n \in Nicks, r \in Ordinals :
        /\ issued[r][n] <= 1
        /\ r > resets \/ (r = resets /\ n \notin used) => issued[r][n] = 0
        /\ issued[r][n] > 0 => \E m \in Names : Format[r][m] = n

\* Preferred nicknames and commits only add to the used ones.
LEMMA PoolGrows ==
    ASSUME PoolInv, UNCHANGED <<resets, issued>>, used \subseteq used'
    PROVE  PoolInv'
BY DEF PoolInv

\* Only reserve_agent_nickname issues one, from the unused or after a reset.
LEMMA PoolIssues ==
    ASSUME ShapeOK, PoolInv, NEW c \in Callers, NextNickname(c)
    PROVE  PoolInv'
<1>1. issued \in [Ordinals -> [Nicks -> Nat]] /\ resets \in Ordinals /\ Ordinals \subseteq Int
  BY LimitsAssumption DEF ShapeOK, Ordinals
<1>2. PICK names \in CandidateLists, n \in Nicks :
        /\ \/ n \in Available(names) /\ used' = used \cup {n} /\ UNCHANGED resets
           \/ /\ Available(names) = {} /\ resets < MaxResets
              /\ resets' = resets + 1
              /\ n \in {Format[resets'][m] : m \in names}
              /\ used' = {n}
        /\ issued' = [issued EXCEPT ![resets'][n] = @ + 1]
  BY DEF NextNickname
<1>3. resets' \in Ordinals /\ n \in used' /\ (resets' = resets \/ resets' = resets + 1)
  BY <1>1, <1>2, LimitsAssumption DEF Available, Ordinals
<1>4. \E m \in Names : Format[resets'][m] = n
  BY <1>2, NamesAssumption DEF Available
<1>5. issued[resets'][n] = 0
  BY <1>1, <1>2, <1>3 DEF PoolInv, Available
<1>6. issued'[resets'][n] = 1
  BY <1>1, <1>2, <1>3, <1>5
<1>7. ASSUME NEW m \in Nicks, NEW r \in Ordinals, m # n \/ r # resets'
      PROVE  issued'[r][m] = issued[r][m]
  BY <1>1, <1>2, <1>7
<1>8. ASSUME NEW m \in Nicks, NEW r \in Ordinals
      PROVE  /\ issued'[r][m] <= 1
             /\ r > resets' \/ (r = resets' /\ m \notin used') => issued'[r][m] = 0
             /\ issued'[r][m] > 0 => \E k \in Names : Format[r][k] = m
  <2>1. CASE m = n /\ r = resets'
    BY <2>1, <1>1, <1>3, <1>4, <1>6
  <2>2. CASE ~(m = n /\ r = resets')
    <3>1. issued'[r][m] = issued[r][m]
      BY <2>2, <1>7
    <3>2. r > resets' => r > resets
      BY <1>1, <1>3
    <3>3. r = resets' /\ m \notin used' => r > resets \/ (r = resets /\ m \notin used)
      BY <1>1, <1>2, <1>3
    <3> QED
      BY <3>1, <3>2, <3>3 DEF PoolInv
  <2> QED
    BY <2>1, <2>2
<1> QED
  BY <1>8 DEF PoolInv

\* The other operations leave the pool alone.
LEMMA PoolNext == SlotInv /\ PoolInv /\ [Next]_vars => PoolInv'
<1> SUFFICES ASSUME SlotInv, PoolInv, [Next]_vars PROVE PoolInv'
  OBVIOUS
<1>t. ShapeOK
  BY DEF SlotInv, TypeOK
<1>1. ASSUME NEW c \in Callers, Call(c) \/ Close(c) \/ Cancel(c) PROVE PoolInv'
  BY <1>1, PoolGrows
     DEF Call, SpawnAgent, SpawnPlain, ResumeAgent, SendInput, ShutdownLiveAgent, CloseAgent,
         Close, Stop, FlushFails, RemoveThread, ReleaseSpawned, ReleaseSlot, Cancel, registry
<1>2. ASSUME NEW c \in Callers, Reserve(c) PROVE PoolInv'
  <2>1. CASE NextNickname(c)
    BY <1>t, <2>1, PoolIssues
  <2>2. CASE ~NextNickname(c)
    BY <1>2, <2>2, PoolGrows
       DEF Reserve, LoadCount, LimitReached, CompareExchange, FetchAdd, Prepare, RegisterRoot,
           ReservePath, PreferredNickname, registry
  <2> QED
    BY <2>1, <2>2
<1>3. ASSUME NEW c \in Callers, Finalize(c) PROVE PoolInv'
  BY <1>3, PoolGrows
     DEF Finalize, CreateThread, CreateFails, Commit, Send, DropPath, DropSlot, registry
<1>4. ASSUME NEW a \in Agents, AgentDies(a) PROVE PoolInv'
  BY <1>4, PoolGrows DEF AgentDies, registry
<1>5. CASE UNCHANGED vars
  BY <1>5, PoolGrows DEF vars, registry
<1> QED
  BY <1>1, <1>2, <1>3, <1>4, <1>5 DEF Next

\* One candidate reads differently at two ordinals, so a nickname issued at both
\* is the reading of two candidates.
LEMMA PoolExplains == PoolInv => NicknameRepeatsExplained
<1> SUFFICES ASSUME PoolInv, NEW n \in Nicks, NEW r \in Ordinals, NEW s \in Ordinals \ {r},
                    issued[r][n] > 0, issued[s][n] > 0
             PROVE  \E m, k \in Names : m # k /\ Format[r][m] = n /\ Format[s][k] = n
  BY DEF PoolInv, NicknameRepeatsExplained
<1>1. PICK m \in Names : Format[r][m] = n
  BY DEF PoolInv
<1>2. PICK k \in Names : Format[s][k] = n
  BY DEF PoolInv
<1>3. m # k
  BY <1>1, <1>2, NamesAssumption
<1> QED
  BY <1>1, <1>2, <1>3

\* Between two resets the pool issues no nickname twice, and over all of them
\* only one that two candidates read as, for any number of agents, resets,
\* concurrent calls and roles, and any candidates.
THEOREM NicknamesExplained == Spec => []NicknameRepeatsExplained
<1>1. Init => PoolInv
  BY DEF Init, PoolInv
<1> QED
  BY <1>1, PoolExplains, SlotsCorrect, PoolNext, PTL DEF Spec
=============================================================================
