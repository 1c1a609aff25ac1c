--------------------------- MODULE AgentRegistry ---------------------------
(***************************************************************************)
(* The sub-agents of one user session (codex-rs/core/src/agent): the slots *)
(* that `AgentRegistry` counts, the paths and nicknames it hands out, and  *)
(* the calls of `AgentControl` that spawn, resume, message and close       *)
(* agents. Every agent of the tree shares one registry, so the calls of    *)
(* several agents run concurrently; within a turn a cancelled tool call    *)
(* is a future dropped at an await.                                        *)
(*                                                                         *)
(* A step is one atomic operation on total_count, one guard of the         *)
(* active_agents mutex, or one guard of ThreadManagerState::threads.       *)
(***************************************************************************)
EXTENDS Integers, FiniteSets

CONSTANTS
    Callers,        \* tool calls that may be in progress at a time
    Agents,         \* thread ids of spawned agents
    Persisted,      \* those with a rollout from an earlier run of the program
    Root,           \* the thread id of the session itself
    Paths,          \* agent paths below the root
    RootPath,       \* AgentPath::ROOT
    Names,          \* nickname candidates
    CandidateLists, \* the lists of them that the roles are configured with
    Nicks,          \* nicknames as the agents see them
    Format,         \* format_agent_nickname: Format[ordinal][candidate]
    MaxThreads,     \* Config::agent_max_threads, or a bound on the count
    Limited,        \* whether agent_max_threads is set
    MaxResets,      \* bound on nickname pool resets
    Ops,            \* the calls the agents make
    NoAgent, NoPath, NoNick,
    Vacant,         \* no entry in agent_tree
    Reserved        \* an entry whose agent_id is None

\* agent_tree is keyed by path, or by "thread:{id}" for an agent without one.
Keys == Paths \cup Agents \cup {RootPath}
Ordinals == 0 .. MaxResets

ASSUME FiniteAssumption == IsFiniteSet(Callers) /\ IsFiniteSet(Keys)
ASSUME IdsAssumption ==
    /\ Root \notin Agents /\ RootPath \notin Paths \cup Agents
    /\ Paths \cap Agents = {} /\ NoPath \notin Paths
    /\ {Vacant, Reserved, NoAgent} \cap (Agents \cup {Root}) = {}
    /\ Vacant # Reserved /\ NoAgent \notin {Vacant, Reserved} /\ NoNick \notin Nicks
    /\ Persisted \subseteq Agents
\* A role's list is not empty. One candidate reads differently with every
\* ordinal, but "Plato the 2nd" is itself a candidate a role may list.
ASSUME NamesAssumption ==
    /\ CandidateLists \subseteq (SUBSET Names) \ {{}}
    /\ Format \in [Ordinals -> [Names -> Nicks]]
    /\ \A m \in Names, r, s \in Ordinals : r # s => Format[r][m] # Format[s][m]
ASSUME LimitsAssumption ==
    /\ MaxThreads \in Nat \ {0} /\ Limited \in BOOLEAN /\ MaxResets \in Nat
    /\ Ops \subseteq {"spawn", "child", "plain", "resume", "send", "close", "shutdown"}

VARIABLES
    total,      \* AgentRegistry::total_count
    tree,       \* ActiveAgents::agent_tree: the agent_id of each key
    used,       \* ActiveAgents::used_agent_nicknames
    resets,     \* ActiveAgents::nickname_reset_count
    threads,    \* ThreadManagerState::threads
    dead,       \* threads whose session loop has exited
    born,       \* agents with a rollout
    nickDb,     \* nickname persisted for each agent
    parent,     \* parent_thread_id in each agent's SessionSource, if it has one
    issued,     \* how often the pool handed out each nickname at each ordinal
    pc, kind, agent, path, from, cur, nick, victims    \* locals of each call

registry == <<total, tree, used, resets, issued>>
world    == <<threads, dead, born, nickDb, parent>>
locals   == <<kind, agent, path, from, cur, nick, victims>>
vars == <<registry, world, pc, locals>>

\* The call holds an active SpawnReservation.
HoldingPcs == {"prepare", "root", "path", "nick", "create", "created", "drop_path",
               "drop_sub"}
Pcs == HoldingPcs \cup {"ready", "load", "cas", "send", "stop", "stop_child", "remove",
                        "release", "sub"}

ShapeOK ==
    /\ tree \in [Keys -> Agents \cup {Root, Vacant, Reserved}]
    /\ used \subseteq Nicks /\ resets \in Ordinals
    /\ issued \in [Ordinals -> [Nicks -> Nat]]
    /\ threads \subseteq Agents \cup {Root} /\ dead \subseteq threads
    /\ born \subseteq Agents /\ nickDb \in [Agents -> Nicks \cup {NoNick}]
    /\ parent \in [Agents -> Agents \cup {Root, NoAgent}]
    /\ pc \in [Callers -> Pcs]
    /\ kind \in [Callers -> {"none", "spawn", "plain", "resume"}]
    /\ agent \in [Callers -> Agents \cup {Root, NoAgent}]
    /\ path \in [Callers -> Paths \cup {NoPath}]
    /\ from \in [Callers -> Agents \cup {Root, NoAgent}]
    /\ cur \in [Callers -> Nat]
    /\ nick \in [Callers -> Nicks \cup {NoNick}]
    /\ victims \in [Callers -> SUBSET (Agents \cup {Root})]

TypeOK == total \in Nat /\ ShapeOK

Init ==
    /\ total = 0
    /\ tree = [k \in Keys |-> IF k = RootPath THEN Root ELSE Vacant]
    /\ used = {} /\ resets = 0 /\ issued = [r \in Ordinals |-> [n \in Nicks |-> 0]]
    /\ threads = {Root} /\ dead = {}
    /\ born = Persisted
    /\ nickDb \in [Agents -> Nicks \cup {NoNick}]
    /\ \A a \in Agents \ Persisted : nickDb[a] = NoNick
    /\ parent = [a \in Agents |-> Root]
    /\ pc = [c \in Callers |-> "ready"] /\ kind = [c \in Callers |-> "none"]
    /\ agent = [c \in Callers |-> NoAgent] /\ path = [c \in Callers |-> NoPath]
    /\ from = [c \in Callers |-> Root] /\ cur = [c \in Callers |-> 0]
    /\ nick = [c \in Callers |-> NoNick] /\ victims = [c \in Callers |-> {}]

-----------------------------------------------------------------------------
Goto(c, label) == pc' = [pc EXCEPT ![c] = label]

\* The call returns; its locals are gone.
Return(c) ==
    /\ Goto(c, "ready")
    /\ kind' = [kind EXCEPT ![c] = "none"]
    /\ agent' = [agent EXCEPT ![c] = NoAgent]
    /\ path' = [path EXCEPT ![c] = NoPath]
    /\ from' = [from EXCEPT ![c] = Root]
    /\ cur' = [cur EXCEPT ![c] = 0]
    /\ nick' = [nick EXCEPT ![c] = NoNick]
    /\ victims' = [victims EXCEPT ![c] = {}]

-----------------------------------------------------------------------------
(* The calls of AgentControl. The caller is the root or, with "child", any *)
(* agent whose thread is live.                                             *)

Parents == IF "child" \in Ops THEN threads ELSE {Root}

\* The id of a spawned agent is known once its spawn is committed.
Known == {a \in born : \A c \in Callers :
            agent[c] = a => pc[c] # "created" \/ kind[c] = "resume"}

\* spawn_agent_internal for SubAgentSource::ThreadSpawn, with a path when the
\* tool names the task.
SpawnAgent(c, p, parentId) ==
    /\ "spawn" \in Ops /\ pc[c] = "ready"
    /\ kind' = [kind EXCEPT ![c] = "spawn"]
    /\ path' = [path EXCEPT ![c] = p]
    /\ from' = [from EXCEPT ![c] = parentId]
    /\ Goto(c, "load")
    /\ UNCHANGED <<registry, world, agent, cur, nick, victims>>

\* spawn_agent_internal for any other source: no parent, path or nickname.
SpawnPlain(c) ==
    /\ "plain" \in Ops /\ pc[c] = "ready"
    /\ kind' = [kind EXCEPT ![c] = "plain"]
    /\ from' = [from EXCEPT ![c] = NoAgent]
    /\ Goto(c, "load")
    /\ UNCHANGED <<registry, world, agent, path, cur, nick, victims>>

\* The resume tool (and resume_agent_from_rollout for each open descendant)
\* goes ahead when the thread is not live at this moment.
ResumeAgent(c, a, parentId) ==
    /\ "resume" \in Ops /\ pc[c] = "ready"
    /\ a \in born \ threads
    /\ kind' = [kind EXCEPT ![c] = "resume"]
    /\ agent' = [agent EXCEPT ![c] = a]
    /\ from' = [from EXCEPT ![c] = parentId]
    /\ Goto(c, "load")
    /\ UNCHANGED <<registry, world, path, cur, nick, victims>>

\* send_input and send_inter_agent_communication.
SendInput(c, a) ==
    /\ "send" \in Ops /\ pc[c] = "ready" /\ a \in Known
    /\ agent' = [agent EXCEPT ![c] = a]
    /\ Goto(c, "send")
    /\ UNCHANGED <<registry, world, kind, path, from, cur, nick, victims>>

\* live_thread_spawn_descendants: what the spawn tree of the live threads
\* reaches from a.
Descendants(a) ==
    {d \in threads : \A S \in SUBSET threads :
        (\A x \in threads \ {Root} : parent[x] \in S \cup {a} => x \in S) => d \in S}

\* close_agent, by a tool that found the thread live.
CloseAgent(c, a) ==
    /\ "close" \in Ops /\ pc[c] = "ready"
    /\ a \in threads \cap (Known \cup {Root})
    /\ agent' = [agent EXCEPT ![c] = a]
    /\ victims' = [victims EXCEPT ![c] = Descendants(a)]
    /\ Goto(c, "stop")
    /\ UNCHANGED <<registry, world, kind, path, from, cur, nick>>

\* shutdown_live_agent alone, as the agent jobs call it.
ShutdownLiveAgent(c, a) ==
    /\ "shutdown" \in Ops /\ pc[c] = "ready" /\ a \in Known
    /\ agent' = [agent EXCEPT ![c] = a]
    /\ Goto(c, "stop")
    /\ UNCHANGED <<registry, world, kind, path, from, cur, nick, victims>>

\* The session loop of an agent exits (an error, or an Op::Shutdown).
AgentDies(a) ==
    /\ a \in threads \ dead
    /\ dead' = dead \cup {a}
    /\ UNCHANGED <<registry, threads, born, nickDb, parent, pc, locals>>

-----------------------------------------------------------------------------
(* reserve_spawn_slot                                                      *)

\* try_increment_spawned: the load before the loop ...
LoadCount(c) ==
    /\ Limited /\ pc[c] = "load"
    /\ cur' = [cur EXCEPT ![c] = total]
    /\ Goto(c, "cas")
    /\ UNCHANGED <<registry, world, kind, agent, path, from, nick, victims>>

\* ... AgentLimitReached ...
LimitReached(c) ==
    /\ pc[c] = "cas" /\ cur[c] >= MaxThreads
    /\ Return(c)
    /\ UNCHANGED <<registry, world>>

\* Fault for CompareExchange: a plain store of current + 1.
StoreIncrement(c) ==
    /\ pc[c] = "cas" /\ cur[c] < MaxThreads
    /\ total' = cur[c] + 1
    /\ Goto(c, "prepare")
    /\ UNCHANGED <<tree, used, resets, issued, world, locals>>

\* ... and compare_exchange_weak, which may fail spuriously.
CompareExchange(c) ==
    /\ pc[c] = "cas" /\ cur[c] < MaxThreads
    /\ \/ /\ total = cur[c]
          /\ total' = cur[c] + 1
          /\ Goto(c, "prepare")
          /\ UNCHANGED cur
       \/ /\ cur' = [cur EXCEPT ![c] = total]
          /\ UNCHANGED <<total, pc>>
    /\ UNCHANGED <<tree, used, resets, issued, world, kind, agent, path, from, nick, victims>>

\* Without a limit the count is only kept (bounded here by MaxThreads).
FetchAdd(c) ==
    /\ ~Limited /\ pc[c] = "load" /\ total < MaxThreads
    /\ total' = total + 1
    /\ Goto(c, "prepare")
    /\ UNCHANGED <<tree, used, resets, issued, world, locals>>

-----------------------------------------------------------------------------
(* prepare_thread_spawn                                                    *)

\* Only a ThreadSpawn source is prepared; a child of the root registers it.
Prepare(c) ==
    /\ pc[c] = "prepare"
    /\ Goto(c, IF kind[c] = "plain" THEN "create"
               ELSE IF from[c] = Root THEN "root"
               ELSE IF path[c] # NoPath THEN "path" ELSE "nick")
    /\ UNCHANGED <<registry, world, locals>>

RegisterRoot(c) ==
    /\ pc[c] = "root"
    /\ tree' = IF tree[RootPath] = Vacant THEN [tree EXCEPT ![RootPath] = Root] ELSE tree
    /\ Goto(c, IF path[c] # NoPath THEN "path" ELSE "nick")
    /\ UNCHANGED <<total, used, resets, issued, world, locals>>

\* Fault for ReservePath: an occupied path is taken over.
ReservePathUnchecked(c) ==
    /\ pc[c] = "path"
    /\ tree' = [tree EXCEPT ![path[c]] = Reserved]
    /\ Goto(c, "nick")
    /\ UNCHANGED <<total, used, resets, issued, world, locals>>

\* reserve_agent_path; "already exists" drops a reservation without a path.
ReservePath(c) ==
    /\ pc[c] = "path"
    /\ \/ /\ tree[path[c]] = Vacant
          /\ tree' = [tree EXCEPT ![path[c]] = Reserved]
          /\ Goto(c, "nick")
       \/ /\ tree[path[c]] # Vacant
          /\ Goto(c, "drop_sub")
          /\ UNCHANGED tree
    /\ UNCHANGED <<total, used, resets, issued, world, locals>>

\* A resumed agent asks for the nickname the state database has for it.
PreferredNickname(c) ==
    /\ pc[c] = "nick" /\ kind[c] = "resume" /\ nickDb[agent[c]] # NoNick
    /\ nick' = [nick EXCEPT ![c] = nickDb[agent[c]]]
    /\ used' = used \cup {nickDb[agent[c]]}
    /\ Goto(c, "create")
    /\ UNCHANGED <<total, tree, resets, issued, world, kind, agent, path, from, cur, victims>>

Available(names) == {Format[resets][m] : m \in names} \ used

\* Fault for NextNickname: the reset clears the pool but not the ordinal.
NextNicknameNoOrdinal(c) ==
    /\ pc[c] = "nick"
    /\ \E names \in CandidateLists, n \in Nicks :
          /\ \/ n \in Available(names) /\ used' = used \cup {n}
             \/ /\ Available(names) = {} /\ n \in {Format[resets][m] : m \in names}
                /\ used' = {n}
          /\ nick' = [nick EXCEPT ![c] = n]
          /\ issued' = [issued EXCEPT ![resets][n] = @ + 1]
    /\ Goto(c, "create")
    /\ UNCHANGED <<total, tree, resets, world, kind, agent, path, from, cur, victims>>

\* reserve_agent_nickname: any unused candidate of the agent's role, formatted
\* with the ordinal of the pool. The pool is one for all roles: a role whose own
\* candidates are used up clears it and advances the ordinal for every role. A
\* resume ends here too when the state database does not answer.
NextNickname(c) ==
    /\ pc[c] = "nick"
    /\ \E names \in CandidateLists, n \in Nicks :
          /\ \/ n \in Available(names) /\ used' = used \cup {n} /\ UNCHANGED resets
             \/ /\ Available(names) = {} /\ resets < MaxResets
                /\ resets' = resets + 1
                /\ n \in {Format[resets'][m] : m \in names}
                /\ used' = {n}
          /\ nick' = [nick EXCEPT ![c] = n]
          /\ issued' = [issued EXCEPT ![resets'][n] = @ + 1]
    /\ Goto(c, "create")
    /\ UNCHANGED <<total, tree, world, kind, agent, path, from, cur, victims>>

-----------------------------------------------------------------------------
(* The thread is created, the reservation committed, the input sent.       *)

\* Where a dropped reservation goes first: SpawnReservation::drop.
DropLabel(c) == IF path[c] # NoPath THEN "drop_path" ELSE "drop_sub"

\* finalize_thread_spawn inserts the thread, whether or not one is there.
CreateThread(c) ==
    /\ pc[c] = "create"
    /\ \E a \in IF kind[c] = "resume" THEN {agent[c]} ELSE Agents \ born :
          /\ threads' = threads \cup {a} /\ dead' = dead \ {a}
          /\ born' = born \cup {a}
          /\ nickDb' = [nickDb EXCEPT ![a] = nick[c]]
          /\ parent' = [parent EXCEPT ![a] = from[c]]
          /\ agent' = [agent EXCEPT ![c] = a]
    /\ Goto(c, "created")
    /\ UNCHANGED <<registry, kind, path, from, cur, nick, victims>>

\* The session cannot be created (no rollout, a configuration error).
CreateFails(c) ==
    /\ pc[c] = "create"
    /\ Goto(c, DropLabel(c))
    /\ UNCHANGED <<registry, world, locals>>

\* SpawnReservation::commit and register_spawned_thread.
Commit(c) ==
    /\ pc[c] = "created"
    /\ tree' = [tree EXCEPT ![IF path[c] # NoPath THEN path[c] ELSE agent[c]] = agent[c]]
    /\ used' = used \cup ({nick[c]} \ {NoNick})
    /\ \/ /\ kind[c] = "resume"
          /\ Return(c)
       \/ /\ kind[c] # "resume"
          /\ Goto(c, "send")
          /\ UNCHANGED locals
    /\ UNCHANGED <<total, resets, issued, world>>

\* send_op, and handle_thread_request_result: only a dead thread is removed.
Send(c) ==
    /\ pc[c] = "send"
    /\ \/ agent[c] \in dead /\ Goto(c, "remove") /\ UNCHANGED locals
       \/ agent[c] \notin dead /\ Return(c)
    /\ UNCHANGED <<registry, world>>

\* release_reserved_agent_path of a dropped reservation ...
DropPath(c) ==
    /\ pc[c] = "drop_path"
    /\ tree' = IF tree[path[c]] = Reserved THEN [tree EXCEPT ![path[c]] = Vacant] ELSE tree
    /\ Goto(c, "drop_sub")
    /\ UNCHANGED <<total, used, resets, issued, world, locals>>

\* ... and its fetch_sub.
DropSlot(c) ==
    /\ pc[c] = "drop_sub"
    /\ total' = total - 1
    /\ Return(c)
    /\ UNCHANGED <<tree, used, resets, issued, world>>

-----------------------------------------------------------------------------
(* shutdown_agent_tree, shutdown_live_agent and release_spawned_thread.    *)

\* The rollout is flushed and Op::Shutdown sent (its effect is AgentDies).
Stop(c) ==
    /\ pc[c] \in {"stop", "stop_child"}
    /\ Goto(c, "remove")
    /\ UNCHANGED <<registry, world, locals>>

\* The next descendant, if any.
NextVictim(c) ==
    \/ /\ victims[c] = {}
       /\ Return(c)
    \/ \E v \in victims[c] :
          /\ agent' = [agent EXCEPT ![c] = v]
          /\ victims' = [victims EXCEPT ![c] = @ \ {v}]
          /\ Goto(c, "stop_child")
          /\ UNCHANGED <<kind, path, from, cur, nick>>

\* flush_rollout fails: the agent keeps its thread and its slot. For the agent
\* itself the descendants are still shut down; a descendant ends the call.
FlushFails(c) ==
    /\ agent[c] \in threads
    /\ \/ pc[c] = "stop" /\ NextVictim(c)
       \/ pc[c] = "stop_child" /\ Return(c)
    /\ UNCHANGED <<registry, world>>

RemoveThread(c) ==
    /\ pc[c] = "remove"
    /\ threads' = threads \ {agent[c]} /\ dead' = dead \ {agent[c]}
    /\ Goto(c, "release")
    /\ UNCHANGED <<registry, born, nickDb, parent, locals>>

\* Fault for ReleaseSpawned: the slot is given back although no entry was found.
ReleaseUnknown(c) ==
    /\ pc[c] = "release"
    /\ tree' = [k \in Keys |-> IF tree[k] = agent[c] THEN Vacant ELSE tree[k]]
    /\ Goto(c, "sub")
    /\ UNCHANGED <<total, used, resets, issued, world, locals>>

\* One entry of the agent, whichever the map finds first, is removed; the slot
\* is given back unless there is none or it is the root's.
ReleaseSpawned(c) ==
    /\ pc[c] = "release"
    /\ \/ \E k \in Keys :
             /\ tree[k] = agent[c]
             /\ tree' = [tree EXCEPT ![k] = Vacant]
             /\ \/ k # RootPath /\ Goto(c, "sub") /\ UNCHANGED locals
                \/ k = RootPath /\ NextVictim(c)
       \/ /\ \A k \in Keys : tree[k] # agent[c]
          /\ NextVictim(c)
          /\ UNCHANGED tree
    /\ UNCHANGED <<total, used, resets, issued, world>>

ReleaseSlot(c) ==
    /\ pc[c] = "sub"
    /\ total' = total - 1
    /\ NextVictim(c)
    /\ UNCHANGED <<tree, used, resets, issued, world>>

\* The turn of the caller is interrupted: the future is dropped at an await. A
\* resume has one between the insertion of the thread and the commit
\* (apply_goal_resume_runtime_effects).
Cancel(c) ==
    /\ \/ /\ pc[c] = "prepare"
          /\ Goto(c, "drop_sub")
          /\ UNCHANGED locals
       \/ /\ pc[c] = "create" \/ (pc[c] = "created" /\ kind[c] = "resume")
          /\ Goto(c, DropLabel(c))
          /\ UNCHANGED locals
       \/ /\ pc[c] \in {"send", "stop", "stop_child", "remove"}
          /\ Return(c)
    /\ UNCHANGED <<registry, world>>

-----------------------------------------------------------------------------
Call(c) ==
    \/ \E p \in Paths \cup {NoPath}, a \in Parents : SpawnAgent(c, p, a)
    \/ SpawnPlain(c)
    \/ \E a \in Agents, b \in Parents : ResumeAgent(c, a, b)
    \/ \E a \in Agents : SendInput(c, a) \/ ShutdownLiveAgent(c, a)
    \/ \E a \in Agents \cup {Root} : CloseAgent(c, a)

Reserve(c) ==
    \/ LoadCount(c) \/ LimitReached(c) \/ CompareExchange(c) \/ FetchAdd(c)
    \/ Prepare(c) \/ RegisterRoot(c) \/ ReservePath(c)
    \/ PreferredNickname(c) \/ NextNickname(c)

Finalize(c) ==
    \/ CreateThread(c) \/ CreateFails(c) \/ Commit(c) \/ Send(c)
    \/ DropPath(c) \/ DropSlot(c)

Close(c) ==
    \/ Stop(c) \/ FlushFails(c) \/ RemoveThread(c) \/ ReleaseSpawned(c) \/ ReleaseSlot(c)

Next ==
    \/ \E c \in Callers : Call(c) \/ Reserve(c) \/ Finalize(c) \/ Close(c) \/ Cancel(c)
    \/ \E a \in Agents : AgentDies(a)

Spec == Init /\ [][Next]_vars

-----------------------------------------------------------------------------
(* Safety.                                                                 *)

Holders == {c \in Callers : pc[c] \in HoldingPcs}
Releasers == {c \in Callers : pc[c] = "sub"}
Registered == {k \in Keys \ {RootPath} : tree[k] \in Agents}

\* total_count covers every open reservation, every registered agent and every
\* slot about to be given back, so no fetch_sub of a drop, a close, a dead
\* thread or a repeated release wraps the counter below zero.
SlotsCovered ==
    total >= Cardinality(Holders) + Cardinality(Releasers) + Cardinality(Registered)

\* agent_max_threads holds for the registry whatever calls race: reservations
\* and registered agents together never exceed it.
RegisteredWithinLimit ==
    Limited => Cardinality(Holders) + Cardinality(Registered) <= MaxThreads

\* A path that a spawn has reserved stays reserved for that spawn until it is
\* committed or dropped: no other call reserves, overwrites or frees it.
PathHeld(c) == path[c] # NoPath /\ pc[c] \in {"nick", "create", "created", "drop_path"}
ReservedPathHeld ==
    \A c \in Callers : PathHeld(c) =>
        /\ tree[path[c]] = Reserved
        /\ \A d \in Callers \ {c} : PathHeld(d) => path[d] # path[c]

\* The pool hands a nickname out at most once between two resets, over failed and
\* cancelled spawns, closed agents, resumes that bring their own nickname, and
\* roles that share the pool. It comes again after a reset only where another
\* candidate is spelled like it ("Plato the 2nd" beside "Plato").
NicknameRepeatsExplained ==
    \A n \in Nicks, r \in Ordinals :
        /\ issued[r][n] <= 1
        /\ \A s \in Ordinals \ {r} : issued[r][n] > 0 /\ issued[s][n] > 0 =>
              \E m, k \in Names : m # k /\ Format[r][m] = n /\ Format[s][k] = n

-----------------------------------------------------------------------------
(* What the documentation and the tests say and the code does not always   *)
(* do.                                                                     *)

\* "slot released after thread removal" (registry_tests.rs): when no call is in
\* progress and no agent thread is left, no slot is taken.
SlotsReleased ==
    (\A c \in Callers : pc[c] = "ready") /\ threads \cap Agents = {} => total = 0
=============================================================================
