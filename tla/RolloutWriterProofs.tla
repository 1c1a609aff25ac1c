------------------------ MODULE RolloutWriterProofs ------------------------
(***************************************************************************)
(* Proofs about RolloutWriter, for any items, callers, channel capacity and *)
(* length of the conversation: what is in the file, what a barrier has      *)
(* confirmed, and that the writer implements RolloutLog.                   *)
(***************************************************************************)
EXTENDS RolloutWriter, SequenceTheorems, TLAPS

-----------------------------------------------------------------------------
(* The inductive invariant                                                 *)

\* The log up to the header, and up to what the writer has taken from the
\* channel.
Base == Len(file) + (IF meta THEN 1 ELSE 0)
Received == Base + Len(pending) - n
Step(cmd) == IF cmd.op = "AddItems" THEN 1 ELSE 0

\* Where the writer can be with a command and with the loop over its buffer.
ControlOK ==
    /\ n <= Len(pending)
    /\ pc # "items" => n = 0
    /\ pc = "items" => ~meta
    /\ pc = "meta" => meta
    /\ pc \in {"recv", "closed", "down"} => cur = NoCmd
    /\ pc \in {"open", "meta", "items", "ack"} => cur.op # "none"

\* The header comes first, and a file that was never created is empty.
HeaderOK ==
    /\ file # <<>> => exists
    /\ Running /\ ~exists => meta
    /\ pc \in {"meta", "items"} => exists
    /\ meta => file = <<>> /\ Len(recorded) >= 1 /\ recorded[1] = Meta

\* What is buffered and not yet written continues the file.
PendingOK ==
    /\ Received <= Len(recorded)
    /\ \A k \in 1..Len(pending) : k > n => pending[k] = recorded[Base + k - n]

\* A caller of a barrier waits and needs no more than was recorded before it.
WaitsFor(cmd, upto) ==
    /\ cmd.from \in Clients
    /\ call[cmd.from].st = "wait"
    /\ call[cmd.from].need <= upto
    /\ cmd.op # "Persist" => call[cmd.from].need # 1

QueuedOK(cmd) ==
    /\ cmd.op # "none"
    /\ cmd.upto <= Len(recorded)
    /\ cmd.op = "AddItems" => /\ cmd.from = NoClient
                              /\ cmd.item \in Items
                              /\ cmd.upto >= 1
                              /\ cmd.item = recorded[cmd.upto]
    /\ cmd.op \in Barriers => WaitsFor(cmd, cmd.upto)

ChannelOK == \A k \in 1..Len(channel) : QueuedOK(channel[k])

\* The channel continues what the writer has received, without a gap, up to the
\* end of the log.
ChainOK ==
    /\ channel = <<>> => Received = Len(recorded)
    /\ channel # <<>> => /\ channel[1].upto = Received + Step(channel[1])
                         /\ channel[Len(channel)].upto = Len(recorded)
    /\ \A k \in 1..Len(channel) - 1 :
           channel[k + 1].upto = channel[k].upto + Step(channel[k + 1])

\* Nobody waits for two commands.
DistinctOK ==
    /\ \A j, k \in 1..Len(channel) :
           j # k /\ channel[j].op \in Barriers => channel[j].from # channel[k].from
    /\ cur.op \in Barriers => \A k \in 1..Len(channel) : channel[k].from # cur.from

CurOK == cur.op \in Barriers => WaitsFor(cur, Received)

\* A command that succeeded has written all it was asked for.
AckOK ==
    pc = "ack" /\ res =>
        /\ cur.op \in Barriers => call[cur.from].need <= Len(file)
        /\ cur.op = "Shutdown" => pending = <<>>

\* Nothing is left of a writer that has ended but the file.
ClosedOK ==
    ~Running =>
        /\ channel = <<>> /\ pending = <<>>
        /\ ~meta /\ ~open
        /\ Len(recorded) = Len(file)

CallOK == \A c \in Clients : call[c].st # "wait" => call[c].need = 0

Inv ==
    /\ TypeOK
    /\ ControlOK
    /\ HeaderOK
    /\ InOrder
    /\ PendingOK
    /\ ChannelOK
    /\ ChainOK
    /\ DistinctOK
    /\ CurOK
    /\ AckOK
    /\ ClosedOK
    /\ CallOK
    /\ ConfirmedStored
    /\ DbBehindFile

-----------------------------------------------------------------------------
(* Every step keeps the invariant                                          *)

\* The writer's commands and the callers' answers have the right types.
LEMMA CmdTypes ==
    /\ NoCmd \in Cmds /\ NoCmd.op = "none"
    /\ \A op \in Ops, c \in Clients \cup {NoClient}, i \in Items \cup {Meta}, u \in Nat :
           Cmd(op, c, i, u) \in Cmds
  BY DEF NoCmd, Cmds, Cmd, Ops

\* Lengths and counters are natural numbers, and an empty sequence has length 0.
LEMMA Lengths ==
    ASSUME TypeOK
    PROVE  /\ Len(channel) \in Nat /\ Len(pending) \in Nat
           /\ Len(file) \in Nat /\ Len(recorded) \in Nat
           /\ n \in Nat /\ db \in Nat /\ confirmed \in Nat
           /\ Base \in Nat /\ Received \in Int
           /\ \A k \in 1..Len(channel) : channel[k] \in Cmds /\ channel[k].upto \in Nat
           /\ \A c \in Clients : call[c].need \in Nat
           /\ channel # <<>> => Len(channel) >= 1
           /\ file # <<>> => Len(file) >= 1
  <1>1. /\ Len(channel) \in Nat /\ Len(pending) \in Nat
        /\ Len(file) \in Nat /\ Len(recorded) \in Nat
        /\ channel # <<>> => Len(channel) >= 1
        /\ file # <<>> => Len(file) >= 1
    BY EmptySeq, LenProperties DEF TypeOK
  <1>2. \A k \in 1..Len(channel) : channel[k] \in Cmds /\ channel[k].upto \in Nat
    <2>1. \A k \in 1..Len(channel) : channel[k] \in Cmds
      BY ElementOfSeq DEF TypeOK
    <2> QED
      BY <2>1 DEF Cmds
  <1>3. \A c \in Clients : call[c].need \in Nat
    BY DEF TypeOK
  <1>4. n \in Nat /\ db \in Nat /\ confirmed \in Nat
    BY DEF TypeOK
  <1>5. Base \in Nat
    BY <1>1 DEF Base
  <1>6. Received \in Int
    BY <1>1, <1>4, <1>5 DEF Received
  <1> QED
    BY <1>1, <1>2, <1>3, <1>4, <1>5, <1>6

\* enter_recovery_mode: the retry, or the error.
LEMMA RecoverTypes ==
    ASSUME Recover
    PROVE  /\ open' \in BOOLEAN /\ res' \in BOOLEAN
           /\ attempt' \in 1..2
           /\ pc' \in {"open", "ack"}
  <1>1. open' \in BOOLEAN /\ res' \in BOOLEAN /\ pc' \in {"open", "ack"}
    BY Zenon DEF Recover
  <1>2. attempt' \in 1..2
    BY DEF Recover
  <1> QED
    BY <1>1, <1>2

\* drain(..written_count) keeps the rest of the buffer.
LEMMA Drained ==
    ASSUME TypeOK, n <= Len(pending), Drain
    PROVE  /\ pending' \in Seq(Items) /\ n' = 0
           /\ Len(pending') = Len(pending) - n
           /\ \A k \in 1..Len(pending') : pending'[k] = pending[k + n]
  <1>1. Len(pending) \in Nat /\ n \in Nat
    BY Lengths DEF TypeOK
  <1>2. \A k \in n + 1..Len(pending) : pending[k] \in Items
    BY <1>1, ElementOfSeq DEF TypeOK
  <1> QED
    BY <1>1, <1>2, SubSeqProperties DEF Drain

\* record_items continues the log and the channel alike.
LEMMA record_items_Inv ==
    ASSUME Inv, NEW i \in Items, record_items(i)
    PROVE  Inv'
  <1> USE DEF Inv
  <1>0. /\ Len(channel) \in Nat /\ Len(pending) \in Nat
        /\ Len(file) \in Nat /\ Len(recorded) \in Nat
        /\ n \in Nat /\ db \in Nat /\ confirmed \in Nat
        /\ Base \in Nat /\ Received \in Int
    BY Lengths
  <1>t. /\ \A k \in 1..Len(channel) : channel[k] \in Cmds /\ channel[k].upto \in Nat
        /\ \A c \in Clients : call[c].need \in Nat
    BY Lengths
  <1>a. /\ recorded' \in Seq(Items \cup {Meta})
        /\ Len(recorded') = Len(recorded) + 1
        /\ \A k \in 1..Len(recorded) : recorded'[k] = recorded[k]
        /\ recorded'[Len(recorded) + 1] = i
    BY AppendProperties DEF TypeOK, record_items
  <1>b. Cmd("AddItems", NoClient, i, Len(recorded) + 1) \in Cmds
    <2>1. "AddItems" \in Ops /\ Len(recorded) + 1 \in Nat
      BY <1>0 DEF Ops
    <2> QED
      BY <2>1, CmdTypes
  <1>c. /\ channel' \in Seq(Cmds)
        /\ channel' # <<>>
        /\ Len(channel') = Len(channel) + 1
        /\ \A k \in 1..Len(channel) : channel'[k] = channel[k]
        /\ channel'[Len(channel) + 1] = Cmd("AddItems", NoClient, i, Len(recorded) + 1)
    BY <1>b, AppendProperties DEF TypeOK, record_items
  <1>d. Base' = Base /\ Received' = Received
    BY DEF record_items, writer, Base, Received
  <1>e. LET cmd == Cmd("AddItems", NoClient, i, Len(recorded) + 1)
        IN  cmd.op = "AddItems" /\ cmd.from = NoClient /\ cmd.item = i
            /\ cmd.upto = Len(recorded) + 1
    BY DEF Cmd
  <1>1. TypeOK'
    BY <1>0, <1>a, <1>b, <1>c DEF TypeOK, record_items, writer
  <1>2. ControlOK'
    BY <1>0, <1>a, <1>b, <1>c DEF ControlOK, record_items, writer
  <1>3. HeaderOK'
    BY <1>0, <1>a, <1>b, <1>c DEF HeaderOK, record_items, writer, Running
  <1>4. InOrder'
    BY <1>0, <1>a, <1>b, <1>c DEF InOrder, record_items, writer
  <1>5. PendingOK'
    <2>1. \A k \in 1..Len(pending) : k > n => Base + k - n \in 1..Len(recorded)
      BY <1>0 DEF PendingOK, Received
    <2> QED
      BY <1>0, <1>a, <1>d, <2>1 DEF PendingOK, record_items, writer
  <1>6. ChannelOK'
    <2> SUFFICES ASSUME NEW k \in 1..Len(channel) + 1
                 PROVE  QueuedOK(channel[k])'
      BY <1>0, <1>c DEF ChannelOK
    <2>1. CASE k \in 1..Len(channel)
      <3>1. channel'[k] = channel[k] /\ QueuedOK(channel[k]) /\ channel[k].upto \in Nat
        BY <1>c, <1>t, <2>1 DEF ChannelOK
      <3>2. channel[k].op = "AddItems" => recorded'[channel[k].upto] = recorded[channel[k].upto]
        BY <1>0, <1>a, <3>1 DEF QueuedOK
      <3> QED
        BY <1>0, <1>a, <3>1, <3>2 DEF QueuedOK, WaitsFor, record_items
    <2>2. CASE k = Len(channel) + 1
      BY <1>0, <1>a, <1>c, <1>e, <2>2 DEF QueuedOK, Barriers
    <2> QED
      BY <1>0, <2>1, <2>2
  <1>7. ChainOK'
    <2>1. /\ channel'[Len(channel')].upto = Len(recorded) + 1
          /\ Step(channel'[Len(channel')]) = 1
          /\ Len(recorded') = Len(recorded) + 1
      BY <1>0, <1>a, <1>c, <1>e DEF Step
    <2>3. channel'[1].upto = Received + Step(channel'[1])
      <3>1. CASE channel = <<>>
        <4>1. Len(channel) = 0 /\ Received = Len(recorded)
          BY <3>1, EmptySeq DEF ChainOK
        <4> QED
          BY <1>0, <1>c, <2>1, <4>1
      <3>2. CASE channel # <<>>
        <4>1. 1 \in 1..Len(channel)
          BY <1>0, <3>2, EmptySeq DEF TypeOK
        <4>2. channel'[1] = channel[1]
          BY <1>c, <4>1
        <4> QED
          BY <3>2, <4>2 DEF ChainOK
      <3> QED
        BY <3>1, <3>2
    <2>4. ASSUME NEW k \in 1..Len(channel') - 1
          PROVE  channel'[k + 1].upto = channel'[k].upto + Step(channel'[k + 1])
      <3>1. CASE k < Len(channel)
        <4>1. k \in 1..Len(channel) - 1 /\ k \in 1..Len(channel) /\ k + 1 \in 1..Len(channel)
          BY <1>0, <1>c, <3>1
        <4>2. channel'[k] = channel[k] /\ channel'[k + 1] = channel[k + 1]
          BY <1>c, <4>1
        <4> QED
          BY <4>1, <4>2 DEF ChainOK
      <3>2. CASE k = Len(channel)
        <4>1. channel # <<>> /\ channel'[k] = channel[Len(channel)]
          BY <1>0, <1>c, <3>2, EmptySeq
        <4> QED
          BY <1>0, <1>c, <3>2, <2>1, <4>1 DEF ChainOK
      <3> QED
        BY <1>0, <1>c, <3>1, <3>2
    <2> QED
      BY <1>c, <1>d, <2>1, <2>3, <2>4 DEF ChainOK, Step
  <1>8. DistinctOK'
    <2>1. /\ channel'[Len(channel) + 1].op \notin Barriers
          /\ channel'[Len(channel) + 1].from = NoClient
      BY <1>c, <1>e DEF Barriers
    <2>2. /\ \A k \in 1..Len(channel) :
                 channel[k].op \in Barriers => channel[k].from # NoClient
          /\ cur.op \in Barriers => cur.from # NoClient
          /\ cur' = cur
      BY WriterAssumption DEF ChannelOK, QueuedOK, CurOK, WaitsFor, record_items, writer
    <2>3. \A k \in 1..Len(channel') : k \in 1..Len(channel) \/ k = Len(channel) + 1
      BY <1>0, <1>c
    <2>4. ASSUME NEW j \in 1..Len(channel'), NEW k \in 1..Len(channel'),
                 j # k, channel'[j].op \in Barriers
          PROVE  channel'[j].from # channel'[k].from
      <3>1. j \in 1..Len(channel) /\ channel'[j] = channel[j]
        BY <1>c, <2>1, <2>3, <2>4
      <3> QED
        BY <1>c, <2>1, <2>2, <2>3, <2>4, <3>1 DEF DistinctOK
    <2>5. ASSUME cur.op \in Barriers, NEW k \in 1..Len(channel')
          PROVE  channel'[k].from # cur.from
      BY <1>c, <2>1, <2>2, <2>3, <2>5 DEF DistinctOK
    <2> QED
      BY <2>2, <2>4, <2>5 DEF DistinctOK
  <1>9. CurOK'
    BY <1>0, <1>t, <1>a, <1>c, <1>d, <1>e DEF CurOK, WaitsFor, Barriers, record_items, writer
  <1>10. AckOK'
    BY <1>0, <1>a, <1>b, <1>c DEF AckOK, record_items, writer, Barriers
  <1>11. ClosedOK'
    BY <1>0, <1>a, <1>b, <1>c DEF ClosedOK, record_items, writer, Running
  <1>12. CallOK'
    BY <1>0, <1>a, <1>b, <1>c DEF CallOK, record_items, writer
  <1>13. ConfirmedStored'
    BY <1>0, <1>a, <1>b, <1>c DEF ConfirmedStored, record_items, writer
  <1>14. DbBehindFile'
    BY <1>0, <1>a, <1>b, <1>c DEF DbBehindFile, record_items, writer
  <1> QED
    BY <1>1, <1>2, <1>3, <1>4, <1>5, <1>6, <1>7, <1>8, <1>9, <1>10, <1>11, <1>12, <1>13, <1>14

\* A barrier is queued behind all that was recorded.
LEMMA barrier_Inv ==
    ASSUME Inv, NEW c \in Clients, NEW op \in Barriers, barrier(c, op)
    PROVE  Inv'
  <1> USE DEF Inv
  <1>0. /\ Len(channel) \in Nat /\ Len(pending) \in Nat
        /\ Len(file) \in Nat /\ Len(recorded) \in Nat
        /\ n \in Nat /\ db \in Nat /\ confirmed \in Nat
        /\ Base \in Nat /\ Received \in Int
    BY Lengths
  <1>t. /\ \A k \in 1..Len(channel) : channel[k] \in Cmds /\ channel[k].upto \in Nat
        /\ \A d \in Clients : call[d].need \in Nat
    BY Lengths
  <1>a. /\ Need(op) \in Nat
        /\ Need(op) <= Len(recorded)
        /\ op # "Persist" => Need(op) # 1
    <2>1. CASE Len(recorded) > 1
      <3> HIDE DEF Inv
      <3>0. \A L \in Nat : L > 1 => ~(L <= 1) /\ L # 1
        OBVIOUS
      <3>1. ~(Len(recorded) <= 1) /\ Len(recorded) # 1
        BY <1>0, <2>1, <3>0
      <3>2. Need(op) = Len(recorded)
        BY <3>1 DEF Need
      <3> QED
        BY <1>0, <3>1, <3>2
    <2>2. CASE Len(recorded) <= 1
      <3>1. CASE op = "Persist"
        BY <1>0, <3>1 DEF Need
      <3>2. CASE op # "Persist"
        <4>1. Need(op) = 0
          BY <2>2, <3>2 DEF Need
        <4> QED
          BY <1>0, <4>1
      <3> QED
        BY <3>1, <3>2
    <2> QED
      BY <1>0, <2>1, <2>2
  <1>b. Cmd(op, c, Meta, Len(recorded)) \in Cmds
    <2>1. op \in Ops
      BY DEF Ops
    <2> QED
      BY <1>0, <2>1, CmdTypes
  <1>c. /\ channel' \in Seq(Cmds)
        /\ channel' # <<>>
        /\ Len(channel') = Len(channel) + 1
        /\ \A k \in 1..Len(channel) : channel'[k] = channel[k]
        /\ channel'[Len(channel) + 1] = Cmd(op, c, Meta, Len(recorded))
    BY <1>b, AppendProperties DEF TypeOK, barrier
  <1>d. Base' = Base /\ Received' = Received
    BY DEF barrier, writer, Base, Received
  <1>e. LET cmd == Cmd(op, c, Meta, Len(recorded))
        IN  cmd.op = op /\ cmd.from = c /\ cmd.upto = Len(recorded)
    BY DEF Cmd
  <1>f. /\ call[c].st = "idle"
        /\ call'[c] = [st |-> "wait", need |-> Need(op)]
        /\ \A d \in Clients \ {c} : call'[d] = call[d]
    BY DEF TypeOK, barrier
  <1>g. op # "none" /\ op # "AddItems"
    BY DEF Barriers
  <1>h. /\ \A k \in 1..Len(channel) : channel[k].from # c
        /\ cur.op \in Barriers => cur.from # c
    <2>1. \A k \in 1..Len(channel) : channel[k].from # c
      <3> SUFFICES ASSUME NEW k \in 1..Len(channel) PROVE channel[k].from # c
        OBVIOUS
      <3>1. channel[k].op \in Ops
        BY <1>t DEF Cmds
      <3> QED
        BY <3>1, <1>f, WriterAssumption DEF ChannelOK, QueuedOK, WaitsFor, Ops
    <2> QED
      BY <2>1, <1>f DEF CurOK, WaitsFor
  <1>1. TypeOK'
    BY <1>0, <1>a, <1>b, <1>c DEF TypeOK, barrier, writer
  <1>2. ControlOK'
    BY <1>0, <1>a, <1>b, <1>c DEF ControlOK, barrier, writer
  <1>3. HeaderOK'
    BY <1>0, <1>a, <1>b, <1>c DEF HeaderOK, barrier, writer, Running
  <1>4. InOrder'
    BY <1>0, <1>a, <1>b, <1>c DEF InOrder, barrier, writer
  <1>5. PendingOK'
    BY <1>0, <1>t, <1>a, <1>c, <1>d, <1>e, <1>f, <1>g DEF PendingOK, barrier, writer
  <1>6. ChannelOK'
    <2> SUFFICES ASSUME NEW k \in 1..Len(channel) + 1
                 PROVE  QueuedOK(channel[k])'
      BY <1>0, <1>c DEF ChannelOK
    <2>0. recorded' = recorded
      BY DEF barrier
    <2>1. CASE k \in 1..Len(channel)
      <3>1. channel'[k] = channel[k] /\ QueuedOK(channel[k]) /\ channel[k].from # c
        BY <1>c, <1>h, <2>1 DEF ChannelOK
      <3>2. channel[k].op \in Barriers => call'[channel[k].from] = call[channel[k].from]
        BY <1>f, <3>1 DEF QueuedOK, WaitsFor
      <3> QED
        BY <2>0, <3>1, <3>2 DEF QueuedOK, WaitsFor
    <2>2. CASE k = Len(channel) + 1
      <3>1. channel'[k].op = op /\ channel'[k].from = c /\ channel'[k].upto = Len(recorded)
        BY <1>c, <1>e, <2>2
      <3> QED
        BY <1>0, <1>a, <1>f, <1>g, <2>0, <3>1 DEF QueuedOK, WaitsFor
    <2> QED
      BY <1>0, <2>1, <2>2
  <1>7. ChainOK'
    <2>1. /\ channel'[Len(channel')].upto = Len(recorded)
          /\ Step(channel'[Len(channel')]) = 0
      BY <1>0, <1>c, <1>e, <1>g DEF Step
    <2>2. recorded' = recorded
      BY DEF barrier
    <2>3. channel'[1].upto = Received + Step(channel'[1])
      <3>1. CASE channel = <<>>
        <4>1. Len(channel) = 0 /\ Received = Len(recorded)
          BY <3>1, EmptySeq DEF ChainOK
        <4> QED
          BY <1>0, <1>c, <2>1, <4>1
      <3>2. CASE channel # <<>>
        <4>1. 1 \in 1..Len(channel)
          BY <1>0, <3>2, EmptySeq DEF TypeOK
        <4>2. channel'[1] = channel[1]
          BY <1>c, <4>1
        <4> QED
          BY <3>2, <4>2 DEF ChainOK
      <3> QED
        BY <3>1, <3>2
    <2>4. ASSUME NEW k \in 1..Len(channel') - 1
          PROVE  channel'[k + 1].upto = channel'[k].upto + Step(channel'[k + 1])
      <3>1. CASE k < Len(channel)
        <4>1. k \in 1..Len(channel) - 1 /\ k \in 1..Len(channel) /\ k + 1 \in 1..Len(channel)
          BY <1>0, <1>c, <3>1
        <4>2. channel'[k] = channel[k] /\ channel'[k + 1] = channel[k + 1]
          BY <1>c, <4>1
        <4> QED
          BY <4>1, <4>2 DEF ChainOK
      <3>2. CASE k = Len(channel)
        <4>1. channel # <<>> /\ channel'[k] = channel[Len(channel)]
          BY <1>0, <1>c, <3>2, EmptySeq
        <4> QED
          BY <1>0, <1>c, <3>2, <2>1, <4>1 DEF ChainOK
      <3> QED
        BY <1>0, <1>c, <3>1, <3>2
    <2> QED
      BY <1>c, <1>d, <2>1, <2>2, <2>3, <2>4 DEF ChainOK, Step
  <1>8. DistinctOK'
    BY <1>0, <1>c, <1>e, <1>h DEF DistinctOK, barrier, writer
  <1>9. CurOK'
    BY <1>0, <1>d, <1>f, <1>h DEF CurOK, barrier, writer, WaitsFor
  <1>10. AckOK'
    BY <1>0, <1>f, <1>h DEF AckOK, barrier, writer, CurOK, WaitsFor, Barriers
  <1>11. ClosedOK'
    BY <1>0, <1>a, <1>b, <1>c DEF ClosedOK, barrier, writer, Running
  <1>12. CallOK'
    BY <1>0, <1>a, <1>b, <1>c DEF CallOK, barrier, writer
  <1>13. ConfirmedStored'
    BY <1>0, <1>a, <1>b, <1>c DEF ConfirmedStored, barrier, writer
  <1>14. DbBehindFile'
    BY <1>0, <1>a, <1>b, <1>c DEF DbBehindFile, barrier, writer
  <1> QED
    BY <1>1, <1>2, <1>3, <1>4, <1>5, <1>6, <1>7, <1>8, <1>9, <1>10, <1>11, <1>12, <1>13, <1>14

\* A caller that finds the channel closed is told so.
LEMMA barrier_closed_Inv ==
    ASSUME Inv, NEW c \in Clients, barrier_closed(c)
    PROVE  Inv'
  <1> USE DEF Inv
  <1>0. /\ Len(channel) \in Nat /\ Len(pending) \in Nat
        /\ Len(file) \in Nat /\ Len(recorded) \in Nat
        /\ n \in Nat /\ db \in Nat /\ confirmed \in Nat
        /\ Base \in Nat /\ Received \in Int
    BY Lengths
  <1>t. /\ \A k \in 1..Len(channel) : channel[k] \in Cmds /\ channel[k].upto \in Nat
        /\ \A d \in Clients : call[d].need \in Nat
    BY Lengths
  <1>1. TypeOK'
    BY <1>0 DEF TypeOK, barrier_closed, writer, Answer
  <1>2. ControlOK'
    BY <1>0 DEF ControlOK, barrier_closed, writer, Answer
  <1>3. HeaderOK'
    BY <1>0 DEF HeaderOK, barrier_closed, writer, Answer, Running
  <1>4. InOrder'
    BY <1>0 DEF InOrder, barrier_closed, writer, Answer
  <1>5. PendingOK'
    BY <1>0 DEF PendingOK, barrier_closed, writer, Answer, Received, Base
  <1>6. ChannelOK'
    BY <1>0 DEF ChannelOK, barrier_closed, writer, Answer, QueuedOK, WaitsFor, Barriers
  <1>7. ChainOK'
    BY <1>0 DEF ChainOK, barrier_closed, writer, Answer, Received, Base, Step
  <1>8. DistinctOK'
    BY <1>0 DEF DistinctOK, barrier_closed, writer, Answer, Barriers
  <1>9. CurOK'
    BY <1>0 DEF CurOK, barrier_closed, writer, Answer, WaitsFor, Received, Base, Barriers
  <1>10. AckOK'
    BY <1>0 DEF AckOK, barrier_closed, writer, Answer, Barriers
  <1>11. ClosedOK'
    BY <1>0 DEF ClosedOK, barrier_closed, writer, Answer, Running
  <1>12. CallOK'
    BY <1>0 DEF CallOK, barrier_closed, writer, Answer
  <1>13. ConfirmedStored'
    BY <1>0 DEF ConfirmedStored, barrier_closed, writer, Answer
  <1>14. DbBehindFile'
    BY <1>0 DEF DbBehindFile, barrier_closed, writer, Answer
  <1> QED
    BY <1>1, <1>2, <1>3, <1>4, <1>5, <1>6, <1>7, <1>8, <1>9, <1>10, <1>11, <1>12, <1>13, <1>14

\* A caller takes its answer.
LEMMA barrier_returns_Inv ==
    ASSUME Inv, NEW c \in Clients, barrier_returns(c)
    PROVE  Inv'
  <1> USE DEF Inv
  <1>0. /\ Len(channel) \in Nat /\ Len(pending) \in Nat
        /\ Len(file) \in Nat /\ Len(recorded) \in Nat
        /\ n \in Nat /\ db \in Nat /\ confirmed \in Nat
        /\ Base \in Nat /\ Received \in Int
    BY Lengths
  <1>t. /\ \A k \in 1..Len(channel) : channel[k] \in Cmds /\ channel[k].upto \in Nat
        /\ \A d \in Clients : call[d].need \in Nat
    BY Lengths
  <1>1. TypeOK'
    BY <1>0 DEF TypeOK, barrier_returns, writer, Idle
  <1>2. ControlOK'
    BY <1>0 DEF ControlOK, barrier_returns, writer, Idle
  <1>3. HeaderOK'
    BY <1>0 DEF HeaderOK, barrier_returns, writer, Idle, Running
  <1>4. InOrder'
    BY <1>0 DEF InOrder, barrier_returns, writer, Idle
  <1>5. PendingOK'
    BY <1>0 DEF PendingOK, barrier_returns, writer, Idle, Received, Base
  <1>6. ChannelOK'
    BY <1>0 DEF ChannelOK, barrier_returns, writer, Idle, QueuedOK, WaitsFor, Barriers
  <1>7. ChainOK'
    BY <1>0 DEF ChainOK, barrier_returns, writer, Idle, Received, Base, Step
  <1>8. DistinctOK'
    BY <1>0 DEF DistinctOK, barrier_returns, writer, Idle, Barriers
  <1>9. CurOK'
    BY <1>0 DEF CurOK, barrier_returns, writer, Idle, WaitsFor, Received, Base, Barriers
  <1>10. AckOK'
    BY <1>0 DEF AckOK, barrier_returns, writer, Idle, Barriers
  <1>11. ClosedOK'
    BY <1>0 DEF ClosedOK, barrier_returns, writer, Idle, Running
  <1>12. CallOK'
    BY <1>0 DEF CallOK, barrier_returns, writer, Idle
  <1>13. ConfirmedStored'
    BY <1>0 DEF ConfirmedStored, barrier_returns, writer, Idle
  <1>14. DbBehindFile'
    BY <1>0 DEF DbBehindFile, barrier_returns, writer, Idle
  <1> QED
    BY <1>1, <1>2, <1>3, <1>4, <1>5, <1>6, <1>7, <1>8, <1>9, <1>10, <1>11, <1>12, <1>13, <1>14

\* The writer takes the next command; what AddItems carries is the next item.
LEMMA recv_Inv ==
    ASSUME Inv, recv
    PROVE  Inv'
  <1> USE DEF Inv
  <1>0. /\ Len(channel) \in Nat /\ Len(pending) \in Nat
        /\ Len(file) \in Nat /\ Len(recorded) \in Nat
        /\ n \in Nat /\ db \in Nat /\ confirmed \in Nat
        /\ Base \in Nat /\ Received \in Int
    BY Lengths
  <1>t. /\ \A k \in 1..Len(channel) : channel[k] \in Cmds /\ channel[k].upto \in Nat
        /\ \A c \in Clients : call[c].need \in Nat
    BY Lengths
  <1>a. /\ channel' \in Seq(Cmds)
        /\ Len(channel) >= 1
        /\ Len(channel') = Len(channel) - 1
        /\ \A k \in 1..Len(channel') : channel'[k] = channel[k + 1]
        /\ cur' = channel[1] /\ cur' \in Cmds
    BY Lengths, HeadTailProperties DEF TypeOK, recv
  <1>b. /\ pending' \in Seq(Items)
        /\ Len(pending') = Len(pending) + Step(channel[1])
        /\ \A k \in 1..Len(pending) : pending'[k] = pending[k]
        /\ channel[1].op = "AddItems" => pending'[Len(pending) + 1] = channel[1].item
    BY <1>a, AppendProperties DEF TypeOK, recv, Step, ChannelOK, QueuedOK
  <1>c. Step(channel[1]) \in 0..1 /\ (Step(channel[1]) = 1 <=> channel[1].op = "AddItems")
    BY DEF Step
  <1>d. Base' = Base /\ n = 0 /\ n' = 0 /\ Received' = Received + Step(channel[1])
    <2>1. n = 0 /\ n' = 0 /\ file' = file /\ meta' = meta
      BY DEF recv, ControlOK
    <2>2. Base' = Base
      BY <2>1 DEF Base
    <2> QED
      BY <1>0, <1>b, <1>c, <2>1, <2>2 DEF Received
  <1>e. /\ channel[1].upto = Received + Step(channel[1])
        /\ channel[1].upto \in Nat /\ channel[1].upto <= Len(recorded)
        /\ QueuedOK(channel[1])
    BY <1>0, <1>t, <1>a, EmptySeq DEF ChainOK, ChannelOK, QueuedOK
  <1>f. recorded' = recorded /\ call' = call /\ file' = file
    BY DEF recv
  <1>g. channel' = <<>> <=> Len(channel) = 1
    BY <1>0, <1>a, EmptySeq
  <1>1. TypeOK'
    BY <1>0, <1>a, <1>b DEF TypeOK, recv
  <1>2. ControlOK'
    BY <1>0, <1>a, <1>b, <1>c, <1>d, <1>e DEF ControlOK, recv, QueuedOK
  <1>3. HeaderOK'
    BY <1>0, <1>a, <1>b DEF HeaderOK, recv, Running
  <1>4. InOrder'
    BY <1>0, <1>a, <1>b DEF InOrder, recv
  <1>5. PendingOK'
    <2>1. Received' <= Len(recorded)
      BY <1>d, <1>e
    <2>2. ASSUME NEW k \in 1..Len(pending'), k > n'
          PROVE  pending'[k] = recorded[Base + k]
      <3>1. CASE k <= Len(pending)
        BY <1>0, <1>b, <1>d, <2>2, <3>1 DEF PendingOK
      <3>2. CASE k = Len(pending) + 1
        BY <1>0, <1>b, <1>c, <1>d, <1>e, <2>2, <3>2 DEF QueuedOK, Received
      <3> QED
        BY <1>0, <1>b, <1>c, <3>1, <3>2
    <2> QED
      BY <1>0, <1>d, <1>f, <2>1, <2>2 DEF PendingOK
  <1>6. ChannelOK'
    BY <1>0, <1>a, <1>b DEF ChannelOK, recv, QueuedOK, WaitsFor, Barriers
  <1>7. ChainOK'
    <2>1. CASE Len(channel) = 1
      <3>1. channel # <<>> /\ channel' = <<>> /\ Len(channel') = 0
        BY <1>a, <1>g, <2>1, EmptySeq
      <3>2. channel[1].upto = Len(recorded)
        BY <2>1, <3>1 DEF ChainOK
      <3> QED
        BY <1>d, <1>e, <1>f, <3>1, <3>2 DEF ChainOK
    <2>2. CASE Len(channel) > 1
      <3>1. channel # <<>>
        BY <2>2, EmptySeq
      <3>2. channel'[1].upto = Received' + Step(channel'[1])
        BY <1>0, <1>a, <1>d, <1>e, <2>2 DEF ChainOK
      <3>3. channel'[Len(channel')].upto = Len(recorded')
        BY SMTT(30), <1>0, <1>a, <1>f, <2>2, <3>1 DEF ChainOK
      <3>4. \A k \in 1..Len(channel') - 1 :
                channel'[k + 1].upto = channel'[k].upto + Step(channel'[k + 1])
        BY SMTT(30), <1>0, <1>a, <2>2 DEF ChainOK
      <3> QED
        BY <1>g, <2>2, <3>2, <3>3, <3>4 DEF ChainOK, Step
    <2> QED
      BY <1>0, <1>a, <2>1, <2>2
  <1>8. DistinctOK'
    BY <1>0, <1>a, <1>b DEF DistinctOK, recv, Barriers
  <1>9. CurOK'
    BY <1>0, <1>a, <1>c, <1>d, <1>e, <1>f DEF CurOK, WaitsFor, QueuedOK, Barriers
  <1>10. AckOK'
    <2> SUFFICES ASSUME pc' = "ack", cur'.op \in Barriers
                 PROVE  call[cur'.from].need <= Len(file) /\ pending' = <<>>
      BY <1>f DEF AckOK, Barriers
    <2>1. /\ is_deferred /\ pending' = <<>> /\ pending = <<>>
          /\ cur'.op # "Persist"
      BY DEF recv, Barriers
    <2>2. meta /\ file = <<>>
      BY <2>1 DEF is_deferred, HeaderOK, Running, recv
    <2>3. Received = 1
      BY <1>d, <2>1, <2>2, EmptySeq DEF Received, Base
    <2>4. call[cur'.from].need <= 1 /\ call[cur'.from].need # 1 /\ cur'.from \in Clients
      BY <1>0, <1>a, <1>c, <1>e, <2>1, <2>3 DEF QueuedOK, WaitsFor, Barriers
    <2> QED
      BY <1>0, <1>t, <2>1, <2>4
  <1>11. ClosedOK'
    BY <1>0, <1>a, <1>b DEF ClosedOK, recv, Running
  <1>12. CallOK'
    BY <1>0, <1>a, <1>b DEF CallOK, recv
  <1>13. ConfirmedStored'
    BY <1>0, <1>a, <1>b DEF ConfirmedStored, recv
  <1>14. DbBehindFile'
    BY <1>0, <1>a, <1>b DEF DbBehindFile, recv
  <1> QED
    BY <1>1, <1>2, <1>3, <1>4, <1>5, <1>6, <1>7, <1>8, <1>9, <1>10, <1>11, <1>12, <1>13, <1>14

\* ensure_writer_open materializes the file.
LEMMA ensure_writer_open_Inv ==
    ASSUME Inv, ensure_writer_open
    PROVE  Inv'
  <1> USE DEF Inv
  <1>0. /\ Len(channel) \in Nat /\ Len(pending) \in Nat
        /\ Len(file) \in Nat /\ Len(recorded) \in Nat
        /\ n \in Nat /\ db \in Nat /\ confirmed \in Nat
        /\ Base \in Nat /\ Received \in Int
    BY Lengths
  <1>t. /\ \A k \in 1..Len(channel) : channel[k] \in Cmds /\ channel[k].upto \in Nat
        /\ \A c \in Clients : call[c].need \in Nat
    BY Lengths
  <1>1. TypeOK'
    BY <1>0 DEF TypeOK, ensure_writer_open
  <1>2. ControlOK'
    BY <1>0 DEF ControlOK, ensure_writer_open
  <1>3. HeaderOK'
    BY <1>0 DEF HeaderOK, ensure_writer_open, Running
  <1>4. InOrder'
    BY <1>0 DEF InOrder, ensure_writer_open
  <1>5. PendingOK'
    BY <1>0 DEF PendingOK, ensure_writer_open, Received, Base
  <1>6. ChannelOK'
    BY <1>0 DEF ChannelOK, ensure_writer_open, QueuedOK, WaitsFor, Barriers
  <1>7. ChainOK'
    BY <1>0 DEF ChainOK, ensure_writer_open, Received, Base, Step
  <1>8. DistinctOK'
    BY <1>0 DEF DistinctOK, ensure_writer_open, Barriers
  <1>9. CurOK'
    BY <1>0 DEF CurOK, ensure_writer_open, WaitsFor, Received, Base, Barriers
  <1>10. AckOK'
    BY <1>0 DEF AckOK, ensure_writer_open, Barriers
  <1>11. ClosedOK'
    BY <1>0 DEF ClosedOK, ensure_writer_open, Running
  <1>12. CallOK'
    BY <1>0 DEF CallOK, ensure_writer_open
  <1>13. ConfirmedStored'
    BY <1>0 DEF ConfirmedStored, ensure_writer_open
  <1>14. DbBehindFile'
    BY <1>0 DEF DbBehindFile, ensure_writer_open
  <1> QED
    BY <1>1, <1>2, <1>3, <1>4, <1>5, <1>6, <1>7, <1>8, <1>9, <1>10, <1>11, <1>12, <1>13, <1>14

\* A failed open drops the handle.
LEMMA open_fails_Inv ==
    ASSUME Inv, open_fails
    PROVE  Inv'
  <1> USE DEF Inv
  <1>0. /\ Len(channel) \in Nat /\ Len(pending) \in Nat
        /\ Len(file) \in Nat /\ Len(recorded) \in Nat
        /\ n \in Nat /\ db \in Nat /\ confirmed \in Nat
        /\ Base \in Nat /\ Received \in Int
    BY Lengths
  <1>t. /\ \A k \in 1..Len(channel) : channel[k] \in Cmds /\ channel[k].upto \in Nat
        /\ \A c \in Clients : call[c].need \in Nat
    BY Lengths
  <1>1. TypeOK'
    BY RecoverTypes DEF TypeOK, open_fails
  <1>2. ControlOK'
    BY <1>0 DEF ControlOK, open_fails, Recover
  <1>3. HeaderOK'
    BY <1>0 DEF HeaderOK, open_fails, Recover, Running
  <1>4. InOrder'
    BY <1>0 DEF InOrder, open_fails, Recover
  <1>5. PendingOK'
    BY <1>0 DEF PendingOK, open_fails, Recover, Received, Base
  <1>6. ChannelOK'
    BY <1>0 DEF ChannelOK, open_fails, Recover, QueuedOK, WaitsFor, Barriers
  <1>7. ChainOK'
    BY <1>0 DEF ChainOK, open_fails, Recover, Received, Base, Step
  <1>8. DistinctOK'
    BY <1>0 DEF DistinctOK, open_fails, Recover, Barriers
  <1>9. CurOK'
    BY <1>0 DEF CurOK, open_fails, Recover, WaitsFor, Received, Base, Barriers
  <1>10. AckOK'
    BY <1>0 DEF AckOK, open_fails, Recover, Barriers
  <1>11. ClosedOK'
    BY <1>0 DEF ClosedOK, open_fails, Recover, Running
  <1>12. CallOK'
    BY <1>0 DEF CallOK, open_fails, Recover
  <1>13. ConfirmedStored'
    BY <1>0 DEF ConfirmedStored, open_fails, Recover
  <1>14. DbBehindFile'
    BY <1>0 DEF DbBehindFile, open_fails, Recover
  <1> QED
    BY <1>1, <1>2, <1>3, <1>4, <1>5, <1>6, <1>7, <1>8, <1>9, <1>10, <1>11, <1>12, <1>13, <1>14

\* The header becomes the first line.
LEMMA write_session_meta_Inv ==
    ASSUME Inv, write_session_meta
    PROVE  Inv'
  <1> USE DEF Inv
  <1>0. /\ Len(channel) \in Nat /\ Len(pending) \in Nat
        /\ Len(file) \in Nat /\ Len(recorded) \in Nat
        /\ n \in Nat /\ db \in Nat /\ confirmed \in Nat
        /\ Base \in Nat /\ Received \in Int
    BY Lengths
  <1>t. /\ \A k \in 1..Len(channel) : channel[k] \in Cmds /\ channel[k].upto \in Nat
        /\ \A c \in Clients : call[c].need \in Nat
    BY Lengths
  <1>a. /\ file' \in Seq([item : Items \cup {Meta}, ok : BOOLEAN])
        /\ Len(file') = Len(file) + 1
        /\ \A k \in 1..Len(file) : file'[k] = file[k]
        /\ file'[Len(file) + 1].item = Meta
        /\ torn' \in BOOLEAN
    <2>1. [item |-> Meta, ok |-> ~torn] \in [item : Items \cup {Meta}, ok : BOOLEAN]
      BY Zenon DEF TypeOK
    <2>2. torn' \in BOOLEAN
      BY DEF write_session_meta, WriteLine
    <2>3. file \in Seq([item : Items \cup {Meta}, ok : BOOLEAN])
      BY DEF TypeOK
    <2>4. file' = Append(file, [item |-> Meta, ok |-> ~torn])
      BY DEF write_session_meta, WriteLine
    <2> HIDE DEF Inv
    <2>5. /\ file' \in Seq([item : Items \cup {Meta}, ok : BOOLEAN])
          /\ Len(file') = Len(file) + 1
          /\ \A k \in 1..Len(file) : file'[k] = file[k]
          /\ file'[Len(file) + 1] = [item |-> Meta, ok |-> ~torn]
      BY <2>1, <2>3, <2>4, AppendProperties
    <2> QED
      BY <2>2, <2>5
  <1>b. db' \in Nat /\ db' <= Len(file) + 1
    BY <1>0 DEF TypeOK, DbBehindFile, write_session_meta, SyncDb
  <1>c. /\ meta /\ ~meta' /\ Len(file) = 0 /\ Len(recorded) >= 1 /\ recorded[1] = Meta
        /\ Base' = Base /\ Received' = Received
        /\ UNCHANGED <<recorded, pending, n, channel, call, cur>>
    BY <1>0, <1>a, EmptySeq DEF ControlOK, HeaderOK, write_session_meta, Base, Received
  <1>1. TypeOK'
    BY <1>0, <1>a, <1>b, <1>c DEF TypeOK, write_session_meta
  <1>2. ControlOK'
    BY <1>0, <1>a, <1>b, <1>c DEF ControlOK, write_session_meta
  <1>3. HeaderOK'
    BY <1>0, <1>a, <1>b, <1>c DEF HeaderOK, write_session_meta, Running
  <1>4. InOrder'
    BY <1>0, <1>a, <1>b, <1>c DEF InOrder, write_session_meta
  <1>5. PendingOK'
    BY <1>0, <1>t, <1>c DEF PendingOK, write_session_meta
  <1>6. ChannelOK'
    BY <1>0, <1>a, <1>b, <1>c DEF ChannelOK, write_session_meta, QueuedOK, WaitsFor, Barriers
  <1>7. ChainOK'
    BY <1>0, <1>t, <1>c DEF ChainOK, Step, write_session_meta
  <1>8. DistinctOK'
    BY <1>0, <1>a, <1>b, <1>c DEF DistinctOK, write_session_meta, Barriers
  <1>9. CurOK'
    BY <1>0, <1>t, <1>c DEF CurOK, WaitsFor, Barriers, write_session_meta
  <1>10. AckOK'
    BY <1>0, <1>a, <1>b, <1>c DEF AckOK, write_session_meta, Barriers
  <1>11. ClosedOK'
    BY <1>0, <1>a, <1>b, <1>c DEF ClosedOK, write_session_meta, Running
  <1>12. CallOK'
    BY <1>0, <1>a, <1>b, <1>c DEF CallOK, write_session_meta
  <1>13. ConfirmedStored'
    BY <1>0, <1>a, <1>b, <1>c DEF ConfirmedStored, write_session_meta
  <1>14. DbBehindFile'
    BY <1>0, <1>a, <1>b, <1>c DEF DbBehindFile, write_session_meta
  <1> QED
    BY <1>1, <1>2, <1>3, <1>4, <1>5, <1>6, <1>7, <1>8, <1>9, <1>10, <1>11, <1>12, <1>13, <1>14

\* A failed write of the header leaves it to be written.
LEMMA write_session_meta_fails_Inv ==
    ASSUME Inv, write_session_meta_fails
    PROVE  Inv'
  <1> USE DEF Inv
  <1>0. /\ Len(channel) \in Nat /\ Len(pending) \in Nat
        /\ Len(file) \in Nat /\ Len(recorded) \in Nat
        /\ n \in Nat /\ db \in Nat /\ confirmed \in Nat
        /\ Base \in Nat /\ Received \in Int
    BY Lengths
  <1>t. /\ \A k \in 1..Len(channel) : channel[k] \in Cmds /\ channel[k].upto \in Nat
        /\ \A c \in Clients : call[c].need \in Nat
    BY Lengths
  <1>1. TypeOK'
    BY RecoverTypes DEF TypeOK, write_session_meta_fails, WriteFails
  <1>2. ControlOK'
    BY <1>0 DEF ControlOK, write_session_meta_fails, Recover, WriteFails
  <1>3. HeaderOK'
    BY <1>0 DEF HeaderOK, write_session_meta_fails, Recover, WriteFails, Running
  <1>4. InOrder'
    BY <1>0 DEF InOrder, write_session_meta_fails, Recover, WriteFails
  <1>5. PendingOK'
    BY <1>0 DEF PendingOK, write_session_meta_fails, Recover, WriteFails, Received, Base
  <1>6. ChannelOK'
    BY <1>0 DEF ChannelOK, write_session_meta_fails, Recover, WriteFails, QueuedOK, WaitsFor, Barriers
  <1>7. ChainOK'
    BY <1>0 DEF ChainOK, write_session_meta_fails, Recover, WriteFails, Received, Base, Step
  <1>8. DistinctOK'
    BY <1>0 DEF DistinctOK, write_session_meta_fails, Recover, WriteFails, Barriers
  <1>9. CurOK'
    BY <1>0 DEF CurOK, write_session_meta_fails, Recover, WriteFails, WaitsFor, Received, Base, Barriers
  <1>10. AckOK'
    BY <1>0 DEF AckOK, write_session_meta_fails, Recover, WriteFails, Barriers
  <1>11. ClosedOK'
    BY <1>0 DEF ClosedOK, write_session_meta_fails, Recover, WriteFails, Running
  <1>12. CallOK'
    BY <1>0 DEF CallOK, write_session_meta_fails, Recover, WriteFails
  <1>13. ConfirmedStored'
    BY <1>0 DEF ConfirmedStored, write_session_meta_fails, Recover, WriteFails
  <1>14. DbBehindFile'
    BY <1>0 DEF DbBehindFile, write_session_meta_fails, Recover, WriteFails
  <1> QED
    BY <1>1, <1>2, <1>3, <1>4, <1>5, <1>6, <1>7, <1>8, <1>9, <1>10, <1>11, <1>12, <1>13, <1>14

\* The next item of the buffer becomes the next line.
LEMMA write_rollout_item_Inv ==
    ASSUME Inv, write_rollout_item
    PROVE  Inv'
  <1> USE DEF Inv
  <1>0. /\ Len(channel) \in Nat /\ Len(pending) \in Nat
        /\ Len(file) \in Nat /\ Len(recorded) \in Nat
        /\ n \in Nat /\ db \in Nat /\ confirmed \in Nat
        /\ Base \in Nat /\ Received \in Int
    BY Lengths
  <1>t. /\ \A k \in 1..Len(channel) : channel[k] \in Cmds /\ channel[k].upto \in Nat
        /\ \A c \in Clients : call[c].need \in Nat
    BY Lengths
  <1>b. n + 1 \in 1..Len(pending) /\ pending[n + 1] \in Items
    BY <1>0, ElementOfSeq DEF TypeOK, write_rollout_item
  <1>a. /\ file' \in Seq([item : Items \cup {Meta}, ok : BOOLEAN])
        /\ Len(file') = Len(file) + 1
        /\ \A k \in 1..Len(file) : file'[k] = file[k]
        /\ file'[Len(file) + 1].item = pending[n + 1]
        /\ torn' \in BOOLEAN
    <2>1. [item |-> pending[n + 1], ok |-> ~torn] \in [item : Items \cup {Meta}, ok : BOOLEAN]
      BY <1>b, Zenon DEF TypeOK
    <2>2. torn' \in BOOLEAN
      BY DEF write_rollout_item, WriteLine
    <2>3. file \in Seq([item : Items \cup {Meta}, ok : BOOLEAN])
      BY DEF TypeOK
    <2>4. file' = Append(file, [item |-> pending[n + 1], ok |-> ~torn])
      BY DEF write_rollout_item, WriteLine
    <2> HIDE DEF Inv
    <2>5. /\ file' \in Seq([item : Items \cup {Meta}, ok : BOOLEAN])
          /\ Len(file') = Len(file) + 1
          /\ \A k \in 1..Len(file) : file'[k] = file[k]
          /\ file'[Len(file) + 1] = [item |-> pending[n + 1], ok |-> ~torn]
      BY <2>1, <2>3, <2>4, AppendProperties
    <2> QED
      BY <2>2, <2>5
  <1>c. /\ ~meta /\ ~meta' /\ Base = Len(file) /\ Base' = Len(file) + 1 /\ n' = n + 1
        /\ Received' = Received
        /\ UNCHANGED <<recorded, pending, channel, call, cur>>
    BY <1>0, <1>a DEF ControlOK, write_rollout_item, Base, Received
  <1>d. Len(file) + 1 <= Len(recorded) /\ recorded[Len(file) + 1] = pending[n + 1]
    BY <1>0, <1>b, <1>c DEF PendingOK, Received
  <1>1. TypeOK'
    <2>1. n' \in Nat
      BY <1>0, <1>c
    <2> QED
      BY <1>a, <2>1 DEF TypeOK, write_rollout_item
  <1>2. ControlOK'
    BY <1>0, <1>a, <1>b, <1>c DEF ControlOK, write_rollout_item
  <1>3. HeaderOK'
    BY <1>c DEF HeaderOK, write_rollout_item, Running, ControlOK
  <1>4. InOrder'
    BY <1>0, <1>a, <1>c, <1>d DEF InOrder
  <1>5. PendingOK'
    BY <1>0, <1>b, <1>c DEF PendingOK
  <1>6. ChannelOK'
    BY <1>0, <1>a, <1>b, <1>c DEF ChannelOK, write_rollout_item, QueuedOK, WaitsFor, Barriers
  <1>7. ChainOK'
    BY <1>0, <1>t, <1>a, <1>b, <1>c DEF ChainOK, Step, write_rollout_item
  <1>8. DistinctOK'
    BY <1>0, <1>a, <1>b, <1>c DEF DistinctOK, write_rollout_item, Barriers
  <1>9. CurOK'
    BY <1>0, <1>t, <1>a, <1>b, <1>c DEF CurOK, WaitsFor, Barriers, write_rollout_item
  <1>10. AckOK'
    BY <1>0, <1>a, <1>b, <1>c DEF AckOK, write_rollout_item, Barriers
  <1>11. ClosedOK'
    BY <1>0, <1>a, <1>b, <1>c DEF ClosedOK, write_rollout_item, Running
  <1>12. CallOK'
    BY <1>0, <1>a, <1>b, <1>c DEF CallOK, write_rollout_item
  <1>13. ConfirmedStored'
    BY <1>0, <1>a, <1>b, <1>c DEF ConfirmedStored, write_rollout_item
  <1>14. DbBehindFile'
    BY <1>0, <1>a, <1>b, <1>c DEF DbBehindFile, write_rollout_item
  <1> QED
    BY <1>1, <1>2, <1>3, <1>4, <1>5, <1>6, <1>7, <1>8, <1>9, <1>10, <1>11, <1>12, <1>13, <1>14

\* A failed write of an item: what was written is drained, the rest is kept.
LEMMA write_rollout_item_fails_Inv ==
    ASSUME Inv, write_rollout_item_fails
    PROVE  Inv'
  <1> USE DEF Inv
  <1>0. /\ Len(channel) \in Nat /\ Len(pending) \in Nat
        /\ Len(file) \in Nat /\ Len(recorded) \in Nat
        /\ n \in Nat /\ db \in Nat /\ confirmed \in Nat
        /\ Base \in Nat /\ Received \in Int
    BY Lengths
  <1>t. /\ \A k \in 1..Len(channel) : channel[k] \in Cmds /\ channel[k].upto \in Nat
        /\ \A c \in Clients : call[c].need \in Nat
    BY Lengths
  <1>a. /\ pending' \in Seq(Items) /\ n' = 0
        /\ Len(pending') = Len(pending) - n
        /\ \A k \in 1..Len(pending') : pending'[k] = pending[k + n]
    BY Drained DEF write_rollout_item_fails, ControlOK
  <1>b. db' \in Nat /\ db' <= Len(file)
    BY <1>0 DEF TypeOK, DbBehindFile, write_rollout_item_fails, Drain, SyncDb
  <1>c. Base' = Base /\ Received' = Received
    BY <1>0, <1>a DEF write_rollout_item_fails, WriteFails, Base, Received
  <1>1. TypeOK'
    BY <1>a, <1>b, RecoverTypes DEF TypeOK, write_rollout_item_fails, WriteFails
  <1>2. ControlOK'
    BY <1>0, <1>a, <1>b, <1>c DEF ControlOK, write_rollout_item_fails, Recover, WriteFails
  <1>3. HeaderOK'
    BY <1>0, <1>a, <1>b, <1>c DEF HeaderOK, write_rollout_item_fails, Recover, WriteFails, Running
  <1>4. InOrder'
    BY <1>0, <1>a, <1>b, <1>c DEF InOrder, write_rollout_item_fails, Recover, WriteFails
  <1>5. PendingOK'
    BY <1>0, <1>t, <1>a, <1>c DEF PendingOK, write_rollout_item_fails
  <1>6. ChannelOK'
    BY <1>0, <1>a, <1>b, <1>c DEF ChannelOK, write_rollout_item_fails, Recover, WriteFails, QueuedOK, WaitsFor, Barriers
  <1>7. ChainOK'
    BY <1>0, <1>t, <1>a, <1>c DEF ChainOK, Step, write_rollout_item_fails
  <1>8. DistinctOK'
    BY <1>0, <1>a, <1>b, <1>c DEF DistinctOK, write_rollout_item_fails, Recover, WriteFails, Barriers
  <1>9. CurOK'
    BY <1>0, <1>t, <1>a, <1>c DEF CurOK, WaitsFor, Barriers, write_rollout_item_fails
  <1>10. AckOK'
    BY <1>0, <1>a, <1>b, <1>c DEF AckOK, write_rollout_item_fails, Recover, WriteFails, Barriers
  <1>11. ClosedOK'
    BY <1>0, <1>a, <1>b, <1>c DEF ClosedOK, write_rollout_item_fails, Recover, WriteFails, Running
  <1>12. CallOK'
    BY <1>0, <1>a, <1>b, <1>c DEF CallOK, write_rollout_item_fails, Recover, WriteFails
  <1>13. ConfirmedStored'
    BY <1>0, <1>a, <1>b, <1>c DEF ConfirmedStored, write_rollout_item_fails, Recover, WriteFails
  <1>14. DbBehindFile'
    BY <1>0, <1>a, <1>b, <1>c DEF DbBehindFile, write_rollout_item_fails, Recover, WriteFails
  <1> QED
    BY <1>1, <1>2, <1>3, <1>4, <1>5, <1>6, <1>7, <1>8, <1>9, <1>10, <1>11, <1>12, <1>13, <1>14

\* When all is written, all that was received is in the file.
LEMMA all_written_Inv ==
    ASSUME Inv, all_written
    PROVE  Inv'
  <1> USE DEF Inv
  <1>0. /\ Len(channel) \in Nat /\ Len(pending) \in Nat
        /\ Len(file) \in Nat /\ Len(recorded) \in Nat
        /\ n \in Nat /\ db \in Nat /\ confirmed \in Nat
        /\ Base \in Nat /\ Received \in Int
    BY Lengths
  <1>t. /\ \A k \in 1..Len(channel) : channel[k] \in Cmds /\ channel[k].upto \in Nat
        /\ \A c \in Clients : call[c].need \in Nat
    BY Lengths
  <1>a. /\ pending' \in Seq(Items) /\ n' = 0
        /\ Len(pending') = Len(pending) - n
        /\ \A k \in 1..Len(pending') : pending'[k] = pending[k + n]
    BY Drained DEF all_written, ControlOK
  <1>b. db' \in Nat /\ db' <= Len(file)
    BY <1>0 DEF TypeOK, DbBehindFile, all_written, Drain, SyncDb
  <1>c. /\ Base' = Base /\ Received' = Received
        /\ Received = Len(file) /\ pending' = <<>>
    BY <1>0, <1>a, EmptySeq DEF all_written, ControlOK, Base, Received
  <1>1. TypeOK'
    BY <1>0, <1>a, <1>b, <1>c DEF TypeOK, all_written
  <1>2. ControlOK'
    BY <1>0, <1>a, <1>b, <1>c DEF ControlOK, all_written
  <1>3. HeaderOK'
    BY <1>0, <1>a, <1>b, <1>c DEF HeaderOK, all_written, Running
  <1>4. InOrder'
    BY <1>0, <1>a, <1>b, <1>c DEF InOrder, all_written
  <1>5. PendingOK'
    BY <1>0, <1>t, <1>a, <1>c DEF PendingOK, all_written
  <1>6. ChannelOK'
    BY <1>0, <1>a, <1>b, <1>c DEF ChannelOK, all_written, QueuedOK, WaitsFor, Barriers
  <1>7. ChainOK'
    BY <1>0, <1>t, <1>a, <1>c DEF ChainOK, Step, all_written
  <1>8. DistinctOK'
    BY <1>0, <1>a, <1>b, <1>c DEF DistinctOK, all_written, Barriers
  <1>9. CurOK'
    BY <1>0, <1>t, <1>a, <1>c DEF CurOK, WaitsFor, Barriers, all_written
  <1>10. AckOK'
    BY <1>0, <1>c DEF AckOK, all_written, CurOK, WaitsFor
  <1>11. ClosedOK'
    BY <1>0, <1>a, <1>b, <1>c DEF ClosedOK, all_written, Running
  <1>12. CallOK'
    BY <1>0, <1>a, <1>b, <1>c DEF CallOK, all_written
  <1>13. ConfirmedStored'
    BY <1>0, <1>a, <1>b, <1>c DEF ConfirmedStored, all_written
  <1>14. DbBehindFile'
    BY <1>0, <1>a, <1>b, <1>c DEF DbBehindFile, all_written
  <1> QED
    BY <1>1, <1>2, <1>3, <1>4, <1>5, <1>6, <1>7, <1>8, <1>9, <1>10, <1>11, <1>12, <1>13, <1>14

\* The outcome of an AddItems is dropped.
LEMMA ack_add_Inv ==
    ASSUME Inv, ack_add
    PROVE  Inv'
  <1> USE DEF Inv
  <1>0. /\ Len(channel) \in Nat /\ Len(pending) \in Nat
        /\ Len(file) \in Nat /\ Len(recorded) \in Nat
        /\ n \in Nat /\ db \in Nat /\ confirmed \in Nat
        /\ Base \in Nat /\ Received \in Int
    BY Lengths
  <1>t. /\ \A k \in 1..Len(channel) : channel[k] \in Cmds /\ channel[k].upto \in Nat
        /\ \A c \in Clients : call[c].need \in Nat
    BY Lengths
  <1>1. TypeOK'
    BY <1>0, CmdTypes DEF TypeOK, ack_add, Ready
  <1>2. ControlOK'
    BY <1>0, CmdTypes DEF ControlOK, ack_add, Ready
  <1>3. HeaderOK'
    BY <1>0, CmdTypes DEF HeaderOK, ack_add, Ready, Running
  <1>4. InOrder'
    BY <1>0, CmdTypes DEF InOrder, ack_add, Ready
  <1>5. PendingOK'
    BY <1>0, CmdTypes DEF PendingOK, ack_add, Ready, Received, Base
  <1>6. ChannelOK'
    BY <1>0, CmdTypes DEF ChannelOK, ack_add, Ready, QueuedOK, WaitsFor, Barriers
  <1>7. ChainOK'
    BY <1>0, CmdTypes DEF ChainOK, ack_add, Ready, Received, Base, Step
  <1>8. DistinctOK'
    BY <1>0, CmdTypes DEF DistinctOK, ack_add, Ready, Barriers
  <1>9. CurOK'
    BY <1>0, CmdTypes DEF CurOK, ack_add, Ready, WaitsFor, Received, Base, Barriers
  <1>10. AckOK'
    BY <1>0, CmdTypes DEF AckOK, ack_add, Ready, Barriers
  <1>11. ClosedOK'
    BY <1>0, CmdTypes DEF ClosedOK, ack_add, Ready, Running
  <1>12. CallOK'
    BY <1>0, CmdTypes DEF CallOK, ack_add, Ready
  <1>13. ConfirmedStored'
    BY <1>0, CmdTypes DEF ConfirmedStored, ack_add, Ready
  <1>14. DbBehindFile'
    BY <1>0, CmdTypes DEF DbBehindFile, ack_add, Ready
  <1> QED
    BY <1>1, <1>2, <1>3, <1>4, <1>5, <1>6, <1>7, <1>8, <1>9, <1>10, <1>11, <1>12, <1>13, <1>14

\* A barrier is answered.
LEMMA ack_barrier_Inv ==
    ASSUME Inv, ack_barrier
    PROVE  Inv'
  <1> USE DEF Inv
  <1>0. /\ Len(channel) \in Nat /\ Len(pending) \in Nat
        /\ Len(file) \in Nat /\ Len(recorded) \in Nat
        /\ n \in Nat /\ db \in Nat /\ confirmed \in Nat
        /\ Base \in Nat /\ Received \in Int
    BY Lengths
  <1>t. /\ \A k \in 1..Len(channel) : channel[k] \in Cmds /\ channel[k].upto \in Nat
        /\ \A c \in Clients : call[c].need \in Nat
    BY Lengths
  <1>a. /\ cur.from \in Clients
        /\ call[cur.from].need \in Nat
        /\ call'[cur.from] = Answer(res)
        /\ \A c \in Clients \ {cur.from} : call'[c] = call[c]
        /\ Answer(res) \in [st : {"idle", "wait", "ok", "err"}, need : Nat]
        /\ Answer(res).need = 0 /\ Answer(res).st # "wait"
        /\ call' \in [Clients -> [st : {"idle", "wait", "ok", "err"}, need : Nat]]
    BY DEF TypeOK, CurOK, WaitsFor, ack_barrier, Answer
  <1>b. confirmed' \in Nat /\ confirmed' <= Len(file)
    BY <1>0, <1>a DEF ack_barrier, Later, AckOK, ConfirmedStored
  <1>1. TypeOK'
    <2>1. attempt' \in 1..2 /\ res' \in BOOLEAN /\ cur' \in Cmds
      BY CmdTypes DEF ack_barrier, Ready
    <2> QED
      BY <1>a, <1>b, <2>1 DEF TypeOK, ack_barrier
  <1>2. ControlOK'
    BY <1>0, CmdTypes, <1>a DEF ControlOK, ack_barrier, Ready
  <1>3. HeaderOK'
    BY <1>0, CmdTypes, <1>a DEF HeaderOK, ack_barrier, Ready, Running
  <1>4. InOrder'
    BY <1>0, CmdTypes, <1>a DEF InOrder, ack_barrier, Ready
  <1>5. PendingOK'
    BY <1>0, CmdTypes, <1>a DEF PendingOK, ack_barrier, Ready, Received, Base
  <1>6. ChannelOK'
    <2> SUFFICES ASSUME NEW k \in 1..Len(channel)
                 PROVE  QueuedOK(channel[k])'
      BY DEF ChannelOK, ack_barrier
    <2>0. recorded' = recorded /\ channel' = channel
      BY DEF ack_barrier
    <2>1. QueuedOK(channel[k]) /\ channel[k].from # cur.from
      BY DEF ChannelOK, DistinctOK, ack_barrier
    <2>2. channel[k].op \in Barriers => call'[channel[k].from] = call[channel[k].from]
      BY <1>a, <2>1 DEF QueuedOK, WaitsFor
    <2> QED
      BY <2>0, <2>1, <2>2 DEF QueuedOK, WaitsFor
  <1>7. ChainOK'
    BY <1>0, CmdTypes, <1>a DEF ChainOK, ack_barrier, Ready, Received, Base, Step
  <1>8. DistinctOK'
    BY <1>0, CmdTypes, <1>a DEF DistinctOK, ack_barrier, Ready, Barriers
  <1>9. CurOK'
    BY <1>0, CmdTypes, <1>a DEF CurOK, ack_barrier, Ready, WaitsFor, Received, Base, Barriers
  <1>10. AckOK'
    BY <1>0, CmdTypes, <1>a DEF AckOK, ack_barrier, Ready, Barriers
  <1>11. ClosedOK'
    BY <1>0, CmdTypes, <1>a DEF ClosedOK, ack_barrier, Ready, Running
  <1>12. CallOK'
    BY <1>0, CmdTypes, <1>a DEF CallOK, ack_barrier, Ready
  <1>13. ConfirmedStored'
    BY <1>b DEF ConfirmedStored, ack_barrier
  <1>14. DbBehindFile'
    BY <1>0, CmdTypes, <1>a DEF DbBehindFile, ack_barrier, Ready
  <1> QED
    BY <1>1, <1>2, <1>3, <1>4, <1>5, <1>6, <1>7, <1>8, <1>9, <1>10, <1>11, <1>12, <1>13, <1>14

\* A shutdown leaves nothing but the file.
LEMMA ack_shutdown_Inv ==
    ASSUME Inv, ack_shutdown
    PROVE  Inv'
  <1> USE DEF Inv
  <1>0. /\ Len(channel) \in Nat /\ Len(pending) \in Nat
        /\ Len(file) \in Nat /\ Len(recorded) \in Nat
        /\ n \in Nat /\ db \in Nat /\ confirmed \in Nat
        /\ Base \in Nat /\ Received \in Int
    BY Lengths
  <1>t. /\ \A k \in 1..Len(channel) : channel[k] \in Cmds /\ channel[k].upto \in Nat
        /\ \A c \in Clients : call[c].need \in Nat
    BY Lengths
  <1>a. /\ recorded' \in Seq(Items \cup {Meta})
        /\ Len(recorded') = Len(file)
        /\ \A k \in 1..Len(file) : recorded'[k] = recorded[k]
    <2>1. /\ Len(file) <= Len(recorded)
          /\ \A k \in 1..Len(file) : recorded[k] \in Items \cup {Meta}
      BY <1>0, ElementOfSeq DEF TypeOK, InOrder
    <2> QED
      BY <1>0, <2>1, SubSeqProperties DEF ack_shutdown, Truncated
  <1>r. pending' = <<>> /\ ~meta' /\ n' = 0 /\ file' = file /\ channel' = <<>>
    BY <1>0 DEF ack_shutdown, AckOK, ControlOK
  <1>q. Base' = Len(file) /\ Received' = Len(file) /\ Len(pending') = 0 /\ Len(channel') = 0
    BY <1>0, <1>r, EmptySeq DEF Base, Received
  <1>b. /\ cur.from \in Clients
        /\ call[cur.from].need \in Nat
        /\ call' \in [Clients -> [st : {"idle", "wait", "ok", "err"}, need : Nat]]
        /\ \A c \in Clients : call'[c].st # "wait" => call'[c].need = 0
    BY DEF TypeOK, CurOK, WaitsFor, CallOK, ack_shutdown, Answer, Barriers
  <1>c. confirmed' \in Nat /\ confirmed' <= Len(file)
    BY <1>0, <1>b DEF ack_shutdown, Later, AckOK, ConfirmedStored, Barriers
  <1>1. TypeOK'
    <2>1. attempt' \in 1..2 /\ res' \in BOOLEAN /\ cur' \in Cmds
      BY CmdTypes DEF ack_shutdown, Ready
    <2>2. channel' \in Seq(Cmds) /\ pending' \in Seq(Items) /\ n' \in Nat
      BY <1>r, EmptySeq
    <2>3. open' \in BOOLEAN /\ meta' \in BOOLEAN /\ pc' = "closed"
      BY DEF ack_shutdown
    <2> QED
      BY <1>a, <1>b, <1>c, <2>1, <2>2, <2>3 DEF TypeOK, ack_shutdown
  <1>2. ControlOK'
    BY <1>0, CmdTypes, <1>a, <1>r, <1>q, <1>b DEF ControlOK, ack_shutdown, Ready
  <1>3. HeaderOK'
    BY <1>0, CmdTypes, <1>a, <1>r, <1>q, <1>b DEF HeaderOK, ack_shutdown, Ready, Running
  <1>4. InOrder'
    BY <1>0, CmdTypes, <1>a, <1>r, <1>q, <1>b DEF InOrder, ack_shutdown, Ready
  <1>5. PendingOK'
    BY <1>0, <1>a, <1>q DEF PendingOK
  <1>6. ChannelOK'
    BY <1>q DEF ChannelOK
  <1>7. ChainOK'
    BY <1>0, <1>a, <1>r, <1>q DEF ChainOK
  <1>8. DistinctOK'
    BY <1>q, CmdTypes DEF DistinctOK, ack_shutdown, Ready, Barriers, ControlOK
  <1>9. CurOK'
    BY <1>0, CmdTypes, <1>a, <1>r, <1>q, <1>b DEF CurOK, ack_shutdown, Ready, WaitsFor, Received, Base, Barriers
  <1>10. AckOK'
    BY <1>0, CmdTypes, <1>a, <1>r, <1>q, <1>b DEF AckOK, ack_shutdown, Ready, Barriers
  <1>11. ClosedOK'
    BY <1>0, <1>a, <1>r, <1>q DEF ClosedOK, ack_shutdown
  <1>12. CallOK'
    BY <1>0, CmdTypes, <1>a, <1>r, <1>q, <1>b DEF CallOK, ack_shutdown, Ready
  <1>13. ConfirmedStored'
    BY <1>c DEF ConfirmedStored, ack_shutdown
  <1>14. DbBehindFile'
    BY <1>0, CmdTypes, <1>a, <1>r, <1>q, <1>b DEF DbBehindFile, ack_shutdown, Ready
  <1> QED
    BY <1>1, <1>2, <1>3, <1>4, <1>5, <1>6, <1>7, <1>8, <1>9, <1>10, <1>11, <1>12, <1>13, <1>14

\* A discarded recorder leaves nothing but the file.
LEMMA discard_Inv ==
    ASSUME Inv, discard
    PROVE  Inv'
  <1> USE DEF Inv
  <1>0. /\ Len(channel) \in Nat /\ Len(pending) \in Nat
        /\ Len(file) \in Nat /\ Len(recorded) \in Nat
        /\ n \in Nat /\ db \in Nat /\ confirmed \in Nat
        /\ Base \in Nat /\ Received \in Int
    BY Lengths
  <1>t. /\ \A k \in 1..Len(channel) : channel[k] \in Cmds /\ channel[k].upto \in Nat
        /\ \A c \in Clients : call[c].need \in Nat
    BY Lengths
  <1>a. /\ recorded' \in Seq(Items \cup {Meta})
        /\ Len(recorded') = Len(file)
        /\ \A k \in 1..Len(file) : recorded'[k] = recorded[k]
    <2>1. /\ Len(file) <= Len(recorded)
          /\ \A k \in 1..Len(file) : recorded[k] \in Items \cup {Meta}
      BY <1>0, ElementOfSeq DEF TypeOK, InOrder
    <2> QED
      BY <1>0, <2>1, SubSeqProperties DEF discard, Truncated
  <1>r. pending' = <<>> /\ ~meta' /\ n' = 0 /\ file' = file /\ channel' = <<>>
    BY <1>0 DEF discard, AckOK, ControlOK
  <1>q. Base' = Len(file) /\ Received' = Len(file) /\ Len(pending') = 0 /\ Len(channel') = 0
    BY <1>0, <1>r, EmptySeq DEF Base, Received
  <1>1. TypeOK'
    <2>2. channel' \in Seq(Cmds) /\ pending' \in Seq(Items) /\ n' \in Nat
      BY <1>r, EmptySeq
    <2>3. open' \in BOOLEAN /\ meta' \in BOOLEAN /\ pc' = "closed"
      BY DEF discard
    <2> QED
      BY <1>a, <2>2, <2>3 DEF TypeOK, discard
  <1>2. ControlOK'
    BY <1>0, CmdTypes, <1>a, <1>r, <1>q DEF ControlOK, discard
  <1>3. HeaderOK'
    BY <1>0, CmdTypes, <1>a, <1>r, <1>q DEF HeaderOK, discard, Running
  <1>4. InOrder'
    BY <1>0, CmdTypes, <1>a, <1>r, <1>q DEF InOrder, discard
  <1>5. PendingOK'
    BY <1>0, <1>a, <1>q DEF PendingOK
  <1>6. ChannelOK'
    BY <1>q DEF ChannelOK
  <1>7. ChainOK'
    BY <1>0, <1>a, <1>r, <1>q DEF ChainOK
  <1>8. DistinctOK'
    BY <1>q, CmdTypes DEF DistinctOK, discard, Ready, Barriers, ControlOK
  <1>9. CurOK'
    BY <1>0, CmdTypes, <1>a, <1>r, <1>q DEF CurOK, discard, WaitsFor, Received, Base, Barriers
  <1>10. AckOK'
    BY <1>0, CmdTypes, <1>a, <1>r, <1>q DEF AckOK, discard, Barriers
  <1>11. ClosedOK'
    BY <1>0, <1>a, <1>r, <1>q DEF ClosedOK, discard
  <1>12. CallOK'
    BY <1>0, CmdTypes, <1>a, <1>r, <1>q DEF CallOK, discard
  <1>13. ConfirmedStored'
    BY <1>0, CmdTypes, <1>a, <1>r, <1>q DEF ConfirmedStored, discard
  <1>14. DbBehindFile'
    BY <1>0, CmdTypes, <1>a, <1>r, <1>q DEF DbBehindFile, discard
  <1> QED
    BY <1>1, <1>2, <1>3, <1>4, <1>5, <1>6, <1>7, <1>8, <1>9, <1>10, <1>11, <1>12, <1>13, <1>14

\* A line of another writer is none of this log.
LEMMA append_rollout_item_to_path_Inv ==
    ASSUME Inv, append_rollout_item_to_path
    PROVE  Inv'
  <1> USE DEF Inv
  <1>0. /\ Len(channel) \in Nat /\ Len(pending) \in Nat
        /\ Len(file) \in Nat /\ Len(recorded) \in Nat
        /\ n \in Nat /\ db \in Nat /\ confirmed \in Nat
        /\ Base \in Nat /\ Received \in Int
    BY Lengths
  <1>t. /\ \A k \in 1..Len(channel) : channel[k] \in Cmds /\ channel[k].upto \in Nat
        /\ \A c \in Clients : call[c].need \in Nat
    BY Lengths
  <1>1. TypeOK'
    BY <1>0 DEF TypeOK, append_rollout_item_to_path, writer
  <1>2. ControlOK'
    BY <1>0 DEF ControlOK, append_rollout_item_to_path, writer
  <1>3. HeaderOK'
    BY <1>0 DEF HeaderOK, append_rollout_item_to_path, writer, Running
  <1>4. InOrder'
    BY <1>0 DEF InOrder, append_rollout_item_to_path, writer
  <1>5. PendingOK'
    BY <1>0 DEF PendingOK, append_rollout_item_to_path, writer, Received, Base
  <1>6. ChannelOK'
    BY <1>0 DEF ChannelOK, append_rollout_item_to_path, writer, QueuedOK, WaitsFor, Barriers
  <1>7. ChainOK'
    BY <1>0 DEF ChainOK, append_rollout_item_to_path, writer, Received, Base, Step
  <1>8. DistinctOK'
    BY <1>0 DEF DistinctOK, append_rollout_item_to_path, writer, Barriers
  <1>9. CurOK'
    BY <1>0 DEF CurOK, append_rollout_item_to_path, writer, WaitsFor, Received, Base, Barriers
  <1>10. AckOK'
    BY <1>0 DEF AckOK, append_rollout_item_to_path, writer, Barriers
  <1>11. ClosedOK'
    BY <1>0 DEF ClosedOK, append_rollout_item_to_path, writer, Running
  <1>12. CallOK'
    BY <1>0 DEF CallOK, append_rollout_item_to_path, writer
  <1>13. ConfirmedStored'
    BY <1>0 DEF ConfirmedStored, append_rollout_item_to_path, writer
  <1>14. DbBehindFile'
    BY <1>0 DEF DbBehindFile, append_rollout_item_to_path, writer
  <1> QED
    BY <1>1, <1>2, <1>3, <1>4, <1>5, <1>6, <1>7, <1>8, <1>9, <1>10, <1>11, <1>12, <1>13, <1>14

\* A crash leaves nothing but the file.
LEMMA crash_Inv ==
    ASSUME Inv, crash
    PROVE  Inv'
  <1> USE DEF Inv
  <1>0. /\ Len(channel) \in Nat /\ Len(pending) \in Nat
        /\ Len(file) \in Nat /\ Len(recorded) \in Nat
        /\ n \in Nat /\ db \in Nat /\ confirmed \in Nat
        /\ Base \in Nat /\ Received \in Int
    BY Lengths
  <1>t. /\ \A k \in 1..Len(channel) : channel[k] \in Cmds /\ channel[k].upto \in Nat
        /\ \A c \in Clients : call[c].need \in Nat
    BY Lengths
  <1>a. /\ recorded' \in Seq(Items \cup {Meta})
        /\ Len(recorded') = Len(file)
        /\ \A k \in 1..Len(file) : recorded'[k] = recorded[k]
    <2>1. /\ Len(file) <= Len(recorded)
          /\ \A k \in 1..Len(file) : recorded[k] \in Items \cup {Meta}
      BY <1>0, ElementOfSeq DEF TypeOK, InOrder
    <2> QED
      BY <1>0, <2>1, SubSeqProperties DEF crash, Truncated
  <1>r. pending' = <<>> /\ ~meta' /\ n' = 0 /\ file' = file /\ channel' = <<>>
    BY <1>0 DEF crash, AckOK, ControlOK
  <1>q. Base' = Len(file) /\ Received' = Len(file) /\ Len(pending') = 0 /\ Len(channel') = 0
    BY <1>0, <1>r, EmptySeq DEF Base, Received
  <1>b. /\ call' \in [Clients -> [st : {"idle", "wait", "ok", "err"}, need : Nat]]
        /\ \A c \in Clients : call'[c].need = 0
    BY DEF crash, Idle
  <1>1. TypeOK'
    <2>1. attempt' \in 1..2 /\ res' \in BOOLEAN /\ cur' \in Cmds
      BY CmdTypes DEF crash, Ready
    <2>2. channel' \in Seq(Cmds) /\ pending' \in Seq(Items) /\ n' \in Nat
      BY <1>r, EmptySeq
    <2>3. open' \in BOOLEAN /\ meta' \in BOOLEAN /\ pc' = "down" /\ torn' \in BOOLEAN
      BY Zenon DEF crash, TypeOK
    <2> QED
      BY <1>a, <1>b, <2>1, <2>2, <2>3 DEF TypeOK, crash
  <1>2. ControlOK'
    BY <1>0, CmdTypes, <1>a, <1>r, <1>q, <1>b DEF ControlOK, crash, Ready
  <1>3. HeaderOK'
    BY <1>0, CmdTypes, <1>a, <1>r, <1>q, <1>b DEF HeaderOK, crash, Ready, Running
  <1>4. InOrder'
    BY <1>0, CmdTypes, <1>a, <1>r, <1>q, <1>b DEF InOrder, crash, Ready
  <1>5. PendingOK'
    BY <1>0, <1>a, <1>q DEF PendingOK
  <1>6. ChannelOK'
    BY <1>q DEF ChannelOK
  <1>7. ChainOK'
    BY <1>0, <1>a, <1>r, <1>q DEF ChainOK
  <1>8. DistinctOK'
    BY <1>q, CmdTypes DEF DistinctOK, crash, Ready, Barriers, ControlOK
  <1>9. CurOK'
    BY <1>0, CmdTypes, <1>a, <1>r, <1>q, <1>b DEF CurOK, crash, Ready, WaitsFor, Received, Base, Barriers
  <1>10. AckOK'
    BY <1>0, CmdTypes, <1>a, <1>r, <1>q, <1>b DEF AckOK, crash, Ready, Barriers
  <1>11. ClosedOK'
    BY <1>0, <1>a, <1>r, <1>q DEF ClosedOK, crash
  <1>12. CallOK'
    BY <1>b DEF CallOK
  <1>13. ConfirmedStored'
    BY <1>0, CmdTypes, <1>a, <1>r, <1>q, <1>b DEF ConfirmedStored, crash, Ready
  <1>14. DbBehindFile'
    BY <1>0, CmdTypes, <1>a, <1>r, <1>q, <1>b DEF DbBehindFile, crash, Ready
  <1> QED
    BY <1>1, <1>2, <1>3, <1>4, <1>5, <1>6, <1>7, <1>8, <1>9, <1>10, <1>11, <1>12, <1>13, <1>14

\* A resumed writer starts from the file.
LEMMA resume_Inv ==
    ASSUME Inv, resume
    PROVE  Inv'
  <1> USE DEF Inv
  <1>0. /\ Len(channel) \in Nat /\ Len(pending) \in Nat
        /\ Len(file) \in Nat /\ Len(recorded) \in Nat
        /\ n \in Nat /\ db \in Nat /\ confirmed \in Nat
        /\ Base \in Nat /\ Received \in Int
    BY Lengths
  <1>t. /\ \A k \in 1..Len(channel) : channel[k] \in Cmds /\ channel[k].upto \in Nat
        /\ \A c \in Clients : call[c].need \in Nat
    BY Lengths
  <1>1. TypeOK'
    BY <1>0 DEF TypeOK, resume
  <1>2. ControlOK'
    BY <1>0 DEF ControlOK, resume
  <1>3. HeaderOK'
    BY <1>0 DEF HeaderOK, resume, Running
  <1>4. InOrder'
    BY <1>0 DEF InOrder, resume
  <1>5. PendingOK'
    BY <1>0 DEF PendingOK, resume, Received, Base
  <1>6. ChannelOK'
    BY <1>0 DEF ChannelOK, resume, QueuedOK, WaitsFor, Barriers
  <1>7. ChainOK'
    BY <1>0 DEF ChainOK, resume, Received, Base, Step
  <1>8. DistinctOK'
    BY <1>0 DEF DistinctOK, resume, Barriers
  <1>9. CurOK'
    BY <1>0 DEF CurOK, resume, WaitsFor, Received, Base, Barriers
  <1>10. AckOK'
    BY <1>0 DEF AckOK, resume, Barriers
  <1>11. ClosedOK'
    BY <1>0 DEF ClosedOK, resume, Running
  <1>12. CallOK'
    BY <1>0 DEF CallOK, resume
  <1>13. ConfirmedStored'
    BY <1>0 DEF ConfirmedStored, resume
  <1>14. DbBehindFile'
    BY <1>0 DEF DbBehindFile, resume
  <1> QED
    BY <1>1, <1>2, <1>3, <1>4, <1>5, <1>6, <1>7, <1>8, <1>9, <1>10, <1>11, <1>12, <1>13, <1>14

-----------------------------------------------------------------------------
(* The invariant holds                                                     *)

LEMMA InitInv == Init => Inv
  <1> SUFFICES ASSUME Init PROVE Inv
    OBVIOUS
  <1>1. /\ Len(channel) = 0 /\ Len(pending) = 0 /\ Len(file) = 0
        /\ Len(recorded) = 1 /\ recorded[1] = Meta
        /\ channel \in Seq(Cmds) /\ pending \in Seq(Items)
        /\ file \in Seq([item : Items \cup {Meta}, ok : BOOLEAN])
        /\ recorded \in Seq(Items \cup {Meta})
    BY EmptySeq DEF Init
  <1>2. TypeOK
    <2>1. call \in [Clients -> [st : {"idle", "wait", "ok", "err"}, need : Nat]]
      BY DEF Init, Idle
    <2>2. attempt \in 1..2 /\ n \in Nat /\ db \in Nat /\ confirmed \in Nat
      BY DEF Init
    <2>3. cur \in Cmds
      BY CmdTypes DEF Init
    <2>4. /\ pc \in {"recv", "open", "meta", "items", "ack", "closed", "down"}
          /\ exists \in BOOLEAN /\ open \in BOOLEAN /\ meta \in BOOLEAN
          /\ res \in BOOLEAN /\ torn \in BOOLEAN
      BY DEF Init
    <2> QED
      BY <1>1, <2>1, <2>2, <2>3, <2>4 DEF TypeOK
  <1>3. Base = 1 /\ Received = 1
    BY <1>1 DEF Init, Base, Received
  <1>4. ControlOK /\ HeaderOK /\ InOrder /\ PendingOK
    BY <1>1, <1>3 DEF Init, ControlOK, HeaderOK, InOrder, PendingOK, Running
  <1>5. ChannelOK /\ ChainOK /\ DistinctOK /\ CurOK
    BY <1>1, <1>3, CmdTypes DEF Init, ChannelOK, ChainOK, DistinctOK, CurOK, Barriers
  <1>6. AckOK /\ ClosedOK /\ CallOK /\ ConfirmedStored /\ DbBehindFile
    BY <1>1 DEF Init, AckOK, ClosedOK, CallOK, ConfirmedStored, DbBehindFile, Running, Idle
  <1> QED
    BY <1>2, <1>4, <1>5, <1>6 DEF Inv

LEMMA NextInv == Inv /\ [Next]_vars => Inv'
  <1> SUFFICES ASSUME Inv, [Next]_vars PROVE Inv'
    OBVIOUS
  <1>1. ASSUME NEW i \in Items, record_items(i) PROVE Inv'
    BY <1>1, record_items_Inv
  <1>2. ASSUME NEW c \in Clients, NEW op \in Barriers, barrier(c, op) PROVE Inv'
    BY <1>2, barrier_Inv
  <1>3. ASSUME NEW c \in Clients, barrier_closed(c) \/ barrier_returns(c) PROVE Inv'
    BY <1>3, barrier_closed_Inv, barrier_returns_Inv
  <1>4. CASE WriterStep
    BY <1>4, recv_Inv, ensure_writer_open_Inv, open_fails_Inv, write_session_meta_Inv,
       write_session_meta_fails_Inv, write_rollout_item_Inv, write_rollout_item_fails_Inv,
       all_written_Inv, ack_add_Inv, ack_barrier_Inv, ack_shutdown_Inv DEF WriterStep
  <1>5. CASE discard \/ append_rollout_item_to_path \/ crash \/ resume
    BY <1>5, discard_Inv, append_rollout_item_to_path_Inv, crash_Inv, resume_Inv
  <1>6. CASE UNCHANGED vars
    BY <1>6 DEF vars, Inv, TypeOK, ControlOK, HeaderOK, InOrder, PendingOK, ChannelOK, ChainOK,
       DistinctOK, CurOK, AckOK, ClosedOK, CallOK, ConfirmedStored, DbBehindFile, Running,
       Received, Base, QueuedOK, WaitsFor
  <1> QED
    BY <1>1, <1>2, <1>3, <1>4, <1>5, <1>6 DEF Next

\* The invariant holds in every state of the recorder.
THEOREM InvHolds == Spec => []Inv
  BY InitInv, NextInv, PTL DEF Spec

\* Every variable of the recorder keeps its type, whatever fails.
THEOREM TypeOKHolds == Spec => []TypeOK
  <1>1. Inv => TypeOK
    BY DEF Inv
  <1> QED
    BY <1>1, InvHolds, PTL

\* The file holds the accepted items in order, each once, for any sequence of
\* failed writes, retries, crashes and resumes.
THEOREM InOrderHolds == Spec => []InOrder
  <1>1. Inv => InOrder
    BY DEF Inv
  <1> QED
    BY <1>1, InvHolds, PTL

\* What persist, flush or shutdown confirmed stays in the file.
THEOREM ConfirmedStoredHolds == Spec => []ConfirmedStored
  <1>1. Inv => ConfirmedStored
    BY DEF Inv
  <1> QED
    BY <1>1, InvHolds, PTL

\* The state database is never told of a line that is not in the file.
THEOREM DbBehindFileHolds == Spec => []DbBehindFile
  <1>1. Inv => DbBehindFile
    BY DEF Inv
  <1> QED
    BY <1>1, InvHolds, PTL

-----------------------------------------------------------------------------
(* The refinement                                                          *)

\* The constants and the state functions of the log in terms of the writer.
LEMMA LogInit == Init => Log!Init
  BY EmptySeq DEF Init, Log!Init, Idle, Log!Idle

\* record_items accepts, barrier asks, and the answers are the log's answers.
LEMMA CallerStepLog ==
    ASSUME Inv, NEW c \in Clients,
           (\E op \in Barriers : barrier(c, op)) \/ barrier_closed(c) \/ barrier_returns(c)
    PROVE  Log!Next
  <1>1. ASSUME NEW op \in Barriers, barrier(c, op) PROVE Log!Ask(c)
    <2>1. Need(op) \in Log!Needs
      BY DEF Need, Log!Needs
    <2> QED
      BY <1>1, <2>1 DEF barrier, Log!Ask
  <1>2. ASSUME barrier_closed(c) PROVE Log!Refuse(c)
    BY <1>2 DEF barrier_closed, Log!Refuse, Answer, Log!Answer
  <1>3. ASSUME barrier_returns(c) PROVE Log!Return(c)
    BY <1>3 DEF barrier_returns, Log!Return, Idle, Log!Idle
  <1> QED
    BY <1>1, <1>2, <1>3 DEF Log!Next

\* A line written is an item stored.
LEMMA WriteLog ==
    ASSUME Inv, write_session_meta \/ write_rollout_item
    PROVE  Log!Store
  <1>0. /\ Len(file) \in Nat /\ Len(pending) \in Nat /\ n \in Nat /\ Len(recorded) \in Nat
    BY Lengths DEF Inv
  <1>1. Len(file') = Len(file) + 1
    <2>1. CASE write_session_meta
      <3>1. [item |-> Meta, ok |-> ~torn] \in [item : Items \cup {Meta}, ok : BOOLEAN]
        BY Zenon DEF Inv, TypeOK
      <3> QED
        BY <2>1, <3>1, AppendProperties DEF Inv, TypeOK, write_session_meta, WriteLine
    <2>2. CASE write_rollout_item
      <3>1. pending[n + 1] \in Items
        BY <1>0, <2>2, ElementOfSeq DEF Inv, TypeOK, write_rollout_item
      <3>2. [item |-> pending[n + 1], ok |-> ~torn] \in [item : Items \cup {Meta}, ok : BOOLEAN]
        BY <3>1, Zenon DEF Inv, TypeOK
      <3> QED
        BY <2>2, <3>2, AppendProperties DEF Inv, TypeOK, write_rollout_item, WriteLine
    <2> QED
      BY <2>1, <2>2
  <1>2. Len(file) < Len(recorded)
    <2>1. CASE write_session_meta
      BY <1>0, <2>1, EmptySeq DEF Inv, write_session_meta, ControlOK, HeaderOK
    <2>2. CASE write_rollout_item
      BY <1>0, <2>2 DEF Inv, write_rollout_item, ControlOK, PendingOK, Received, Base
    <2> QED
      BY <2>1, <2>2
  <1>3. recorded' = recorded /\ call' = call /\ confirmed' = confirmed
    BY DEF write_session_meta, write_rollout_item
  <1> QED
    BY <1>1, <1>2, <1>3 DEF Log!Store

\* The writer's answer confirms only what is stored.
LEMMA AckLog ==
    ASSUME Inv, ack_barrier \/ ack_shutdown
    PROVE  Log!Next
  <1>0. cur.op \in Barriers
    BY DEF ack_barrier, ack_shutdown, Barriers
  <1>1. cur.from \in Clients /\ call[cur.from].st = "wait"
    BY <1>0 DEF Inv, CurOK, WaitsFor
  <1>2. res /\ pc = "ack" => call[cur.from].need <= Len(file)
    BY <1>0 DEF Inv, AckOK
  <1>3. CASE ack_barrier /\ res
    <2>1. Log!Confirm(cur.from)
      BY <1>1, <1>2, <1>3 DEF ack_barrier, Log!Confirm, Answer, Log!Answer, Later, Log!Later
    <2> QED
      BY <1>1, <2>1 DEF Log!Next
  <1>4. CASE ack_barrier /\ ~res
    <2>1. Log!Refuse(cur.from)
      BY <1>1, <1>4 DEF ack_barrier, Log!Refuse, Answer, Log!Answer
    <2> QED
      BY <1>1, <2>1 DEF Log!Next
  <1>5. CASE ack_shutdown
    <2>1. Log!Close(cur.from)
      BY <1>1, <1>2, <1>5 DEF ack_shutdown, Log!Close, Answer, Log!Answer, Later, Log!Later,
         Truncated
    <2> QED
      BY <1>1, <2>1 DEF Log!Next
  <1> QED
    BY <1>3, <1>4, <1>5

\* A crash and a discarded recorder are the log's crash.
LEMMA LossLog ==
    ASSUME Inv, crash \/ discard
    PROVE  Log!Crash
  <1>1. CASE crash
    BY <1>1 DEF crash, Log!Crash, Idle, Log!Idle, Truncated
  <1>2. CASE discard
    <2>1. \A c \in Clients : call[c] = Idle
      BY <1>2 DEF discard, Inv, TypeOK, CallOK, Idle
    <2>2. call = [c \in Clients |-> Idle]
      BY <2>1 DEF Inv, TypeOK
    <2> QED
      BY <1>2, <2>2 DEF discard, Log!Crash, Idle, Log!Idle, Truncated
  <1> QED
    BY <1>1, <1>2

\* Every step of the recorder is a step of the log or leaves the log alone.
LEMMA NextLog == Inv /\ [Next]_vars => [Log!Next]_(Log!vars)
  <1> SUFFICES ASSUME Inv, [Next]_vars PROVE Log!Next \/ UNCHANGED Log!vars
    OBVIOUS
  <1>1. ASSUME NEW i \in Items, record_items(i) PROVE Log!Next
    BY <1>1 DEF record_items, Log!Accept, Log!Next
  <1>2. ASSUME NEW c \in Clients,
               (\E op \in Barriers : barrier(c, op)) \/ barrier_closed(c) \/ barrier_returns(c)
        PROVE  Log!Next
    BY <1>2, CallerStepLog
  <1>3. CASE write_session_meta \/ write_rollout_item
    BY <1>3, WriteLog DEF Log!Next
  <1>4. CASE ack_barrier \/ ack_shutdown
    BY <1>4, AckLog
  <1>5. CASE crash \/ discard
    BY <1>5, LossLog DEF Log!Next
  <1>6. CASE \/ recv \/ ensure_writer_open \/ open_fails \/ write_session_meta_fails
             \/ write_rollout_item_fails \/ all_written \/ ack_add
             \/ append_rollout_item_to_path \/ resume
    BY <1>6 DEF recv, ensure_writer_open, open_fails, write_session_meta_fails,
       write_rollout_item_fails, all_written, ack_add, append_rollout_item_to_path, resume,
       WriteFails, Log!vars
  <1>7. CASE UNCHANGED vars
    BY <1>7 DEF vars, Log!vars
  <1> QED
    BY <1>1, <1>2, <1>3, <1>4, <1>5, <1>6, <1>7 DEF Next, WriterStep

\* The writer task, its channel, its buffer and its retries implement the log:
\* record_items, the barriers, crashes and resumes behave as RolloutLog says.
THEOREM ImplementsLogHolds == Spec => ImplementsLog
  <1>1. Init => Log!Init
    BY LogInit
  <1>2. Inv /\ [Next]_vars => [Log!Next]_(Log!vars)
    BY NextLog
  <1> QED
    BY <1>1, <1>2, InvHolds, PTL DEF Spec, ImplementsLog, Log!Spec

=============================================================================
