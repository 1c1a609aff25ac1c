------------------------ MODULE SessionInputsProofs ------------------------
(***************************************************************************)
(* Proofs about the inputs of SessionTurns: no input is duplicated, and    *)
(* the queues, hands and logs of a session implement InputLedger.          *)
(***************************************************************************)
EXTENDS SessionTurnsProofs, FiniteSetTheorems

-----------------------------------------------------------------------------
(* Sequences of items.                                                     *)

\* Joining two queues.
LEMMA ConcatItems ==
    ASSUME NEW r \in Seq(Items), NEW s \in Seq(Items)
    PROVE  /\ r \o s \in Seq(Items)
           /\ \A i : InSeq(i, r \o s) <=> InSeq(i, r) \/ InSeq(i, s)
           /\ Injective(r) /\ Injective(s) /\ (\A i : InSeq(i, r) => ~InSeq(i, s))
                  => Injective(r \o s)
  <1>1. /\ Len(r) \in Nat /\ DOMAIN r = 1 .. Len(r)
        /\ Len(s) \in Nat /\ DOMAIN s = 1 .. Len(s)
    BY LenProperties
  <1>2. /\ r \o s \in Seq(Items) /\ Len(r \o s) = Len(r) + Len(s)
        /\ \A k \in 1 .. Len(r) + Len(s) :
              (r \o s)[k] = IF k <= Len(r) THEN r[k] ELSE s[k - Len(r)]
    BY ConcatProperties
  <1>3. DOMAIN (r \o s) = 1 .. Len(r) + Len(s)
    BY <1>2, LenProperties
  <1>4. ASSUME NEW i, InSeq(i, r \o s)
        PROVE  InSeq(i, r) \/ InSeq(i, s)
    BY <1>1, <1>2, <1>3, <1>4 DEF InSeq
  <1>5. ASSUME NEW i, InSeq(i, r)
        PROVE  InSeq(i, r \o s)
    BY <1>1, <1>2, <1>3, <1>5 DEF InSeq
  <1>6. ASSUME NEW i, InSeq(i, s)
        PROVE  InSeq(i, r \o s)
    <2>1. PICK k \in 1 .. Len(s) : s[k] = i
      BY <1>1, <1>6 DEF InSeq
    <2>2. k + Len(r) \in 1 .. Len(r) + Len(s) /\ (r \o s)[k + Len(r)] = i
      BY <1>1, <1>2, <2>1
    <2> QED BY <1>3, <2>2 DEF InSeq
  <1>7. ASSUME Injective(r), Injective(s), \A i : InSeq(i, r) => ~InSeq(i, s)
        PROVE  Injective(r \o s)
    <2> SUFFICES ASSUME NEW j \in 1 .. Len(r) + Len(s), NEW k \in 1 .. Len(r) + Len(s),
                        (r \o s)[j] = (r \o s)[k]
                 PROVE  j = k
      BY <1>3 DEF Injective
    <2>1. ASSUME NEW m \in 1 .. Len(r) + Len(s), m > Len(r)
          PROVE  m - Len(r) \in DOMAIN s /\ (r \o s)[m] = s[m - Len(r)] /\ InSeq((r \o s)[m], s)
      <3>1. m - Len(r) \in DOMAIN s /\ (r \o s)[m] = s[m - Len(r)]
        BY <1>1, <1>2, <2>1
      <3> QED BY <3>1 DEF InSeq
    <2>2. ASSUME NEW m \in 1 .. Len(r) + Len(s), m <= Len(r)
          PROVE  m \in DOMAIN r /\ (r \o s)[m] = r[m] /\ InSeq((r \o s)[m], r)
      <3>1. m \in DOMAIN r /\ (r \o s)[m] = r[m]
        BY <1>1, <1>2, <2>2
      <3> QED BY <3>1 DEF InSeq
    <2>3. CASE j <= Len(r) /\ k <= Len(r)
      BY <1>7, <2>2, <2>3 DEF Injective
    <2>4. CASE j > Len(r) /\ k > Len(r)
      <3>1. j - Len(r) = k - Len(r)
        BY <1>7, <2>1, <2>4 DEF Injective
      <3> QED BY <3>1, <1>1
    <2>5. ~(j <= Len(r) /\ k > Len(r)) /\ ~(k <= Len(r) /\ j > Len(r))
      BY <1>7, <2>1, <2>2
    <2> QED BY <1>1, <2>3, <2>4, <2>5
  <1> QED BY <1>2, <1>4, <1>5, <1>6, <1>7

\* A queue of one item, and a queue that has got one more.
LEMMA AppendItem ==
    ASSUME NEW s \in Seq(Items), NEW i \in Items
    PROVE  /\ \A j : InSeq(j, <<i>>) <=> j = i
           /\ \A j : InSeq(j, Append(s, i)) <=> InSeq(j, s) \/ j = i
           /\ Injective(<<i>>)
           /\ Injective(s) /\ ~InSeq(i, s) => Injective(Append(s, i))
  <1>1. <<i>> \in Seq(Items) /\ Append(s, i) = s \o <<i>>
    OBVIOUS
  <1>2. (\A j : InSeq(j, <<i>>) <=> j = i) /\ Injective(<<i>>)
    BY DEF InSeq, Injective
  <1>3. \A j : InSeq(j, Append(s, i)) <=> InSeq(j, s) \/ j = i
    <2>1. \A j : InSeq(j, s \o <<i>>) <=> InSeq(j, s) \/ InSeq(j, <<i>>)
      BY <1>1, ConcatItems
    <2> QED BY <1>1, <1>2, <2>1
  <1>4. ASSUME Injective(s), ~InSeq(i, s)
        PROVE  Injective(Append(s, i))
    <2>1. \A j : InSeq(j, s) => ~InSeq(j, <<i>>)
      BY <1>2, <1>4
    <2>2. Injective(s \o <<i>>)
      BY <1>1, <1>2, <1>4, <2>1, ConcatItems
    <2> QED BY <1>1, <2>2
  <1> QED BY <1>2, <1>3, <1>4

\* Nothing is in an empty queue.
LEMMA EmptyQueue ==
    /\ \A i : ~InSeq(i, <<>>)
    /\ Injective(<<>>)
  BY DEF InSeq, Injective

\* inspect_pending_input cuts the items it holds into those a hook let through,
\* the one it blocked and those behind it.
LEMMA CutItems ==
    ASSUME NEW s \in Seq(Items), NEW n \in 0 .. Len(s), Injective(s)
    PROVE  LET accepted == SubSeq(s, 1, n)
               blocked  == SubSeq(s, n + 1, n + 1)[1]
               rest     == SubSeq(s, n + 2, Len(s))
           IN  /\ accepted \in Seq(Items) /\ rest \in Seq(Items)
               /\ \A i : InSeq(i, accepted) => InSeq(i, s) /\ ~InSeq(i, rest)
               /\ \A i : InSeq(i, rest) => InSeq(i, s)
               /\ n < Len(s) => /\ InSeq(blocked, s)
                                /\ ~InSeq(blocked, accepted) /\ ~InSeq(blocked, rest)
               /\ Injective(rest)
  <1> DEFINE accepted == SubSeq(s, 1, n)
             blocked  == SubSeq(s, n + 1, n + 1)[1]
             rest     == SubSeq(s, n + 2, Len(s))
  <1>1. /\ Len(s) \in Nat /\ n \in Int /\ n + 2 \in Int /\ DOMAIN s = 1 .. Len(s)
        /\ \A k \in 1 .. Len(s) : s[k] \in Items
    BY ElementOfSeq, LenProperties
  <1>2. /\ accepted \in Seq(Items) /\ DOMAIN accepted = 1 .. n
        /\ \A k \in 1 .. n : accepted[k] = s[k]
    <2>1. \A k \in 1 .. n : s[k] \in Items
      BY <1>1
    <2>2. /\ accepted \in Seq(Items) /\ Len(accepted) = n
          /\ \A k \in 1 .. n - 1 + 1 : accepted[k] = s[1 + k - 1]
      BY <1>1, <2>1, SubSeqProperties
    <2> QED BY <1>1, <2>2, LenProperties
  <1>3. PICK m \in Nat :
            /\ rest \in Seq(Items) /\ DOMAIN rest = 1 .. m
            /\ m = IF n + 2 <= Len(s) THEN Len(s) - (n + 2) + 1 ELSE 0
            /\ \A k \in 1 .. m : rest[k] = s[n + 1 + k]
    <2>1. \A k \in n + 2 .. Len(s) : s[k] \in Items
      BY <1>1
    <2>2. /\ rest \in Seq(Items)
          /\ Len(rest) = IF n + 2 <= Len(s) THEN Len(s) - (n + 2) + 1 ELSE 0
          /\ \A k \in 1 .. Len(s) - (n + 2) + 1 : rest[k] = s[(n + 2) + k - 1]
      BY <1>1, <2>1, SubSeqProperties
    <2>3. Len(rest) \in Nat /\ DOMAIN rest = 1 .. Len(rest)
      BY <2>2, LenProperties
    <2>4. \A k \in 1 .. Len(rest) : rest[k] = s[n + 1 + k]
      BY <1>1, <2>2, <2>3
    <2> QED BY <2>2, <2>3, <2>4
  <1>4. ASSUME n < Len(s)
        PROVE  n + 1 \in 1 .. Len(s) /\ blocked = s[n + 1]
    <2>1. n + 1 \in Int /\ s[n + 1] \in Items /\ \A k \in n + 1 .. n + 1 : s[k] \in Items
      BY <1>1, <1>4
    <2>2. \A i \in 1 .. (n + 1) - (n + 1) + 1 : SubSeq(s, n + 1, n + 1)[i] = s[(n + 1) + i - 1]
      BY <2>1, SubSeqProperties
    <2>3. SubSeq(s, n + 1, n + 1)[1] = s[n + 1]
      BY <1>1, <2>2
    <2>4. n + 1 \in 1 .. Len(s)
      BY <1>1, <1>4
    <2> QED BY <2>3, <2>4
  <1> HIDE DEF accepted, blocked, rest
  <1>5. ASSUME NEW i, InSeq(i, accepted)
        PROVE  \E k \in 1 .. n : s[k] = i
    BY <1>2, <1>5 DEF InSeq
  <1>6. ASSUME NEW i, InSeq(i, rest)
        PROVE  \E k \in n + 2 .. Len(s) : s[k] = i
    <2>1. PICK k \in 1 .. m : s[n + 1 + k] = i
      BY <1>3, <1>6 DEF InSeq
    <2>2. n + 1 + k \in n + 2 .. Len(s)
      BY <1>1, <1>3, <2>1
    <2> QED BY <2>1, <2>2
  <1>7. ASSUME NEW i, InSeq(i, accepted)
        PROVE  InSeq(i, s) /\ ~InSeq(i, rest)
    <2>1. PICK k \in 1 .. n : s[k] = i
      BY <1>5, <1>7
    <2>2. k \in DOMAIN s /\ \A l \in n + 2 .. Len(s) : l \in DOMAIN s /\ k # l
      BY <1>1
    <2>3. InSeq(i, s)
      BY <2>1, <2>2 DEF InSeq
    <2>4. \A l \in n + 2 .. Len(s) : s[l] # i
      BY <2>1, <2>2 DEF Injective
    <2> QED BY <1>6, <2>3, <2>4
  <1>8. ASSUME NEW i, InSeq(i, rest)
        PROVE  InSeq(i, s)
    <2>1. PICK k \in n + 2 .. Len(s) : s[k] = i
      BY <1>6, <1>8
    <2>2. k \in DOMAIN s
      BY <1>1
    <2> QED BY <2>1, <2>2 DEF InSeq
  <1>9. ASSUME n < Len(s)
        PROVE  InSeq(blocked, s) /\ ~InSeq(blocked, accepted) /\ ~InSeq(blocked, rest)
    <2>1. InSeq(blocked, s)
      BY <1>1, <1>4, <1>9 DEF InSeq
    <2>2. \A k \in 1 .. Len(s) : s[k] = blocked => k = n + 1
      BY <1>1, <1>4, <1>9 DEF Injective
    <2>3. \A k \in 1 .. n : k \in 1 .. Len(s) /\ k # n + 1
      BY <1>1
    <2>4. \A k \in n + 2 .. Len(s) : k \in 1 .. Len(s) /\ k # n + 1
      BY <1>1
    <2> QED BY <1>5, <1>6, <2>1, <2>2, <2>3, <2>4
  <1>10. Injective(rest)
    <2> SUFFICES ASSUME NEW j \in 1 .. m, NEW k \in 1 .. m, rest[j] = rest[k]
                 PROVE  j = k
      BY <1>3 DEF Injective
    <2>0. m = Len(s) - (n + 2) + 1
      BY <1>3
    <2>1. n + 1 + j \in 1 .. Len(s) /\ n + 1 + k \in 1 .. Len(s)
      BY <1>1, <2>0
    <2>2. n + 1 + j = n + 1 + k
      BY <1>1, <1>3, <2>1 DEF Injective
    <2> QED BY <1>1, <2>2
  <1> QED BY <1>2, <1>3, <1>7, <1>8, <1>9, <1>10 DEF accepted, blocked, rest

-----------------------------------------------------------------------------
(* Where an input is.                                                      *)

QueueKinds == {"idle", "mailbox", "pend", "hand", "input"}
LogKinds == {"recorded", "refused"}

\* Item i is at the place x of kind k: a queue, a hand, a task's input, or a log.
Holds(k, x, i) ==
    \/ k = "idle" /\ x = NoObj /\ InSeq(i, idle)
    \/ k = "mailbox" /\ x = NoObj /\ InSeq(i, mailbox)
    \/ k = "pend" /\ x \in Objs /\ Live(x) /\ InSeq(i, pend[x])
    \/ k = "hand" /\ x \in Threads /\ InSeq(i, hand[x])
    \/ k = "input" /\ x \in Turns /\ pc[x] # "dead" /\ InSeq(i, input[x])
    \/ k = "unsent" /\ x = NoObj /\ i \in unsent
    \/ k = "recorded" /\ x = NoObj /\ i \in recorded
    \/ k = "refused" /\ x = NoObj /\ i \in refused

\* Every input is at one place ...
OnePlace == \A i, k, x, l, y : Holds(k, x, i) /\ Holds(l, y, i) => k = l /\ x = y

\* ... and there once.
NoRepeats ==
    /\ Injective(idle) /\ Injective(mailbox)
    /\ \A o \in Objs : Injective(pend[o])
    /\ \A th \in Threads : Injective(hand[th])
    /\ \A t \in Turns : Injective(input[t])

\* A dropped ActiveTurn is not used again, a dead task is not run again.
LiveKept == \A o \in Objs : Live(o)' => Live(o) \/ pend'[o] = <<>>
DeadKept == \A t \in Turns : pc[t] = "dead" => pc'[t] = "dead"

\* In a step item i comes to no place but y of kind l, and there only from the
\* place x of kind k, which it leaves.
Moved(i, k, x, l, y) ==
    /\ \A m, z : Holds(m, z, i)' => Holds(m, z, i) \/ (m = l /\ z = y)
    /\ Holds(l, y, i)' => Holds(l, y, i) \/ (Holds(k, x, i) /\ ~Holds(k, x, i)')

\* The step moves the inputs that wait, or drops them.
SettlesInputs ==
    /\ unsent' = unsent /\ recorded \subseteq recorded' /\ refused \subseteq refused'
    /\ \A i : \E k \in QueueKinds, l \in QueueKinds \cup LogKinds :
                 \E x, y : Moved(i, k, x, l, y)

\* The step takes one input from outside and puts it somewhere.
ReceivesInput ==
    \E i \in unsent, l \in QueueKinds \cup LogKinds : \E y :
        \A m, z, j : Holds(m, z, j)' <=> IF j = i THEN m = l /\ z = y ELSE Holds(m, z, j)

\* An input that moves leaves the place it was at.
LEMMA SettlesOnePlace ==
    ASSUME OnePlace, SettlesInputs
    PROVE  OnePlace'
  <1> SUFFICES ASSUME NEW i, NEW m, NEW z, NEW n, NEW w, Holds(m, z, i)', Holds(n, w, i)'
               PROVE  m = n /\ z = w
    BY DEF OnePlace
  <1>1. PICK k, l, x, y : Moved(i, k, x, l, y)
    BY DEF SettlesInputs
  <1>2. CASE Holds(m, z, i) /\ Holds(n, w, i)
    BY <1>2 DEF OnePlace
  <1>3. CASE ~Holds(m, z, i)
    <2>1. m = l /\ z = y
      BY <1>1, <1>3 DEF Moved
    <2>2. Holds(k, x, i) /\ ~Holds(k, x, i)'
      BY <1>1, <1>3, <2>1 DEF Moved
    <2>3. Holds(n, w, i) => n = k /\ w = x
      BY <2>2 DEF OnePlace
    <2>4. ~Holds(n, w, i)
      BY <2>2, <2>3
    <2> QED BY <1>1, <2>1, <2>4 DEF Moved
  <1>4. CASE ~Holds(n, w, i)
    <2>1. n = l /\ w = y
      BY <1>1, <1>4 DEF Moved
    <2>2. Holds(k, x, i) /\ ~Holds(k, x, i)'
      BY <1>1, <1>4, <2>1 DEF Moved
    <2>3. Holds(m, z, i) => m = k /\ z = x
      BY <2>2 DEF OnePlace
    <2>4. ~Holds(m, z, i)
      BY <2>2, <2>3
    <2> QED BY <1>1, <2>1, <2>4 DEF Moved
  <1> QED BY <1>2, <1>3, <1>4

\* An input that is received is nowhere else.
LEMMA ReceivesOnePlace ==
    ASSUME OnePlace, ReceivesInput
    PROVE  OnePlace'
  <1>1. PICK i \in unsent, l \in QueueKinds \cup LogKinds :
            \E y : \A m, z, j : Holds(m, z, j)' <=> IF j = i THEN m = l /\ z = y
                                                    ELSE Holds(m, z, j)
    BY DEF ReceivesInput
  <1>2. PICK y : \A m, z, j : Holds(m, z, j)' <=> IF j = i THEN m = l /\ z = y
                                                  ELSE Holds(m, z, j)
    BY <1>1
  <1> SUFFICES ASSUME NEW j, NEW m, NEW z, NEW n, NEW w, Holds(m, z, j)', Holds(n, w, j)'
               PROVE  m = n /\ z = w
    BY DEF OnePlace
  <1>3. CASE j = i
    BY <1>2, <1>3
  <1>4. CASE j # i
    <2>1. Holds(m, z, j) /\ Holds(n, w, j)
      BY <1>2, <1>4
    <2> QED BY <2>1 DEF OnePlace
  <1> QED BY <1>3, <1>4

-----------------------------------------------------------------------------
(* The ledger.                                                             *)

\* What is held is what is at the places of the queues.
LEMMA HeldPlaces ==
    \A j \in Items : j \in Held <=> \E k \in QueueKinds : \E x : Holds(k, x, j)
  <1> SUFFICES ASSUME NEW i \in Items
               PROVE  i \in Held <=> \E k \in QueueKinds : \E x : Holds(k, x, i)
    OBVIOUS
  <1>1. ASSUME i \in Held
        PROVE  \E k \in QueueKinds : \E x : Holds(k, x, i)
    <2>1. CASE InSeq(i, idle)
      BY <2>1 DEF Holds, QueueKinds
    <2>2. CASE InSeq(i, mailbox)
      BY <2>2 DEF Holds, QueueKinds
    <2>3. CASE \E o \in Objs : Live(o) /\ InSeq(i, pend[o])
      BY <2>3 DEF Holds, QueueKinds
    <2>4. CASE \E th \in Threads : InSeq(i, hand[th])
      BY <2>4 DEF Holds, QueueKinds
    <2>5. CASE \E t \in Turns : pc[t] # "dead" /\ InSeq(i, input[t])
      BY <2>5 DEF Holds, QueueKinds
    <2> QED BY <1>1, <2>1, <2>2, <2>3, <2>4, <2>5 DEF Held
  <1>2. ASSUME NEW k \in QueueKinds, NEW x, Holds(k, x, i)
        PROVE  i \in Held
    BY <1>2 DEF Held, Holds, QueueKinds
  <1> QED BY <1>1, <1>2

\* The same in the next state.
LEMMA HeldPlacesNext ==
    (\A j \in Items : j \in Held <=> \E k \in QueueKinds : \E x : Holds(k, x, j))'
  BY HeldPlaces, PTL

\* A move of waiting inputs settles those that reach a log or are dropped.
LEMMA SettlesLedger ==
    ASSUME DataTypeOK', OnePlace', SettlesInputs
    PROVE  Ledger!Settle
  <1> DEFINE r == recorded' \ recorded
             b == refused' \ refused
             l == Held \ Held'
  <1>0. unsent' = unsent /\ recorded' \subseteq Items /\ refused' \subseteq Items
    BY DEF SettlesInputs, DataTypeOK
  <1>1. \A j \in Items : j \in Held' <=> \E k \in QueueKinds : \E x : Holds(k, x, j)'
    BY HeldPlacesNext
  <1>2. ASSUME NEW i \in Items, NEW m \in QueueKinds \cup LogKinds, NEW z,
               Holds(m, z, i)', ~Holds(m, z, i)
        PROVE  i \in Held
    <2>1. PICK k \in QueueKinds, n \in QueueKinds \cup LogKinds :
              \E x, y : Moved(i, k, x, n, y)
      BY DEF SettlesInputs
    <2>2. PICK x, y : Moved(i, k, x, n, y)
      BY <2>1
    <2>3. Holds(k, x, i)
      BY <1>2, <2>2 DEF Moved
    <2> QED BY <2>3, HeldPlaces
  <1>3. Held' \subseteq Held
    <2> SUFFICES ASSUME NEW i \in Held' PROVE i \in Held
      OBVIOUS
    <2>1. i \in Items
      BY DEF Held
    <2>2. PICK k \in QueueKinds : \E x : Holds(k, x, i)'
      BY <1>1, <2>1
    <2>3. PICK x : Holds(k, x, i)'
      BY <2>2
    <2> QED BY <1>2, <2>1, <2>3, HeldPlaces
  <1>4. \A i : /\ i \in recorded' <=> Holds("recorded", NoObj, i)'
               /\ i \in refused' <=> Holds("refused", NoObj, i)'
               /\ i \in recorded <=> Holds("recorded", NoObj, i)
               /\ i \in refused <=> Holds("refused", NoObj, i)
    BY DEF Holds
  <1>5. r \subseteq Held /\ b \subseteq Held
    BY <1>0, <1>2, <1>4 DEF LogKinds
  <1>6. r \cap b = {}
    BY <1>4 DEF OnePlace
  <1>7. ASSUME NEW i \in r \cup b
        PROVE  i \notin Held'
    <2>1. i \in Items /\ \A k \in QueueKinds : \A x : ~Holds(k, x, i)'
      BY <1>0, <1>4, <1>7 DEF OnePlace, QueueKinds
    <2> QED BY <1>1, <2>1
  <1>8. Held' = Held \ (r \cup b \cup l)
    BY <1>3, <1>7
  <1>9. recorded' = recorded \cup r /\ refused' = refused \cup b
    BY DEF SettlesInputs
  <1> QED BY <1>0, <1>5, <1>6, <1>8, <1>9 DEF Ledger!Settle

\* Taking one input is a Receive.
LEMMA ReceivesLedger ==
    ASSUME DataTypeOK, DataTypeOK', OnePlace, ReceivesInput
    PROVE  \E i \in Items : Ledger!Receive(i)
  <1>1. PICK i \in unsent, l \in QueueKinds \cup LogKinds :
            \E y : \A m, z, j : Holds(m, z, j)' <=> IF j = i THEN m = l /\ z = y
                                                    ELSE Holds(m, z, j)
    BY DEF ReceivesInput
  <1>2. PICK y : \A m, z, j : Holds(m, z, j)' <=> IF j = i THEN m = l /\ z = y
                                                  ELSE Holds(m, z, j)
    BY <1>1
  <1>3. i \in Items /\ unsent \subseteq Items /\ unsent' \subseteq Items
        /\ recorded \subseteq Items /\ recorded' \subseteq Items
        /\ refused \subseteq Items /\ refused' \subseteq Items
    BY DEF DataTypeOK
  <1>4. \A j : /\ (j \in unsent' <=> Holds("unsent", NoObj, j)')
               /\ (j \in unsent <=> Holds("unsent", NoObj, j))
               /\ (j \in recorded' <=> Holds("recorded", NoObj, j)')
               /\ (j \in recorded <=> Holds("recorded", NoObj, j))
               /\ (j \in refused' <=> Holds("refused", NoObj, j)')
               /\ (j \in refused <=> Holds("refused", NoObj, j))
    BY DEF Holds
  <1>5. \A k, x : Holds(k, x, i) => k = "unsent" /\ x = NoObj
    BY <1>4 DEF OnePlace
  <1>6. \A j \in Items : j \in Held' <=> \E k \in QueueKinds : \E x : Holds(k, x, j)'
    BY HeldPlacesNext
  <1>7. i \notin Held /\ i \notin recorded /\ i \notin refused
    BY <1>3, <1>4, <1>5, HeldPlaces DEF QueueKinds
  <1>8. unsent' = unsent \ {i}
    BY <1>2, <1>4 DEF QueueKinds, LogKinds
  <1>9. \A j \in Items \ {i} : /\ j \in Held' <=> j \in Held
                               /\ j \in recorded' <=> j \in recorded
                               /\ j \in refused' <=> j \in refused
    BY <1>2, <1>4, <1>6, HeldPlaces
  <1>10. Held \subseteq Items /\ Held' \subseteq Items
    BY DEF Held
  <1>11. CASE l \in QueueKinds
    <2>1. i \in Held' /\ i \notin recorded' /\ i \notin refused'
      BY <1>2, <1>3, <1>4, <1>6, <1>11 DEF QueueKinds
    <2>2. Held' = Held \cup {i} /\ recorded' = recorded /\ refused' = refused
      BY <1>3, <1>7, <1>9, <1>10, <2>1
    <2> QED BY <1>3, <1>8, <2>2 DEF Ledger!Receive
  <1>12. CASE l \in LogKinds
    <2>1. i \notin Held'
      BY <1>2, <1>3, <1>6, <1>12 DEF QueueKinds, LogKinds
    <2>2. l = "recorded" => i \in recorded' /\ i \notin refused'
      <3> SUFFICES ASSUME l = "recorded" PROVE i \in recorded' /\ i \notin refused'
        OBVIOUS
      <3>1. y = NoObj
        BY <1>2 DEF Holds
      <3> QED BY <1>2, <1>4, <3>1
    <2>3. l = "refused" => i \in refused' /\ i \notin recorded'
      <3> SUFFICES ASSUME l = "refused" PROVE i \in refused' /\ i \notin recorded'
        OBVIOUS
      <3>1. y = NoObj
        BY <1>2 DEF Holds
      <3> QED BY <1>2, <1>4, <3>1
    <2>4. Held' = Held
      BY <1>7, <1>9, <1>10, <2>1
    <2>5. CASE l = "recorded"
      <3>1. recorded' = recorded \cup {i} /\ refused' = refused
        BY <1>3, <1>7, <1>9, <2>2, <2>5
      <3> QED BY <1>3, <1>8, <2>4, <3>1 DEF Ledger!Receive
    <2>6. CASE l = "refused"
      <3>1. refused' = refused \cup {i} /\ recorded' = recorded
        BY <1>3, <1>7, <1>9, <2>3, <2>6
      <3> QED BY <1>3, <1>8, <2>4, <3>1 DEF Ledger!Receive
    <2> QED BY <1>12, <2>5, <2>6 DEF LogKinds
  <1> QED BY <1>1, <1>11, <1>12

-----------------------------------------------------------------------------
(* What comes back: nothing.                                               *)

\* A thread takes a reference to the installed ActiveTurn, or to a new one,
\* whose pending input is empty.
NewOrKnown(o) == o \in {active, NoObj} \/ (o \in FreshObjs /\ pend'[o] = <<>>)

LEMMA LiveMove ==
    ASSUME NewOrKnown(active'),
           \A th \in Threads : obj'[th] = obj[th] \/ NewOrKnown(obj'[th])
    PROVE  LiveKept
  <1> SUFFICES ASSUME NEW o \in Objs, Live(o)', ~Live(o)
               PROVE  pend'[o] = <<>>
    BY DEF LiveKept
  <1>0. NoObj \notin Objs
    BY SentinelsAssumption
  <1>1. CASE active' = o
    BY <1>0, <1>1 DEF NewOrKnown, Live
  <1>2. CASE \E th \in Threads : obj'[th] = o
    BY <1>0, <1>2 DEF NewOrKnown, Live
  <1> QED BY <1>1, <1>2 DEF Live

\* An ActiveTurn that nothing refers to stays unused until it is allocated anew.
LEMMA LiveNext ==
    ASSUME ControlTypeOK, DataTypeOK, [Next]_vars
    PROVE  LiveKept
  <1> USE DEF slot, locals
  <1>0. /\ Loop \in Threads /\ Background \in Threads /\ Guardian \in Threads
        /\ \A t \in Turns : t \in Threads
        /\ pend \in [Objs -> Seq(Items)] /\ obj \in [Threads -> Objs \cup {NoObj}]
    BY DEF Threads, DataTypeOK, ControlTypeOK
  <1>1. CASE Submission
    <2>1. active' = active /\ obj' = obj
      BY <1>1 DEF Submission, SteerInput, SteerRefused, UserTurn, StandaloneTask,
         InterAgentCommunication, ApproveDeniedAction, ExecApproval, Interrupt, Shutdown
    <2> QED BY <2>1, LiveMove DEF NewOrKnown
  <1>2. CASE External
    <2>1. /\ active' \in {active, NoObj}
          /\ \A th \in Threads : obj'[th] = obj[th] \/ obj'[th] = active
      BY <1>0, <1>2 DEF External, FireScheduledPrompt, AuxiliaryOutput, AbortTurnIfActive
    <2> QED BY <2>1, LiveMove DEF NewOrKnown
  <1>3. ASSUME NEW th \in Threads, Procedure(th)
        PROVE  LiveKept
    <2>1. CASE \/ AbortTake(th) \/ AbortCancel(th) \/ AbortKill(th) \/ AbortPending(th)
               \/ AbortClear(th) \/ QueueItems(th) \/ MaybeStartIdle(th)
               \/ MaybeStartMail(th) \/ StartTakeIdle(th) \/ StartTakePending(th)
               \/ StartDrainMailbox(th) \/ StartPush(th)
      <3>1. /\ active' \in {active, NoObj}
            /\ \A x \in Threads : obj'[x] \in {obj[x], active, NoObj}
        BY <1>0, <2>1 DEF AbortTake, AbortCancel, AbortKill, AbortPending, AbortClear,
           QueueItems, MaybeStartIdle, MaybeStartMail, StartTakeIdle, StartTakePending,
           TakePending, StartDrainMailbox, DrainMailbox, StartPush, Return
      <3> QED BY <3>1, LiveMove DEF NewOrKnown
    <2>2. CASE MaybeStartReserve(th) \/ StartGetTurn(th) \/ StartSpawn(th)
      <3>1. FreshObjs # {} => FreshObj \in FreshObjs /\ FreshObj \in Objs
        BY FreshObjIsFresh DEF FreshObjs
      <3>2. CASE active # NoObj
        <4>1. /\ active' = active
              /\ \A x \in Threads : obj'[x] \in {obj[x], active, NoObj}
          BY <1>0, <2>2, <3>2 DEF MaybeStartReserve, StartGetTurn, StartSpawn, Return
        <4> QED BY <4>1, LiveMove DEF NewOrKnown
      <3>3. CASE active = NoObj
        <4>1. /\ FreshObj \in FreshObjs /\ FreshObj \in Objs
              /\ active' = FreshObj /\ pend' = [pend EXCEPT ![FreshObj] = <<>>]
              /\ \A x \in Threads : obj'[x] \in {obj[x], FreshObj, NoObj}
          BY <1>0, <2>2, <3>1, <3>3
             DEF MaybeStartReserve, StartGetTurn, StartSpawn, InstallFresh
        <4> QED BY <1>0, <4>1, LiveMove DEF NewOrKnown
      <3> QED BY <3>2, <3>3
    <2> QED BY <1>3, <2>1, <2>2 DEF Procedure
  <1>4. ASSUME NEW t \in Turns, Body(t)
        PROVE  LiveKept
    <2>1. active' = active /\ obj' = obj
      BY <1>4 DEF Body, RunStandalone, PrewarmCancelled, BeginWithInput, BeginWithoutInput,
         EnterRunTurn, ReturnFromRunTurn, SessionStartHookStops, DrainTurn, TakePending,
         DrainMail, DrainMailbox, InspectPending, ToolCall, FollowUp, RequestApproval,
         ReceiveApproval, ApprovalCancelled, AssistantMessage, ResponseCompleted,
         SamplingFails, AfterAnswer, StopHookContinues, RegularTaskLoop, AfterRun,
         BodyUnchanged
    <2> QED BY <2>1, LiveMove DEF NewOrKnown
  <1>5. ASSUME NEW t \in Turns, Finish(t) \/ Die(t)
        PROVE  LiveKept
    <2>1. /\ active' \in {active, NoObj}
          /\ \A x \in Threads : obj'[x] \in {obj[x], active, NoObj}
      BY <1>0, <1>5 DEF Finish, FinishRemove, FinishTakePending, FinishRecord, FinishClear, Die
    <2> QED BY <2>1, LiveMove DEF NewOrKnown
  <1>6. CASE UNCHANGED vars
    <2>1. active' = active /\ obj' = obj
      BY <1>6 DEF vars
    <2> QED BY <2>1, LiveMove DEF NewOrKnown
  <1> QED BY <1>1, <1>2, <1>3, <1>4, <1>5, <1>6 DEF Next

-----------------------------------------------------------------------------
(* Who answers for the input of a task that does not run yet.              *)

\* A thread has a target exactly while it aborts or gathers on its way to
\* start_task ...
TargetsInUse ==
    \A th \in Threads : tgt[th] # NoTurn =>
        pc[th] \in StartTaskPcs \/ (pc[th] \in AbortPcs /\ why[th] = "Replaced")

\* ... its hand is empty before it gathers and after ...
HandsEmpty ==
    \A th \in Threads : pc[th] \in {"ready", "start_spawn"} => hand[th] = <<>>

\* ... and the input of a turn to come belongs to the thread that starts it: no
\* step reuses the sub-id of a turn with an input.
InputsOwned ==
    \A t \in Turns : pc[t] = "unborn" /\ input[t] # <<>> =>
        \E th \in Threads \ Turns : tgt[th] = t

OwnersInv == TargetsInUse /\ HandsEmpty /\ InputsOwned

\* A step of one thread, which may begin the task it has started.
OwnerMove(th) ==
    /\ \A x \in Threads \ {th} :
          /\ hand'[x] = hand[x] /\ tgt'[x] = tgt[x] /\ why'[x] = why[x]
          /\ pc'[x] = pc[x] \/ (pc[x] = "unborn" /\ pc'[x] = "begin")
    /\ pc[th] \notin {"unborn", "dead"} /\ pc'[th] # "unborn"
    /\ tgt'[th] # NoTurn =>
          pc'[th] \in StartTaskPcs \/ (pc'[th] \in AbortPcs /\ why'[th] = "Replaced")
    /\ pc'[th] \in {"ready", "start_spawn"} => hand'[th] = <<>>
    /\ \A t \in Turns : input'[t] \in {input[t], <<>>} \/ (th \notin Turns /\ tgt'[th] = t)
    /\ \A t \in Turns : tgt[th] = t /\ th \notin Turns =>
          tgt'[th] = t \/ pc'[t] # "unborn"

\* Such a step keeps the owners, and no dead task comes back.
LEMMA OwnerMoveInv ==
    ASSUME OwnersInv, NEW th \in Threads, OwnerMove(th)
    PROVE  OwnersInv' /\ DeadKept
  <1>0. \A t \in Turns : t \in Threads
    BY DEF Threads
  <1>1. TargetsInUse'
    BY DEF OwnersInv, OwnerMove, TargetsInUse, StartTaskPcs, AbortPcs
  <1>2. HandsEmpty'
    BY DEF OwnersInv, OwnerMove, HandsEmpty
  <1>3. InputsOwned'
    <2> SUFFICES ASSUME NEW t \in Turns, pc'[t] = "unborn", input'[t] # <<>>
                 PROVE  \E x \in Threads \ Turns : tgt'[x] = t
      BY DEF InputsOwned
    <2>1. pc[t] = "unborn"
      BY <1>0 DEF OwnerMove
    <2>2. CASE input'[t] = input[t]
      <3>1. PICK x \in Threads \ Turns : tgt[x] = t
        BY <2>1, <2>2 DEF OwnersInv, InputsOwned
      <3>2. tgt'[x] = t
        BY <3>1 DEF OwnerMove
      <3> QED BY <3>2
    <2>3. CASE input'[t] # input[t]
      BY <2>3 DEF OwnerMove
    <2> QED BY <2>2, <2>3
  <1>4. DeadKept
    BY <1>0 DEF OwnerMove, DeadKept
  <1> QED BY <1>1, <1>2, <1>3, <1>4 DEF OwnersInv

\* The Ops.
LEMMA SubmissionOwners ==
    ASSUME ControlInv, DataTypeOK, OwnersInv, Submission
    PROVE  OwnerMove(Loop)
  <1> USE DEF Goto, params, locals
  <1>0. /\ Loop \in Threads \ Turns /\ pc \in [Threads -> Pcs] /\ NoTurn \notin Turns
        /\ tgt \in [Threads -> Turns \cup {NoTurn}] /\ why \in [Threads -> Reasons]
        /\ hand \in [Threads -> Seq(Items)] /\ input \in [Turns -> Seq(Items)]
    BY ThreadsAssumption, SentinelsAssumption DEF Threads, ControlInv, ControlTypeOK, DataTypeOK
  <1>1. /\ pc[Loop] = "ready" /\ tgt[Loop] = NoTurn /\ hand[Loop] = <<>>
    <2>1. pc[Loop] = "ready"
      BY DEF Submission, SteerInput, SteerRefused, UserTurn, InterAgentCommunication,
         ApproveDeniedAction, StandaloneTask, ExecApproval, Interrupt, Shutdown
    <2> QED BY <1>0, <2>1 DEF OwnersInv, TargetsInUse, HandsEmpty, StartTaskPcs, AbortPcs
  <1>2. CASE \/ \E i \in UserItems : SteerInput(i) \/ SteerRefused(i)
             \/ \E t \in Turns : ExecApproval(t)
    <2>1. UNCHANGED <<pc, tgt, why, hand, input>>
      BY <1>2 DEF SteerInput, SteerRefused, ExecApproval
    <2> QED BY <1>0, <1>1, <2>1 DEF OwnerMove
  <1>3. CASE \E i \in MailItems : InterAgentCommunication(i)
    <2>1. /\ UNCHANGED <<tgt, why, hand, input>> /\ pc'[Loop] \in {"maybe_idle", "ready"}
          /\ \A x \in Threads \ {Loop} : pc'[x] = pc[x]
      BY <1>0, <1>3 DEF InterAgentCommunication
    <2> QED BY <1>0, <1>1, <2>1 DEF OwnerMove
  <1>4. CASE \E i \in DeniedItems : ApproveDeniedAction(i)
    <2>1. PICK i \in DeniedItems : ApproveDeniedAction(i)
      BY <1>4
    <2>2. UNCHANGED <<tgt, why, input>>
      BY <2>1 DEF ApproveDeniedAction
    <2>3. CASE active # NoObj
      <3>1. UNCHANGED <<pc, hand>>
        BY <2>1, <2>3 DEF ApproveDeniedAction
      <3> QED BY <1>0, <1>1, <2>2, <3>1 DEF OwnerMove
    <2>4. CASE active = NoObj
      <3>1. pc' = [pc EXCEPT ![Loop] = "queue"] /\ hand' = [hand EXCEPT ![Loop] = <<i>>]
        BY <2>1, <2>4 DEF ApproveDeniedAction
      <3> QED BY <1>0, <1>1, <2>2, <3>1 DEF OwnerMove
    <2> QED BY <2>3, <2>4
  <1>5. CASE \/ \E i \in UserItems : UserTurn(i)
             \/ \E k \in StandaloneKinds : StandaloneTask(k)
    <2>1. /\ pc' = [pc EXCEPT ![Loop] = "abort_take"]
          /\ tgt' = [tgt EXCEPT ![Loop] = FreshTurn]
          /\ why' = [why EXCEPT ![Loop] = "Replaced"]
          /\ hand' = hand
          /\ \E items : input' = [input EXCEPT ![FreshTurn] = items]
      BY <1>5 DEF UserTurn, StandaloneTask, SpawnTask
    <2> QED BY <1>0, <1>1, <2>1 DEF OwnerMove, AbortPcs
  <1>6. CASE Interrupt \/ Shutdown
    <2>1. /\ UNCHANGED <<tgt, hand, input>> /\ pc' = [pc EXCEPT ![Loop] = "abort_take"]
          /\ why' = [why EXCEPT ![Loop] = "Interrupted"]
      BY <1>6 DEF Interrupt, Shutdown
    <2> QED BY <1>0, <1>1, <2>1 DEF OwnerMove
  <1> QED BY <1>2, <1>3, <1>4, <1>5, <1>6 DEF Submission

\* The scheduler and the guardian.
LEMMA ExternalOwners ==
    ASSUME ControlInv, DataTypeOK, OwnersInv, External
    PROVE  OwnerMove(Background) \/ OwnerMove(Guardian)
  <1> USE DEF Goto, params, locals
  <1>0. /\ Background \in Threads \ Turns /\ Guardian \in Threads \ Turns
        /\ pc \in [Threads -> Pcs] /\ NoTurn \notin Turns
        /\ tgt \in [Threads -> Turns \cup {NoTurn}] /\ why \in [Threads -> Reasons]
        /\ hand \in [Threads -> Seq(Items)]
    BY ThreadsAssumption, SentinelsAssumption DEF Threads, ControlInv, ControlTypeOK, DataTypeOK
  <1>1. \A th \in {Background, Guardian} :
            pc[th] = "ready" => tgt[th] = NoTurn /\ hand[th] = <<>>
    BY <1>0 DEF OwnersInv, TargetsInUse, HandsEmpty, StartTaskPcs, AbortPcs
  <1>2. CASE \E i \in SchedItems : FireScheduledPrompt(i)
    BY <1>0, <1>1, <1>2 DEF FireScheduledPrompt, OwnerMove
  <1>3. CASE \E i \in AuxItems : AuxiliaryOutput(i)
    BY <1>0, <1>1, <1>3 DEF AuxiliaryOutput, OwnerMove
  <1>4. CASE \E t \in Turns : AbortTurnIfActive(t)
    BY <1>0, <1>1, <1>4 DEF AbortTurnIfActive, OwnerMove
  <1> QED BY <1>2, <1>3, <1>4 DEF External

\* The shared procedures: a target is chosen, kept and, at the end, spawned.
LEMMA ProcedureOwners ==
    ASSUME ControlInv, DataTypeOK, OwnersInv, NEW th \in Threads, Procedure(th)
    PROVE  OwnerMove(th)
  <1> USE DEF Goto, params, locals, OwnerMove
  <1>0. /\ pc \in [Threads -> Pcs] /\ NoTurn \notin Turns /\ \A t \in Turns : t \in Threads
        /\ tgt \in [Threads -> Turns \cup {NoTurn}] /\ why \in [Threads -> Reasons]
        /\ hand \in [Threads -> Seq(Items)] /\ input \in [Turns -> Seq(Items)]
    BY SentinelsAssumption DEF Threads, ControlInv, ControlTypeOK, DataTypeOK
  <1>1. tgt[th] # NoTurn =>
            pc[th] \in StartTaskPcs \/ (pc[th] \in AbortPcs /\ why[th] = "Replaced")
    BY DEF OwnersInv, TargetsInUse
  <1>2. pc[th] \in {"ready", "start_spawn"} => hand[th] = <<>>
    BY DEF OwnersInv, HandsEmpty
  <1>3. ASSUME Return(th), tgt[th] = NoTurn, pc[th] \notin {"unborn", "dead"}, input' = input,
               \A x \in Threads \ {th} : pc'[x] = pc[x]
        PROVE  OwnerMove(th)
    <2>1. /\ pc'[th] \in {"done", "exited", "ready"} /\ tgt'[th] = NoTurn /\ hand'[th] = <<>>
          /\ \A x \in Threads \ {th} : tgt'[x] = tgt[x] /\ hand'[x] = hand[x] /\ why'[x] = why[x]
      BY <1>0, <1>3 DEF Return
    <2> QED BY <1>0, <1>3, <2>1
  <1>4. Return(th) => \A x \in Threads \ {th} : pc'[x] = pc[x]
    BY <1>0 DEF Return
  <1>5. CASE AbortTake(th)
    <2>1. CASE HasActiveTask
      BY <1>0, <1>1, <1>5, <2>1 DEF AbortTake, AbortPcs, StartTaskPcs
    <2>2. CASE ~HasActiveTask /\ why[th] = "Replaced"
      BY <1>0, <1>1, <1>5, <2>2 DEF AbortTake, StartTaskPcs
    <2>3. CASE ~HasActiveTask /\ why[th] = "Interrupted"
      <3>1. tgt[th] = NoTurn
        BY <1>1, <1>5, <2>3 DEF AbortTake, StartTaskPcs
      <3> QED BY <1>3, <1>4, <1>5, <2>3, <3>1 DEF AbortTake
    <2> QED BY <1>5, <2>1, <2>2, <2>3 DEF AbortTake
  <1>6. CASE AbortCancel(th) \/ AbortKill(th)
    <2>1. /\ UNCHANGED <<tgt, hand, why, input>> /\ pc[th] \in {"abort_each", "abort_kill"}
          /\ \A x \in Threads \ {th} : pc'[x] = pc[x]
          /\ pc'[th] \in {"abort_each", "abort_kill", "abort_pending", "abort_clear"}
      BY <1>0, <1>6 DEF AbortCancel, AbortKill, AbortNext
    <2> QED BY <1>0, <1>1, <2>1 DEF AbortPcs, StartTaskPcs
  <1>7. CASE AbortPending(th)
    BY <1>0, <1>1, <1>7 DEF AbortPending, AbortPcs, StartTaskPcs
  <1>8. CASE AbortClear(th)
    <2>1. /\ UNCHANGED <<tgt, hand, why, input>> /\ pc[th] = "abort_clear"
          /\ \A x \in Threads \ {th} : pc'[x] = pc[x]
          /\ pc'[th] = IF why[th] = "Replaced" THEN "start_idle"
                       ELSE IF hand[th] # <<>> THEN "requeue" ELSE "maybe_idle"
      BY <1>0, <1>8 DEF AbortClear
    <2> QED BY <1>0, <1>1, <2>1 DEF StartTaskPcs
  <1>9. CASE QueueItems(th)
    <2>0. tgt[th] = NoTurn
      BY <1>1, <1>9 DEF QueueItems, StartTaskPcs, AbortPcs
    <2>1. CASE pc[th] = "queue"
      BY <1>3, <1>4, <1>9, <2>0, <2>1 DEF QueueItems
    <2>2. CASE pc[th] = "requeue"
      BY <1>0, <1>9, <2>0, <2>2 DEF QueueItems
    <2> QED BY <1>9, <2>1, <2>2 DEF QueueItems
  <1>10. CASE MaybeStartIdle(th) \/ MaybeStartMail(th)
    <2>0. tgt[th] = NoTurn /\ pc[th] \in {"maybe_idle", "maybe_mail"} /\ input' = input
      BY <1>1, <1>10 DEF MaybeStartIdle, MaybeStartMail, StartTaskPcs, AbortPcs
    <2>1. CASE Return(th)
      BY <1>3, <1>4, <2>0, <2>1
    <2>2. CASE ~Return(th)
      <3>1. /\ UNCHANGED <<tgt, hand, why>> /\ pc'[th] \in {"maybe_reserve", "maybe_mail"}
            /\ \A x \in Threads \ {th} : pc'[x] = pc[x]
        BY <1>0, <1>10, <2>2 DEF MaybeStartIdle, MaybeStartMail
      <3> QED BY <1>0, <2>0, <3>1
    <2> QED BY <2>1, <2>2
  <1>11. CASE MaybeStartReserve(th)
    <2>0. tgt[th] = NoTurn /\ pc[th] = "maybe_reserve"
      BY <1>1, <1>11 DEF MaybeStartReserve, StartTaskPcs, AbortPcs
    <2>1. CASE active # NoObj
      BY <1>3, <1>4, <1>11, <2>0, <2>1 DEF MaybeStartReserve
    <2>2. CASE active = NoObj
      <3>1. /\ pc' = [pc EXCEPT ![th] = "start_idle"] /\ UNCHANGED <<hand, why>>
            /\ tgt' = [tgt EXCEPT ![th] = FreshTurn]
            /\ input' = [input EXCEPT ![FreshTurn] = <<>>]
        BY <1>11, <2>2 DEF MaybeStartReserve
      <3> QED BY <1>0, <2>0, <3>1 DEF StartTaskPcs
    <2> QED BY <2>1, <2>2
  <1>12. CASE StartTakeIdle(th)
    BY <1>0, <1>12 DEF StartTakeIdle, StartTaskPcs
  <1>13. CASE StartTakePending(th)
    <2>1. /\ pc[th] = "start_turn" /\ UNCHANGED <<tgt, why, input>>
          /\ pc'[th] \in {"start_mail", "start_obj"}
          /\ \A x \in Threads \ {th} : pc'[x] = pc[x] /\ hand'[x] = hand[x]
      BY <1>0, <1>13 DEF StartTakePending, TakePending
    <2> QED BY <1>0, <2>1 DEF StartTaskPcs
  <1>14. CASE StartDrainMailbox(th)
    BY <1>0, <1>14 DEF StartDrainMailbox, DrainMailbox, StartTaskPcs
  <1>15. CASE StartGetTurn(th)
    BY <1>0, <1>15 DEF StartGetTurn, StartTaskPcs
  <1>16. CASE StartPush(th)
    BY <1>0, <1>16 DEF StartPush, StartTaskPcs
  <1>17. CASE StartSpawn(th)
    <2>1. /\ tgt[th] \in Turns /\ pc[tgt[th]] = "unborn" /\ pc[th] = "start_spawn"
          /\ tgt[th] # th
      BY <1>0, <1>17 DEF StartSpawn, ControlInv, TargetsFresh, StartTaskPcs
    <2>2. /\ pc'[th] \in {"done", "exited", "ready"} /\ pc'[tgt[th]] = "begin"
          /\ \A x \in Threads \ {th} : x # tgt[th] => pc'[x] = pc[x]
          /\ UNCHANGED <<hand, input>> /\ tgt' = [tgt EXCEPT ![th] = NoTurn]
          /\ why' = [why EXCEPT ![th] = "none"]
      BY <1>0, <1>17, <2>1 DEF StartSpawn
    <2> QED BY <1>0, <1>2, <2>1, <2>2
  <1> QED BY <1>5, <1>6, <1>7, <1>8, <1>9, <1>10, <1>11, <1>12, <1>13, <1>14, <1>15, <1>16,
             <1>17 DEF Procedure

\* A running task has no target.
LEMMA TaskOwners ==
    ASSUME ControlInv, DataTypeOK, OwnersInv, NEW t \in Turns, Body(t) \/ Finish(t) \/ Die(t)
    PROVE  OwnerMove(t)
  <1>0. /\ t \in Threads /\ pc \in [Threads -> Pcs]
        /\ tgt \in [Threads -> Turns \cup {NoTurn}] /\ why \in [Threads -> Reasons]
        /\ hand \in [Threads -> Seq(Items)] /\ input \in [Turns -> Seq(Items)]
    BY DEF Threads, ControlInv, ControlTypeOK, DataTypeOK
  <1>1. tgt[t] # NoTurn =>
            pc[t] \in StartTaskPcs \/ (pc[t] \in AbortPcs /\ why[t] = "Replaced")
    BY <1>0 DEF OwnersInv, TargetsInUse
  <1>2. CASE Body(t)
    <2>1. QuietMove(t)
      BY <1>2, BodyIsQuiet
    <2>2. /\ pc[t] \in BodyPcs /\ UNCHANGED <<tgt, why>>
          /\ \A x \in Threads \ {t} : hand'[x] = hand[x]
          /\ \A u \in Turns : input'[u] \in {input[u], <<>>}
      BY <1>0, <1>2 DEF Body, RunStandalone, PrewarmCancelled, BeginWithInput,
         BeginWithoutInput, EnterRunTurn, ReturnFromRunTurn, SessionStartHookStops, DrainTurn,
         TakePending, DrainMail, DrainMailbox, InspectPending, ToolCall, FollowUp,
         RequestApproval, ReceiveApproval, ApprovalCancelled, AssistantMessage,
         ResponseCompleted, SamplingFails, AfterAnswer, StopHookContinues, RegularTaskLoop,
         AfterRun, BodyUnchanged, locals, params, BodyPcs
    <2>3. tgt[t] = NoTurn /\ pc[t] \notin {"unborn", "dead"}
      BY <1>1, <2>2 DEF BodyPcs, StartTaskPcs, AbortPcs
    <2>4. pc'[t] \notin {"ready", "start_spawn", "unborn"}
      <3>1. CASE AssistantMessage(t)
        BY <2>2, <3>1 DEF AssistantMessage, BodyPcs
      <3>2. CASE ~AssistantMessage(t)
        BY <1>0, <1>2, <3>2 DEF Body, RunStandalone, PrewarmCancelled, BeginWithInput,
           BeginWithoutInput, EnterRunTurn, ReturnFromRunTurn, SessionStartHookStops, DrainTurn,
           TakePending, DrainMail, DrainMailbox, InspectPending, ToolCall, FollowUp,
           RequestApproval, ReceiveApproval, ApprovalCancelled, ResponseCompleted,
           SamplingFails, AfterAnswer, StopHookContinues, RegularTaskLoop, AfterRun, Goto
      <3> QED BY <3>1, <3>2
    <2> QED BY <1>0, <2>1, <2>2, <2>3, <2>4 DEF OwnerMove, QuietMove
  <1>3. CASE Finish(t)
    <2>1. /\ pc[t] \in {"fin_remove", "fin_take", "fin_record", "fin_clear"}
          /\ pc'[t] \in {"fin_take", "fin_record", "fin_clear", "maybe_idle", "done"}
          /\ UNCHANGED <<tgt, why, input>>
          /\ \A x \in Threads \ {t} : pc'[x] = pc[x] /\ hand'[x] = hand[x]
      BY <1>0, <1>3 DEF Finish, FinishRemove, FinishTakePending, FinishRecord, FinishClear,
         Goto, locals, params
    <2>2. tgt[t] = NoTurn
      BY <1>1, <2>1 DEF StartTaskPcs, AbortPcs
    <2> QED BY <1>0, <2>1, <2>2 DEF OwnerMove
  <1>4. CASE Die(t)
    <2>1. pc[t] # "unborn"
      BY <1>4 DEF Die, ControlInv, DoomedWereBorn, Doomed
    <2>2. /\ pc[t] # "dead" /\ pc'[t] = "dead" /\ tgt'[t] = NoTurn /\ UNCHANGED <<why, input>>
          /\ \A x \in Threads \ {t} : pc'[x] = pc[x] /\ hand'[x] = hand[x] /\ tgt'[x] = tgt[x]
      BY <1>0, <1>4 DEF Die, Goto, params
    <2> QED BY <1>0, <2>1, <2>2 DEF OwnerMove
  <1> QED BY <1>2, <1>3, <1>4

\* The invariant of the owners is inductive.
LEMMA OwnersNext ==
    ASSUME ControlInv, DataTypeOK, OwnersInv, [Next]_vars
    PROVE  OwnersInv' /\ DeadKept
  <1>0. /\ Loop \in Threads /\ Background \in Threads /\ Guardian \in Threads
        /\ \A t \in Turns : t \in Threads
    BY DEF Threads
  <1>1. CASE UNCHANGED vars
    BY <1>1 DEF vars, params, locals, OwnersInv, TargetsInUse, HandsEmpty, InputsOwned, DeadKept
  <1>2. CASE Next
    BY <1>0, <1>2, SubmissionOwners, ExternalOwners, ProcedureOwners, TaskOwners, OwnerMoveInv
       DEF Next
  <1> QED BY <1>1, <1>2

-----------------------------------------------------------------------------
(* How the inputs move.                                                    *)

\* In a step item i appears in no sequence and no log but y of kind l.
GainsOnly(i, l, y) ==
    /\ InSeq(i, idle') => InSeq(i, idle) \/ (l = "idle" /\ y = NoObj)
    /\ InSeq(i, mailbox') => InSeq(i, mailbox) \/ (l = "mailbox" /\ y = NoObj)
    /\ \A o \in Objs : InSeq(i, pend'[o]) => InSeq(i, pend[o]) \/ (l = "pend" /\ y = o)
    /\ \A th \in Threads : InSeq(i, hand'[th]) => InSeq(i, hand[th]) \/ (l = "hand" /\ y = th)
    /\ \A t \in Turns : InSeq(i, input'[t]) => InSeq(i, input[t]) \/ (l = "input" /\ y = t)
    /\ i \in recorded' => i \in recorded \/ (l = "recorded" /\ y = NoObj)
    /\ i \in refused' => i \in refused \/ (l = "refused" /\ y = NoObj)

\* Then it appears at no other place.
LEMMA PlaceGain ==
    ASSUME LiveKept, DeadKept, UNCHANGED unsent, NEW i, NEW l, NEW y, GainsOnly(i, l, y)
    PROVE  \A m, z : Holds(m, z, i)' => Holds(m, z, i) \/ (m = l /\ z = y)
  <1> SUFFICES ASSUME NEW m, NEW z, Holds(m, z, i)', ~(m = l /\ z = y)
               PROVE  Holds(m, z, i)
    OBVIOUS
  <1>0. \A t \in Turns : pc'[t] # "dead" => pc[t] # "dead"
    BY DEF DeadKept
  <1>1. CASE m = "idle"
    BY <1>1 DEF Holds, GainsOnly
  <1>2. CASE m = "mailbox"
    BY <1>2 DEF Holds, GainsOnly
  <1>3. CASE m = "pend"
    <2>1. z \in Objs /\ Live(z)' /\ InSeq(i, pend'[z])
      BY <1>3 DEF Holds
    <2>2. Live(z)
      BY <2>1, EmptyQueue DEF LiveKept
    <2>3. InSeq(i, pend[z])
      BY <1>3, <2>1 DEF GainsOnly
    <2> QED BY <1>3, <2>1, <2>2, <2>3 DEF Holds
  <1>4. CASE m = "hand"
    BY <1>4 DEF Holds, GainsOnly
  <1>5. CASE m = "input"
    BY <1>0, <1>5 DEF Holds, GainsOnly
  <1>6. CASE m = "unsent"
    BY <1>6 DEF Holds
  <1>7. CASE m = "recorded"
    BY <1>7 DEF Holds, GainsOnly
  <1>8. CASE m = "refused"
    BY <1>8 DEF Holds, GainsOnly
  <1> QED BY <1>1, <1>2, <1>3, <1>4, <1>5, <1>6, <1>7, <1>8 DEF Holds

\* A step that moves the waiting items of one place to another settles.
LEMMA MovesPlace ==
    ASSUME LiveKept, DeadKept, UNCHANGED unsent, recorded \subseteq recorded',
           refused \subseteq refused',
           NEW k \in QueueKinds, NEW x, \A i : ~Holds(k, x, i)',
           \A i : \E l \in QueueKinds \cup LogKinds : \E y :
               GainsOnly(i, l, y) /\ (Holds(l, y, i)' => Holds(l, y, i) \/ Holds(k, x, i))
    PROVE  SettlesInputs
  <1> SUFFICES ASSUME NEW i
               PROVE  \E kk \in QueueKinds, l \in QueueKinds \cup LogKinds :
                          \E xx, y : Moved(i, kk, xx, l, y)
    BY DEF SettlesInputs
  <1>1. PICK l \in QueueKinds \cup LogKinds : \E y :
            GainsOnly(i, l, y) /\ (Holds(l, y, i)' => Holds(l, y, i) \/ Holds(k, x, i))
    OBVIOUS
  <1>2. PICK y : GainsOnly(i, l, y) /\ (Holds(l, y, i)' => Holds(l, y, i) \/ Holds(k, x, i))
    BY <1>1
  <1>3. Moved(i, k, x, l, y)
    BY <1>2, PlaceGain DEF Moved
  <1> QED BY <1>3

\* A step that only drops inputs.
OnlyLoses ==
    /\ UNCHANGED log
    /\ idle' \in {idle, <<>>} /\ mailbox' \in {mailbox, <<>>}
    /\ \A o \in Objs : pend'[o] \in {pend[o], <<>>}
    /\ \A th \in Threads : hand'[th] \in {hand[th], <<>>}
    /\ \A t \in Turns : input'[t] \in {input[t], <<>>}

LEMMA LosesInputs ==
    ASSUME LiveKept, DeadKept, NoRepeats, OnlyLoses
    PROVE  SettlesInputs /\ NoRepeats'
  <1>1. NoRepeats'
    BY EmptyQueue DEF OnlyLoses, NoRepeats
  <1>2. \A i : GainsOnly(i, "recorded", NoObj) /\ (i \in recorded' => i \in recorded)
    BY EmptyQueue DEF OnlyLoses, GainsOnly, log
  <1>3. ASSUME NEW i
        PROVE  Moved(i, "idle", NoObj, "recorded", NoObj)
    <2>1. Holds("recorded", NoObj, i)' => Holds("recorded", NoObj, i)
      BY <1>2 DEF Holds
    <2>2. \A m, z : Holds(m, z, i)' => Holds(m, z, i) \/ (m = "recorded" /\ z = NoObj)
      BY <1>2, PlaceGain DEF OnlyLoses, log
    <2> QED BY <2>1, <2>2 DEF Moved
  <1>4. "idle" \in QueueKinds /\ "recorded" \in QueueKinds \cup LogKinds
    BY DEF QueueKinds, LogKinds
  <1>5. UNCHANGED <<unsent, recorded, refused>>
    BY DEF OnlyLoses, log
  <1> QED BY <1>1, <1>3, <1>4, <1>5 DEF SettlesInputs

\* get_pending_input takes the pending input of the installed turn ...
LEMMA TakePendingSettles ==
    ASSUME ControlTypeOK, DataTypeOK, LiveKept, DeadKept, OnePlace, NoRepeats,
           NEW th \in Threads, NEW mailLabel, NEW doneLabel, TakePending(th, mailLabel, doneLabel)
    PROVE  SettlesInputs /\ NoRepeats'
  <1> USE DEF slot, queues, params, log, TakePending
  <1>0. /\ hand \in [Threads -> Seq(Items)] /\ pend \in [Objs -> Seq(Items)]
        /\ active \in Objs \cup {NoObj} /\ NoObj \notin Objs
        /\ UNCHANGED <<idle, mailbox, input, unsent, recorded, refused>>
    BY SentinelsAssumption DEF DataTypeOK, ControlTypeOK
  <1>1. CASE active = NoObj
    <2>1. UNCHANGED <<hand, pend>>
      BY <1>1
    <2> QED BY <1>0, <2>1, LosesInputs DEF OnlyLoses
  <1>2. CASE active # NoObj
    <2>1. PICK o \in Objs : o = active
      BY <1>0, <1>2
    <2>2. /\ hand' = [hand EXCEPT ![th] = @ \o pend[o]]
          /\ pend' = [pend EXCEPT ![o] = <<>>]
      BY <1>2, <2>1
    <2>3. \A i : /\ InSeq(i, hand[th]) => Holds("hand", th, i)
                 /\ InSeq(i, pend[o]) => Holds("pend", o, i)
      BY <2>1 DEF Holds, Live
    <2>4. /\ Injective(hand[th] \o pend[o])
          /\ \A i : InSeq(i, hand[th] \o pend[o]) <=> InSeq(i, hand[th]) \/ InSeq(i, pend[o])
      <3>1. \A i : InSeq(i, hand[th]) => ~InSeq(i, pend[o])
        BY <2>3 DEF OnePlace
      <3>2. hand[th] \in Seq(Items) /\ pend[o] \in Seq(Items) /\ Injective(hand[th]) /\ Injective(pend[o])
        BY <1>0 DEF NoRepeats
      <3> QED BY <3>1, <3>2, ConcatItems
    <2>5. NoRepeats'
      BY <1>0, <2>2, <2>4, EmptyQueue DEF NoRepeats
    <2>6. \A i : GainsOnly(i, "hand", th)
      BY <1>0, <2>2, <2>4, EmptyQueue DEF GainsOnly
    <2>7. \A i : Holds("hand", th, i)' => Holds("hand", th, i) \/ Holds("pend", o, i)
      BY <1>0, <2>2, <2>3, <2>4 DEF Holds
    <2>8. \A i : ~Holds("pend", o, i)'
      BY <1>0, <2>2, EmptyQueue DEF Holds
    <2>9. "pend" \in QueueKinds /\ "hand" \in QueueKinds \cup LogKinds
      BY DEF QueueKinds
    <2> QED BY <1>0, <2>5, <2>6, <2>7, <2>8, <2>9, MovesPlace
  <1> QED BY <1>1, <1>2

\* ... and drains the mailbox.
LEMMA DrainMailboxSettles ==
    ASSUME DataTypeOK, LiveKept, DeadKept, OnePlace, NoRepeats,
           NEW th \in Threads, NEW doneLabel, DrainMailbox(th, doneLabel)
    PROVE  SettlesInputs /\ NoRepeats'
  <1>0. /\ hand \in [Threads -> Seq(Items)] /\ mailbox \in Seq(Items)
        /\ hand' = [hand EXCEPT ![th] = @ \o mailbox] /\ mailbox' = <<>>
        /\ UNCHANGED <<idle, pend, input, unsent, recorded, refused>>
    BY DEF DataTypeOK, DrainMailbox, turnState, params, log
  <1>1. \A i : /\ InSeq(i, hand[th]) => Holds("hand", th, i)
               /\ InSeq(i, mailbox) => Holds("mailbox", NoObj, i)
    BY DEF Holds
  <1>2. /\ Injective(hand[th] \o mailbox)
        /\ \A i : InSeq(i, hand[th] \o mailbox) <=> InSeq(i, hand[th]) \/ InSeq(i, mailbox)
    <2>1. \A i : InSeq(i, hand[th]) => ~InSeq(i, mailbox)
      BY <1>1 DEF OnePlace
    <2>2. hand[th] \in Seq(Items) /\ mailbox \in Seq(Items) /\ Injective(hand[th]) /\ Injective(mailbox)
      BY <1>0 DEF NoRepeats
    <2> QED BY <2>1, <2>2, ConcatItems
  <1>3. NoRepeats'
    BY <1>0, <1>2, EmptyQueue DEF NoRepeats
  <1>4. \A i : GainsOnly(i, "hand", th)
    BY <1>0, <1>2, EmptyQueue DEF GainsOnly
  <1>5. \A i : Holds("hand", th, i)' => Holds("hand", th, i) \/ Holds("mailbox", NoObj, i)
    BY <1>0, <1>1, <1>2 DEF Holds
  <1>6. \A i : ~Holds("mailbox", NoObj, i)'
    BY <1>0, EmptyQueue DEF Holds
  <1>7. "mailbox" \in QueueKinds /\ "hand" \in QueueKinds \cup LogKinds
    BY DEF QueueKinds
  <1> QED BY <1>0, <1>3, <1>4, <1>5, <1>6, <1>7, MovesPlace

\* A thread that takes the pending input of the ActiveTurn it refers to
\* (clear_pending_after_abort, on_task_finished).
LEMMA TakesOwnPending ==
    ASSUME DataTypeOK, LiveKept, DeadKept, NoRepeats, NEW th \in Threads, NEW o \in Objs,
           obj[th] = o, UNCHANGED <<idle, mailbox, input, unsent, recorded, refused>>,
           hand' = [hand EXCEPT ![th] = pend[o]], pend' = [pend EXCEPT ![o] = <<>>]
    PROVE  SettlesInputs /\ NoRepeats'
  <1>0. hand \in [Threads -> Seq(Items)] /\ pend \in [Objs -> Seq(Items)]
    BY DEF DataTypeOK
  <1>1. \A i : InSeq(i, pend[o]) => Holds("pend", o, i)
    BY DEF Holds, Live
  <1>2. NoRepeats'
    BY <1>0, EmptyQueue DEF NoRepeats
  <1>3. \A i : GainsOnly(i, "hand", th)
    BY <1>0, EmptyQueue DEF GainsOnly
  <1>4. \A i : Holds("hand", th, i)' => Holds("pend", o, i)
    BY <1>0, <1>1 DEF Holds
  <1>5. \A i : ~Holds("pend", o, i)'
    BY <1>0, EmptyQueue DEF Holds
  <1>6. "pend" \in QueueKinds /\ "hand" \in QueueKinds \cup LogKinds
    BY DEF QueueKinds
  <1> QED BY <1>2, <1>3, <1>4, <1>5, <1>6, MovesPlace

\* The shared procedures.
LEMMA ProcedureSettles ==
    ASSUME ControlTypeOK, ObjHeld, DataTypeOK, LiveKept, DeadKept, OnePlace, NoRepeats,
           NEW th \in Threads, Procedure(th)
    PROVE  SettlesInputs /\ NoRepeats'
  <1> USE DEF slot, turnState, queues, params, log, locals
  <1>0. /\ hand \in [Threads -> Seq(Items)] /\ pend \in [Objs -> Seq(Items)]
        /\ idle \in Seq(Items) /\ mailbox \in Seq(Items) /\ input \in [Turns -> Seq(Items)]
        /\ pc[th] \in ObjPcs => obj[th] \in Objs
    BY DEF DataTypeOK, ObjHeld
  <1>1. CASE \/ AbortTake(th) \/ AbortCancel(th) \/ AbortKill(th) \/ AbortClear(th)
             \/ MaybeStartIdle(th) \/ MaybeStartMail(th)
    <2>1. OnlyLoses
      BY <1>0, <1>1 DEF AbortTake, AbortCancel, AbortKill, AbortClear, MaybeStartIdle,
         MaybeStartMail, Return, OnlyLoses
    <2> QED BY <2>1, LosesInputs
  <1>2. CASE MaybeStartReserve(th) \/ StartGetTurn(th) \/ StartSpawn(th)
    <2>1. OnlyLoses
      BY <1>0, <1>2 DEF MaybeStartReserve, StartGetTurn, StartSpawn, InstallFresh, Return,
         OnlyLoses
    <2> QED BY <2>1, LosesInputs
  <1>3. CASE AbortPending(th)
    <2>1. PICK o \in Objs : o = obj[th]
      BY <1>0, <1>3 DEF AbortPending, ObjPcs
    <2>2. /\ UNCHANGED <<idle, mailbox, input, unsent, recorded, refused>>
          /\ hand' = [hand EXCEPT ![th] = pend[o]] /\ pend' = [pend EXCEPT ![o] = <<>>]
      BY <1>3, <2>1 DEF AbortPending
    <2> QED BY <2>1, <2>2, TakesOwnPending
  <1>4. CASE QueueItems(th)
    <2>1. /\ idle' = idle \o hand[th] /\ hand' = [hand EXCEPT ![th] = <<>>]
          /\ UNCHANGED <<mailbox, pend, input, unsent, recorded, refused>>
      BY <1>4 DEF QueueItems, Return
    <2>2. \A i : /\ InSeq(i, idle) => Holds("idle", NoObj, i)
                 /\ InSeq(i, hand[th]) => Holds("hand", th, i)
      BY DEF Holds
    <2>3. /\ Injective(idle \o hand[th])
          /\ \A i : InSeq(i, idle \o hand[th]) <=> InSeq(i, idle) \/ InSeq(i, hand[th])
      <3>1. \A i : InSeq(i, idle) => ~InSeq(i, hand[th])
        BY <2>2 DEF OnePlace
      <3>2. idle \in Seq(Items) /\ hand[th] \in Seq(Items) /\ Injective(idle) /\ Injective(hand[th])
        BY <1>0 DEF NoRepeats
      <3> QED BY <3>1, <3>2, ConcatItems
    <2>4. NoRepeats'
      BY <1>0, <2>1, <2>3, EmptyQueue DEF NoRepeats
    <2>5. \A i : GainsOnly(i, "idle", NoObj)
      BY <1>0, <2>1, <2>3, EmptyQueue DEF GainsOnly
    <2>6. \A i : Holds("idle", NoObj, i)' => Holds("idle", NoObj, i) \/ Holds("hand", th, i)
      BY <2>1, <2>2, <2>3 DEF Holds
    <2>7. \A i : ~Holds("hand", th, i)'
      BY <1>0, <2>1, EmptyQueue DEF Holds
    <2>8. "hand" \in QueueKinds /\ "idle" \in QueueKinds \cup LogKinds
      BY DEF QueueKinds
    <2> QED BY <2>1, <2>4, <2>5, <2>6, <2>7, <2>8, MovesPlace
  <1>5. CASE StartTakeIdle(th)
    <2>1. /\ idle' = <<>> /\ hand' = [hand EXCEPT ![th] = idle]
          /\ UNCHANGED <<mailbox, pend, input, unsent, recorded, refused>>
      BY <1>5 DEF StartTakeIdle
    <2>2. NoRepeats'
      BY <1>0, <2>1, EmptyQueue DEF NoRepeats
    <2>3. \A i : GainsOnly(i, "hand", th)
      BY <1>0, <2>1, EmptyQueue DEF GainsOnly
    <2>4. \A i : Holds("hand", th, i)' => Holds("idle", NoObj, i)
      BY <1>0, <2>1 DEF Holds
    <2>5. \A i : ~Holds("idle", NoObj, i)'
      BY <2>1, EmptyQueue DEF Holds
    <2>6. "idle" \in QueueKinds /\ "hand" \in QueueKinds \cup LogKinds
      BY DEF QueueKinds
    <2> QED BY <2>1, <2>2, <2>3, <2>4, <2>5, <2>6, MovesPlace
  <1>6. CASE StartTakePending(th)
    BY <1>6, TakePendingSettles DEF StartTakePending
  <1>7. CASE StartDrainMailbox(th)
    BY <1>7, DrainMailboxSettles DEF StartDrainMailbox
  <1>8. CASE StartPush(th)
    <2>0. PICK o \in Objs : o = obj[th]
      BY <1>0, <1>8 DEF StartPush, ObjPcs
    <2>1. /\ pend' = [pend EXCEPT ![o] = @ \o hand[th]] /\ hand' = [hand EXCEPT ![th] = <<>>]
          /\ UNCHANGED <<idle, mailbox, input, unsent, recorded, refused>>
      BY <1>8, <2>0 DEF StartPush
    <2>2. \A i : /\ InSeq(i, pend[o]) => Holds("pend", o, i)
                 /\ InSeq(i, hand[th]) => Holds("hand", th, i)
      BY <2>0 DEF Holds, Live
    <2>3. /\ Injective(pend[o] \o hand[th])
          /\ \A i : InSeq(i, pend[o] \o hand[th]) <=> InSeq(i, pend[o]) \/ InSeq(i, hand[th])
      <3>1. \A i : InSeq(i, pend[o]) => ~InSeq(i, hand[th])
        BY <2>2 DEF OnePlace
      <3>2. pend[o] \in Seq(Items) /\ hand[th] \in Seq(Items) /\ Injective(pend[o]) /\ Injective(hand[th])
        BY <1>0 DEF NoRepeats
      <3> QED BY <3>1, <3>2, ConcatItems
    <2>4. NoRepeats'
      BY <1>0, <2>1, <2>3, EmptyQueue DEF NoRepeats
    <2>5. \A i : GainsOnly(i, "pend", o)
      BY <1>0, <2>1, <2>3, EmptyQueue DEF GainsOnly
    <2>6. \A i : Holds("pend", o, i)' => Holds("pend", o, i) \/ Holds("hand", th, i)
      BY <1>0, <2>1, <2>2, <2>3 DEF Holds
    <2>7. \A i : ~Holds("hand", th, i)'
      BY <1>0, <2>1, EmptyQueue DEF Holds
    <2>8. "hand" \in QueueKinds /\ "pend" \in QueueKinds \cup LogKinds
      BY DEF QueueKinds
    <2> QED BY <2>1, <2>4, <2>5, <2>6, <2>7, <2>8, MovesPlace
  <1> QED BY <1>1, <1>2, <1>3, <1>4, <1>5, <1>6, <1>7, <1>8 DEF Procedure

\* A step that takes the items of one queue and records or refuses each of them,
\* or none; the others it had go.
LEMMA LogsPlace ==
    ASSUME LiveKept, DeadKept, UNCHANGED unsent, recorded \subseteq recorded',
           refused \subseteq refused', NEW k \in QueueKinds, NEW x, \A i : ~Holds(k, x, i)',
           \A i : \/ GainsOnly(i, "recorded", NoObj) /\ (i \in recorded' \ recorded => Holds(k, x, i))
                  \/ GainsOnly(i, "refused", NoObj) /\ (i \in refused' \ refused => Holds(k, x, i))
    PROVE  SettlesInputs
  <1>1. {"recorded", "refused"} \subseteq QueueKinds \cup LogKinds
    BY DEF LogKinds
  <1>2. ASSUME NEW i
        PROVE  \E l \in QueueKinds \cup LogKinds : \E y :
                   GainsOnly(i, l, y) /\ (Holds(l, y, i)' => Holds(l, y, i) \/ Holds(k, x, i))
    <2>1. (Holds("recorded", NoObj, i)' <=> i \in recorded')
          /\ (Holds("recorded", NoObj, i) <=> i \in recorded)
          /\ (Holds("refused", NoObj, i)' <=> i \in refused')
          /\ (Holds("refused", NoObj, i) <=> i \in refused)
      BY DEF Holds
    <2> QED BY <1>1, <2>1
  <1> QED BY <1>2, MovesPlace

\* inspect_pending_input.
LEMMA InspectSettles ==
    ASSUME ControlTypeOK, DataTypeOK, LiveKept, DeadKept, OnePlace, NoRepeats,
           NEW t \in Turns, InspectPending(t)
    PROVE  SettlesInputs /\ NoRepeats'
  <1> DEFINE s           == hand[t]
             accepted(n) == SubSeq(s, 1, n)
             blocked(n)  == SubSeq(s, n + 1, n + 1)[1]
             rest(n)     == SubSeq(s, n + 2, Len(s))
  <1>0. /\ t \in Threads /\ hand \in [Threads -> Seq(Items)] /\ pend \in [Objs -> Seq(Items)]
        /\ active \in Objs \cup {NoObj} /\ NoObj \notin Objs
    BY SentinelsAssumption DEF Threads, DataTypeOK, ControlTypeOK
  <1>1. PICK o \in Objs \cup {NoObj} : o = active
    BY <1>0
  <1>2. PICK n \in 0 .. Len(s) :
            /\ recorded' = recorded \cup {accepted(n)[k] : k \in DOMAIN accepted(n)}
            /\ refused' = IF n < Len(s) THEN refused \cup {blocked(n)} ELSE refused
            /\ pend' = IF o = NoObj THEN pend ELSE [pend EXCEPT ![o] = rest(n) \o @]
    BY <1>1 DEF InspectPending
  <1>3. /\ hand' = [hand EXCEPT ![t] = <<>>]
        /\ UNCHANGED <<idle, mailbox, input, unsent>>
    BY DEF InspectPending, queues, params
  <1>4. s \in Seq(Items) /\ Injective(s) /\ \A i : InSeq(i, s) => Holds("hand", t, i)
    BY <1>0 DEF NoRepeats, Holds
  <1>5. /\ accepted(n) \in Seq(Items) /\ rest(n) \in Seq(Items)
        /\ \A i : InSeq(i, accepted(n)) => InSeq(i, s) /\ ~InSeq(i, rest(n))
        /\ \A i : InSeq(i, rest(n)) => InSeq(i, s)
        /\ n < Len(s) => /\ InSeq(blocked(n), s)
                         /\ ~InSeq(blocked(n), accepted(n)) /\ ~InSeq(blocked(n), rest(n))
        /\ Injective(rest(n))
    BY <1>2, <1>4, CutItems
  <1> HIDE DEF s, accepted, blocked, rest
  <1>6. \A i : i \in recorded' <=> i \in recorded \/ InSeq(i, accepted(n))
    BY <1>2 DEF InSeq
  <1>7. ASSUME o # NoObj
        PROVE  /\ Injective(rest(n) \o pend[o])
               /\ \A i : InSeq(i, rest(n) \o pend[o]) <=> InSeq(i, rest(n)) \/ InSeq(i, pend[o])
    <2>1. \A i : InSeq(i, pend[o]) => Holds("pend", o, i)
      BY <1>0, <1>1, <1>7 DEF Holds, Live
    <2>2. \A i : InSeq(i, rest(n)) => ~InSeq(i, pend[o])
      BY <1>4, <1>5, <2>1 DEF OnePlace
    <2>3. pend[o] \in Seq(Items) /\ Injective(pend[o])
      BY <1>0, <1>7 DEF NoRepeats
    <2> QED BY <1>5, <2>2, <2>3, ConcatItems
  <1>8. NoRepeats'
    BY <1>0, <1>2, <1>3, <1>7, EmptyQueue DEF NoRepeats
  <1>9. /\ UNCHANGED unsent /\ recorded \subseteq recorded' /\ refused \subseteq refused'
        /\ \A i : ~Holds("hand", t, i)'
    BY <1>0, <1>2, <1>3, EmptyQueue DEF Holds
  <1>10. \A i, u : InSeq(i, pend'[u]) /\ u \in Objs =>
             InSeq(i, pend[u]) \/ (u = o /\ InSeq(i, rest(n)))
    BY <1>0, <1>2, <1>7
  <1>11. /\ \A i : InSeq(i, idle') => InSeq(i, idle)
         /\ \A i : InSeq(i, mailbox') => InSeq(i, mailbox)
         /\ \A i : \A th \in Threads : InSeq(i, hand'[th]) => InSeq(i, hand[th])
         /\ \A i : \A u \in Turns : InSeq(i, input'[u]) => InSeq(i, input[u])
    BY <1>0, <1>3, EmptyQueue
  <1>12. ASSUME NEW i
         PROVE  \E l \in QueueKinds \cup LogKinds : \E y :
                    /\ GainsOnly(i, l, y)
                    /\ Holds(l, y, i)' => Holds(l, y, i) \/ Holds("hand", t, i)
    <2>1. {"recorded", "refused", "pend"} \subseteq QueueKinds \cup LogKinds
      BY DEF LogKinds, QueueKinds
    <2>2. CASE InSeq(i, accepted(n))
      <3>1. i \in refused' => i \in refused
        BY <1>2, <1>5, <2>2
      <3>2. GainsOnly(i, "recorded", NoObj)
        BY <1>5, <1>10, <1>11, <2>2, <3>1 DEF GainsOnly
      <3> QED BY <1>4, <1>5, <2>1, <2>2, <3>2
    <2>3. CASE n < Len(s) /\ i = blocked(n)
      <3>1. GainsOnly(i, "refused", NoObj)
        BY <1>5, <1>6, <1>10, <1>11, <2>3 DEF GainsOnly
      <3> QED BY <1>4, <1>5, <2>1, <2>3, <3>1
    <2>4. CASE ~InSeq(i, accepted(n)) /\ ~(n < Len(s) /\ i = blocked(n))
      <3>1. i \in refused' => i \in refused
        BY <1>2, <2>4
      <3>2. GainsOnly(i, "pend", o)
        BY <1>6, <1>10, <1>11, <2>4, <3>1 DEF GainsOnly
      <3>3. Holds("pend", o, i)' => Holds("pend", o, i) \/ Holds("hand", t, i)
        <4> SUFFICES ASSUME Holds("pend", o, i)' PROVE Holds("pend", o, i) \/ Holds("hand", t, i)
          OBVIOUS
        <4>1. o \in Objs /\ InSeq(i, pend'[o])
          BY DEF Holds
        <4>2. Live(o)
          BY <1>1 DEF Live
        <4>3. CASE InSeq(i, pend[o])
          BY <4>1, <4>2, <4>3 DEF Holds
        <4>4. CASE InSeq(i, rest(n))
          BY <1>4, <1>5, <4>4
        <4> QED BY <1>10, <4>1, <4>3, <4>4
      <3> QED BY <2>1, <3>2, <3>3
    <2> QED BY <2>2, <2>3, <2>4
  <1>13. "hand" \in QueueKinds
    BY DEF QueueKinds
  <1> QED BY <1>8, <1>9, <1>12, <1>13, MovesPlace

\* The body of a task.
LEMMA BodySettles ==
    ASSUME ControlTypeOK, DataTypeOK, LiveKept, DeadKept, OnePlace, NoRepeats,
           NEW t \in Turns, Body(t)
    PROVE  SettlesInputs /\ NoRepeats'
  <1>0. /\ t \in Threads /\ input \in [Turns -> Seq(Items)]
    BY DEF Threads, DataTypeOK
  <1>1. CASE BeginWithInput(t)
    <2> DEFINE i == Head(input[t])
    <2>1. /\ pc[t] = "begin" /\ input[t] \in Seq(Items) /\ input[t] # <<>>
          /\ \/ recorded' = recorded \cup {i} /\ UNCHANGED refused
             \/ refused' = refused \cup {i} /\ UNCHANGED recorded
          /\ input' = [input EXCEPT ![t] = <<>>]
          /\ UNCHANGED <<idle, mailbox, pend, hand, unsent>>
      BY <1>0, <1>1 DEF BeginWithInput, turnState, queues, locals
    <2>2. InSeq(i, input[t])
      BY <2>1 DEF InSeq
    <2> HIDE DEF i
    <2>3. Holds("input", t, i)
      BY <2>1, <2>2 DEF Holds
    <2>4. NoRepeats'
      BY <1>0, <2>1, EmptyQueue DEF NoRepeats
    <2>5. \A j : ~Holds("input", t, j)'
      BY <1>0, <2>1, EmptyQueue DEF Holds
    <2>6. CASE recorded' = recorded \cup {i} /\ UNCHANGED refused
      <3>1. \A j : GainsOnly(j, "recorded", NoObj)
        BY <1>0, <2>1, <2>6, EmptyQueue DEF GainsOnly
      <3> QED BY <2>1, <2>3, <2>4, <2>5, <2>6, <3>1, LogsPlace DEF QueueKinds
    <2>7. CASE refused' = refused \cup {i} /\ UNCHANGED recorded
      <3>1. \A j : GainsOnly(j, "refused", NoObj)
        BY <1>0, <2>1, <2>7, EmptyQueue DEF GainsOnly
      <3> QED BY <2>1, <2>3, <2>4, <2>5, <2>7, <3>1, LogsPlace DEF QueueKinds
    <2> QED BY <2>1, <2>6, <2>7
  <1>2. CASE DrainTurn(t)
    BY <1>0, <1>2, TakePendingSettles DEF DrainTurn
  <1>3. CASE DrainMail(t)
    BY <1>0, <1>3, DrainMailboxSettles DEF DrainMail
  <1>4. CASE InspectPending(t)
    BY <1>4, InspectSettles
  <1>5. CASE \/ RunStandalone(t) \/ PrewarmCancelled(t) \/ BeginWithoutInput(t)
             \/ EnterRunTurn(t) \/ ReturnFromRunTurn(t) \/ SessionStartHookStops(t)
             \/ ToolCall(t) \/ FollowUp(t) \/ RequestApproval(t) \/ ReceiveApproval(t)
             \/ ApprovalCancelled(t) \/ AssistantMessage(t) \/ ResponseCompleted(t)
             \/ SamplingFails(t) \/ AfterAnswer(t) \/ StopHookContinues(t)
             \/ RegularTaskLoop(t) \/ AfterRun(t)
    <2>1. UNCHANGED <<unsent, recorded, refused, idle, mailbox, pend, hand, input>>
      BY <1>5 DEF RunStandalone, PrewarmCancelled, BeginWithoutInput, EnterRunTurn,
         ReturnFromRunTurn, SessionStartHookStops, ToolCall, FollowUp, RequestApproval,
         ReceiveApproval, ApprovalCancelled, AssistantMessage, ResponseCompleted,
         SamplingFails, AfterAnswer, StopHookContinues, RegularTaskLoop, AfterRun,
         BodyUnchanged, turnState, queues, params, log, locals
    <2> QED BY <2>1, LosesInputs DEF OnlyLoses, log
  <1> QED BY <1>1, <1>2, <1>3, <1>4, <1>5 DEF Body

\* Its end: the left-over input is recorded or blocked, item by item.
LEMMA FinishSettles ==
    ASSUME ControlTypeOK, ObjHeld, DataTypeOK, LiveKept, DeadKept, OnePlace, NoRepeats,
           NEW t \in Turns, Finish(t) \/ Die(t)
    PROVE  SettlesInputs /\ NoRepeats'
  <1>0. /\ t \in Threads /\ hand \in [Threads -> Seq(Items)]
        /\ pc[t] \in ObjPcs => obj[t] \in Objs
    BY DEF Threads, DataTypeOK, ObjHeld
  <1>1. CASE FinishRemove(t) \/ FinishClear(t) \/ Die(t)
    <2>1. OnlyLoses
      BY <1>0, <1>1 DEF FinishRemove, FinishClear, Die, OnlyLoses, turnState, queues, params,
         log
    <2> QED BY <2>1, LosesInputs
  <1>2. CASE FinishTakePending(t)
    <2>1. PICK o \in Objs : o = obj[t]
      BY <1>0, <1>2 DEF FinishTakePending, ObjPcs
    <2>2. /\ UNCHANGED <<idle, mailbox, input, unsent, recorded, refused>>
          /\ hand' = [hand EXCEPT ![t] = pend[o]] /\ pend' = [pend EXCEPT ![o] = <<>>]
      BY <1>2, <2>1 DEF FinishTakePending, queues, params, log
    <2> QED BY <1>0, <2>1, <2>2, TakesOwnPending
  <1>3. CASE FinishRecord(t)
    <2> DEFINE left == {hand[t][k] : k \in DOMAIN hand[t]}
    <2>1. PICK accepted \in SUBSET left :
              recorded' = recorded \cup accepted /\ refused' = refused \cup (left \ accepted)
      BY <1>3 DEF FinishRecord
    <2>2. /\ hand' = [hand EXCEPT ![t] = <<>>]
          /\ UNCHANGED <<idle, mailbox, pend, input, unsent>>
      BY <1>3 DEF FinishRecord, turnState, queues, params
    <2>3. \A i \in left : Holds("hand", t, i)
      BY <1>0 DEF Holds, InSeq
    <2> HIDE DEF left
    <2>4. NoRepeats'
      BY <1>0, <2>2, EmptyQueue DEF NoRepeats
    <2>5. \A i : ~Holds("hand", t, i)'
      BY <1>0, <2>2, EmptyQueue DEF Holds
    <2>6. ASSUME NEW i, i \in accepted
          PROVE  GainsOnly(i, "recorded", NoObj) /\ (i \in recorded' \ recorded => Holds("hand", t, i))
      BY <1>0, <2>1, <2>2, <2>3, <2>6, EmptyQueue DEF GainsOnly
    <2>7. ASSUME NEW i, i \notin accepted
          PROVE  GainsOnly(i, "refused", NoObj) /\ (i \in refused' \ refused => Holds("hand", t, i))
      BY <1>0, <2>1, <2>2, <2>3, <2>7, EmptyQueue DEF GainsOnly
    <2>8. /\ UNCHANGED unsent /\ recorded \subseteq recorded' /\ refused \subseteq refused'
          /\ "hand" \in QueueKinds
      BY <2>1, <2>2 DEF QueueKinds
    <2> QED BY <2>4, <2>5, <2>6, <2>7, <2>8, LogsPlace
  <1> QED BY <1>1, <1>2, <1>3 DEF Finish

-----------------------------------------------------------------------------
(* How an input comes in.                                                  *)

\* In a step item i stays where it is.
KeepsItem(i) ==
    /\ InSeq(i, idle') <=> InSeq(i, idle)
    /\ InSeq(i, mailbox') <=> InSeq(i, mailbox)
    /\ \A o \in Objs : InSeq(i, pend'[o]) <=> InSeq(i, pend[o])
    /\ \A th \in Threads : InSeq(i, hand'[th]) <=> InSeq(i, hand[th])
    /\ \A t \in Turns : InSeq(i, input'[t]) <=> InSeq(i, input[t])
    /\ i \in recorded' <=> i \in recorded
    /\ i \in refused' <=> i \in refused

\* A step that takes input i to the place y of kind l and leaves the others.
LEMMA ReceivesPlace ==
    ASSUME OnePlace, UNCHANGED <<active, obj>>, \A t \in Turns : pc'[t] = pc[t],
           NEW i \in unsent, unsent' = unsent \ {i},
           NEW l \in QueueKinds \cup LogKinds, NEW y, Holds(l, y, i)',
           GainsOnly(i, l, y), \A j : j # i => KeepsItem(j)
    PROVE  ReceivesInput
  <1>1. ASSUME NEW m, NEW z, Holds(m, z, i)'
        PROVE  m = l /\ z = y
    <2>1. Holds("unsent", NoObj, i)
      BY DEF Holds
    <2>2. \A n, w : Holds(n, w, i) => n = "unsent" /\ w = NoObj
      BY <2>1 DEF OnePlace
    <2>3. m # "unsent"
      BY <1>1 DEF Holds
    <2>4. ~Holds(m, z, i)
      BY <2>2, <2>3
    <2> QED BY <1>1, <2>3, <2>4 DEF Holds, GainsOnly, Live
  <1>2. ASSUME NEW j, j # i, NEW m, NEW z
        PROVE  Holds(m, z, j)' <=> Holds(m, z, j)
    <2>1. KeepsItem(j) /\ (j \in unsent' <=> j \in unsent)
      BY <1>2
    <2>2. \A o : Live(o)' <=> Live(o)
      BY DEF Live
    <2> QED BY <2>1, <2>2 DEF Holds, KeepsItem
  <1>3. \A m, z, j : Holds(m, z, j)' <=> IF j = i THEN m = l /\ z = y ELSE Holds(m, z, j)
    BY <1>1, <1>2
  <1> QED BY <1>3 DEF ReceivesInput

\* An input joins the pending input of the installed turn: steer_input and
\* inject_response_items.
LEMMA ReceivesPending ==
    ASSUME DataTypeOK, OnePlace, NoRepeats, NEW o \in Objs, o = active,
           UNCHANGED <<active, obj>>, \A t \in Turns : pc'[t] = pc[t],
           NEW i \in unsent, unsent' = unsent \ {i},
           pend' = [pend EXCEPT ![o] = Append(@, i)],
           UNCHANGED <<idle, mailbox, hand, input, recorded, refused>>
    PROVE  ReceivesInput /\ NoRepeats'
  <1>0. i \in Items /\ pend \in [Objs -> Seq(Items)]
    BY DEF DataTypeOK
  <1>1. ~InSeq(i, pend[o])
    <2>1. Holds("unsent", NoObj, i)
      BY DEF Holds
    <2>2. InSeq(i, pend[o]) => Holds("pend", o, i)
      BY DEF Holds, Live
    <2> QED BY <2>1, <2>2 DEF OnePlace
  <1>2. /\ Injective(Append(pend[o], i))
        /\ \A j : InSeq(j, Append(pend[o], i)) <=> InSeq(j, pend[o]) \/ j = i
    <2>1. pend[o] \in Seq(Items) /\ Injective(pend[o])
      BY <1>0 DEF NoRepeats
    <2> QED BY <1>0, <1>1, <2>1, AppendItem
  <1>3. NoRepeats'
    BY <1>0, <1>2 DEF NoRepeats
  <1>4. GainsOnly(i, "pend", o) /\ \A j : j # i => KeepsItem(j)
    BY <1>0, <1>2 DEF GainsOnly, KeepsItem
  <1>5. Holds("pend", o, i)'
    BY <1>0, <1>2 DEF Holds, Live
  <1> QED BY <1>3, <1>4, <1>5, ReceivesPlace DEF QueueKinds

\* An input in the empty hand of a thread.
LEMMA ReceivesInHand ==
    ASSUME DataTypeOK, OnePlace, NoRepeats, NEW th \in Threads, hand[th] = <<>>,
           UNCHANGED <<active, obj>>, \A t \in Turns : pc'[t] = pc[t],
           NEW i \in unsent, unsent' = unsent \ {i},
           hand' = [hand EXCEPT ![th] = <<i>>],
           UNCHANGED <<idle, mailbox, pend, input, recorded, refused>>
    PROVE  ReceivesInput /\ NoRepeats'
  <1>0. i \in Items /\ hand \in [Threads -> Seq(Items)]
    BY DEF DataTypeOK
  <1>1. Injective(<<i>>) /\ \A j : InSeq(j, <<i>>) <=> j = i
    BY <1>0, AppendItem, ItemSeqs
  <1>2. NoRepeats'
    BY <1>0, <1>1 DEF NoRepeats
  <1>3. GainsOnly(i, "hand", th) /\ \A j : j # i => KeepsItem(j)
    BY <1>0, <1>1, EmptyQueue DEF GainsOnly, KeepsItem
  <1>4. Holds("hand", th, i)'
    BY <1>0, <1>1 DEF Holds
  <1> QED BY <1>2, <1>3, <1>4, ReceivesPlace DEF QueueKinds

\* An input that goes to a log at once: a refused steer, an auxiliary output.
LEMMA ReceivesInLog ==
    ASSUME DataTypeOK, OnePlace, NoRepeats,
           UNCHANGED <<active, obj>>, \A t \in Turns : pc'[t] = pc[t],
           NEW i \in unsent, unsent' = unsent \ {i},
           \/ recorded' = recorded \cup {i} /\ UNCHANGED refused
           \/ refused' = refused \cup {i} /\ UNCHANGED recorded,
           UNCHANGED <<idle, mailbox, pend, hand, input>>
    PROVE  ReceivesInput /\ NoRepeats'
  <1>1. NoRepeats'
    BY DEF NoRepeats
  <1>2. \A j : j # i => KeepsItem(j)
    BY DEF KeepsItem
  <1>3. CASE recorded' = recorded \cup {i} /\ UNCHANGED refused
    <2>1. GainsOnly(i, "recorded", NoObj) /\ Holds("recorded", NoObj, i)'
      BY <1>3 DEF GainsOnly, Holds
    <2> QED BY <1>1, <1>2, <2>1, ReceivesPlace DEF LogKinds
  <1>4. CASE refused' = refused \cup {i} /\ UNCHANGED recorded
    <2>1. GainsOnly(i, "refused", NoObj) /\ Holds("refused", NoObj, i)'
      BY <1>4 DEF GainsOnly, Holds
    <2> QED BY <1>1, <1>2, <2>1, ReceivesPlace DEF LogKinds
  <1> QED BY <1>3, <1>4

\* The Ops take one input or none.
LEMMA SubmissionInputs ==
    ASSUME ControlInv, DataTypeOK, LiveKept, DeadKept, OwnersInv, OnePlace, NoRepeats, Submission
    PROVE  (SettlesInputs \/ ReceivesInput) /\ NoRepeats'
  <1> USE DEF slot, turnState, queues, params, locals
  <1>0. /\ Loop \in Threads \ Turns /\ \A t \in Turns : t \in Threads
        /\ pc \in [Threads -> Pcs] /\ input \in [Turns -> Seq(Items)]
        /\ mailbox \in Seq(Items) /\ unsent \subseteq Items
        /\ active \in Objs \cup {NoObj}
    BY ThreadsAssumption DEF Threads, ControlInv, ControlTypeOK, DataTypeOK
  <1>1. \A t \in Turns : pc'[t] = pc[t]
    BY <1>0, SubmissionIsQuiet DEF QuietMove
  <1>2. ASSUME NEW i \in UserItems, SteerInput(i)
        PROVE  ReceivesInput /\ NoRepeats'
    <2>1. PICK o \in Objs : o = active
      BY <1>0, <1>2 DEF SteerInput, HasActiveTask
    <2>2. i \in unsent /\ unsent' = unsent \ {i} /\ pend' = [pend EXCEPT ![o] = Append(@, i)]
          /\ UNCHANGED <<active, obj, idle, mailbox, hand, input, recorded, refused>>
      BY <1>2, <2>1 DEF SteerInput
    <2> QED BY <1>1, <2>1, <2>2, ReceivesPending
  <1>3. ASSUME NEW i \in UserItems, SteerRefused(i)
        PROVE  ReceivesInput /\ NoRepeats'
    BY <1>1, <1>3, ReceivesInLog DEF SteerRefused
  <1>4. ASSUME NEW i \in UserItems, UserTurn(i)
        PROVE  ReceivesInput /\ NoRepeats'
    <2>1. PICK t \in Turns : t = FreshTurn
      BY <1>4, FreshTurnIsFresh DEF UserTurn, SpawnTask
    <2>2. /\ i \in unsent /\ unsent' = unsent \ {i} /\ input' = [input EXCEPT ![t] = <<i>>]
          /\ UNCHANGED <<active, obj, idle, mailbox, pend, hand, recorded, refused>>
      BY <1>4, <2>1 DEF UserTurn, SpawnTask
    <2>3. pc[t] = "unborn" /\ input[t] = <<>>
      <3>1. t \in FreshTurns
        BY <1>4, <2>1, FreshTurnIsFresh DEF UserTurn, SpawnTask
      <3> QED BY <3>1 DEF FreshTurns, OwnersInv, InputsOwned
    <2>4. Injective(<<i>>) /\ \A j : InSeq(j, <<i>>) <=> j = i
      BY <1>0, <2>2, AppendItem, ItemSeqs
    <2>5. NoRepeats'
      BY <1>0, <2>2, <2>4 DEF NoRepeats
    <2>6. GainsOnly(i, "input", t) /\ \A j : j # i => KeepsItem(j)
      BY <1>0, <2>2, <2>3, <2>4, EmptyQueue DEF GainsOnly, KeepsItem
    <2>7. Holds("input", t, i)'
      BY <1>0, <1>1, <2>2, <2>3, <2>4 DEF Holds
    <2> QED BY <1>1, <2>2, <2>5, <2>6, <2>7, ReceivesPlace DEF QueueKinds
  <1>5. ASSUME NEW i \in MailItems, InterAgentCommunication(i)
        PROVE  ReceivesInput /\ NoRepeats'
    <2>1. /\ i \in unsent /\ unsent' = unsent \ {i} /\ mailbox' = Append(mailbox, i)
          /\ UNCHANGED <<active, obj, idle, pend, hand, input, recorded, refused>>
      BY <1>5 DEF InterAgentCommunication
    <2>2. ~InSeq(i, mailbox)
      <3>1. Holds("unsent", NoObj, i) /\ (InSeq(i, mailbox) => Holds("mailbox", NoObj, i))
        BY <2>1 DEF Holds
      <3> QED BY <3>1 DEF OnePlace
    <2>3. /\ Injective(mailbox')
          /\ \A j : InSeq(j, mailbox') <=> InSeq(j, mailbox) \/ j = i
      <3>1. i \in Items /\ Injective(mailbox)
        BY <1>0, <2>1 DEF NoRepeats
      <3> QED BY <1>0, <2>1, <2>2, <3>1, AppendItem
    <2>4. NoRepeats'
      BY <2>1, <2>3 DEF NoRepeats
    <2>5. GainsOnly(i, "mailbox", NoObj) /\ \A j : j # i => KeepsItem(j)
      BY <2>1, <2>3 DEF GainsOnly, KeepsItem
    <2>6. Holds("mailbox", NoObj, i)'
      BY <2>3 DEF Holds
    <2> QED BY <1>1, <2>1, <2>4, <2>5, <2>6, ReceivesPlace DEF QueueKinds
  <1>6. ASSUME NEW i \in DeniedItems, ApproveDeniedAction(i)
        PROVE  ReceivesInput /\ NoRepeats'
    <2>1. /\ i \in unsent /\ unsent' = unsent \ {i} /\ pc[Loop] = "ready"
          /\ UNCHANGED <<active, obj, idle, mailbox, input, recorded, refused>>
      BY <1>6 DEF ApproveDeniedAction
    <2>2. CASE active # NoObj
      <3>1. PICK o \in Objs : o = active
        BY <1>0, <2>2
      <3>2. pend' = [pend EXCEPT ![o] = Append(@, i)] /\ UNCHANGED hand
        BY <1>6, <2>2, <3>1 DEF ApproveDeniedAction
      <3> QED BY <1>1, <2>1, <3>1, <3>2, ReceivesPending
    <2>3. CASE active = NoObj
      <3>1. hand' = [hand EXCEPT ![Loop] = <<i>>] /\ UNCHANGED pend
        BY <1>6, <2>3 DEF ApproveDeniedAction
      <3>2. hand[Loop] = <<>>
        BY <1>0, <2>1 DEF OwnersInv, HandsEmpty
      <3> QED BY <1>0, <1>1, <2>1, <3>1, <3>2, ReceivesInHand
    <2> QED BY <2>2, <2>3
  <1>7. CASE \E k \in StandaloneKinds : StandaloneTask(k)
    <2>1. OnlyLoses
      BY <1>0, <1>7 DEF StandaloneTask, SpawnTask, OnlyLoses
    <2> QED BY <2>1, LosesInputs
  <1>8. CASE (\E t \in Turns : ExecApproval(t)) \/ Interrupt \/ Shutdown
    <2>1. OnlyLoses
      BY <1>8 DEF ExecApproval, Interrupt, Shutdown, OnlyLoses, log
    <2> QED BY <2>1, LosesInputs
  <1> QED BY <1>2, <1>3, <1>4, <1>5, <1>6, <1>7, <1>8 DEF Submission

\* So do the scheduler and the auxiliary commands.
LEMMA ExternalInputs ==
    ASSUME ControlInv, DataTypeOK, LiveKept, DeadKept, OwnersInv, OnePlace, NoRepeats, External
    PROVE  (SettlesInputs \/ ReceivesInput) /\ NoRepeats'
  <1> USE DEF slot, turnState, queues, params, locals
  <1>0. /\ Background \in Threads \ Turns /\ Guardian \in Threads \ Turns
        /\ \A t \in Turns : t \in Threads
        /\ pc \in [Threads -> Pcs] /\ active \in Objs \cup {NoObj}
    BY ThreadsAssumption DEF Threads, ControlInv, ControlTypeOK
  <1>1. \A t \in Turns : pc'[t] = pc[t]
    BY <1>0 DEF External, FireScheduledPrompt, AuxiliaryOutput, AbortTurnIfActive, Goto
  <1>2. ASSUME NEW i \in SchedItems, FireScheduledPrompt(i)
        PROVE  ReceivesInput /\ NoRepeats'
    <2>1. /\ i \in unsent /\ unsent' = unsent \ {i} /\ pc[Background] = "ready"
          /\ hand' = [hand EXCEPT ![Background] = <<i>>]
          /\ UNCHANGED <<active, obj, idle, mailbox, pend, input, recorded, refused>>
      BY <1>2 DEF FireScheduledPrompt
    <2>2. hand[Background] = <<>>
      BY <1>0, <2>1 DEF OwnersInv, HandsEmpty
    <2> QED BY <1>0, <1>1, <2>1, <2>2, ReceivesInHand
  <1>3. ASSUME NEW i \in AuxItems, AuxiliaryOutput(i)
        PROVE  ReceivesInput /\ NoRepeats'
    <2>1. /\ i \in unsent /\ unsent' = unsent \ {i}
          /\ UNCHANGED <<active, obj, idle, mailbox, hand, input, refused>>
      BY <1>3 DEF AuxiliaryOutput
    <2>2. CASE active # NoObj
      <3>1. PICK o \in Objs : o = active
        BY <1>0, <2>2
      <3>2. pend' = [pend EXCEPT ![o] = Append(@, i)] /\ UNCHANGED recorded
        BY <1>3, <2>2, <3>1 DEF AuxiliaryOutput
      <3> QED BY <1>1, <2>1, <3>1, <3>2, ReceivesPending
    <2>3. CASE active = NoObj
      <3>1. recorded' = recorded \cup {i} /\ UNCHANGED pend
        BY <1>3, <2>3 DEF AuxiliaryOutput
      <3> QED BY <1>1, <2>1, <3>1, ReceivesInLog
    <2> QED BY <2>2, <2>3
  <1>4. CASE \E t \in Turns : AbortTurnIfActive(t)
    <2>1. OnlyLoses
      BY <1>4 DEF AbortTurnIfActive, OnlyLoses
    <2> QED BY <2>1, LosesInputs
  <1> QED BY <1>2, <1>3, <1>4 DEF External

-----------------------------------------------------------------------------
(* The invariant and what follows from it.                                 *)

InputsInv == ObjHeld /\ DataTypeOK /\ OwnersInv /\ OnePlace /\ NoRepeats

\* In a new session every input is outside.
LEMMA InputsInit ==
    Init => InputsInv
  <1> SUFFICES ASSUME Init PROVE InputsInv
    OBVIOUS
  <1>1. OwnersInv
    BY EmptyQueue DEF Init, OwnersInv, TargetsInUse, HandsEmpty, InputsOwned
  <1>2. NoRepeats
    BY EmptyQueue DEF Init, NoRepeats
  <1>3. OnePlace
    <2>1. \A i, k, x : Holds(k, x, i) => k = "unsent" /\ x = NoObj
      BY EmptyQueue DEF Init, Holds
    <2> QED BY <2>1 DEF OnePlace
  <1> QED BY <1>1, <1>2, <1>3, DataInit DEF InputsInv

\* Every step settles inputs or receives one.
LEMMA InputsMove ==
    ASSUME ControlInv, InputsInv, [Next]_vars
    PROVE  (SettlesInputs \/ ReceivesInput) /\ NoRepeats'
  <1> USE DEF InputsInv
  <1>1. ControlTypeOK /\ LiveKept /\ DeadKept
    BY LiveNext, OwnersNext DEF ControlInv
  <1>2. CASE UNCHANGED vars
    <2>1. OnlyLoses
      BY <1>2 DEF vars, turnState, queues, params, locals, OnlyLoses
    <2> QED BY <1>1, <2>1, LosesInputs
  <1>3. CASE Submission
    BY <1>1, <1>3, SubmissionInputs
  <1>4. CASE External
    BY <1>1, <1>4, ExternalInputs
  <1>5. ASSUME NEW th \in Threads, Procedure(th)
        PROVE  SettlesInputs /\ NoRepeats'
    BY <1>1, <1>5, ProcedureSettles
  <1>6. ASSUME NEW t \in Turns, Body(t) \/ Finish(t) \/ Die(t)
        PROVE  SettlesInputs /\ NoRepeats'
    BY <1>1, <1>6, BodySettles, FinishSettles
  <1> QED BY <1>2, <1>3, <1>4, <1>5, <1>6 DEF Next

\* The invariant is inductive.
LEMMA InputsNext ==
    ASSUME ControlInv, InputsInv, [Next]_vars
    PROVE  InputsInv'
  <1>1. ObjHeld' /\ DataTypeOK' /\ OwnersInv'
    BY ObjHeldNext, DataNext, OwnersNext DEF InputsInv, ControlInv
  <1>2. OnePlace' /\ NoRepeats'
    BY InputsMove, SettlesOnePlace, ReceivesOnePlace DEF InputsInv
  <1> QED BY <1>1, <1>2 DEF InputsInv

\* Where every input of every schedule is.
LEMMA InputsCorrect == Spec => [](ControlInv /\ InputsInv)
  BY InputsInit, InputsNext, ControlCorrect, PTL DEF Spec

\* The places of an input that is at one place, and there once.
LEMMA PlacesCount ==
    ASSUME OnePlace, NoRepeats, NEW i \in Items
    PROVE  Cardinality(Places(i)) <= 1
  <1> DEFINE
        At(p, k, x) ==
            \/ k = "idle" /\ x = NoObj /\ \E n \in DOMAIN idle : idle[n] = i /\ p = <<"idle", n>>
            \/ /\ k = "mailbox" /\ x = NoObj
               /\ \E n \in DOMAIN mailbox : mailbox[n] = i /\ p = <<"mailbox", n>>
            \/ /\ k = "pend" /\ x \in Objs /\ Live(x)
               /\ \E n \in DOMAIN pend[x] : pend[x][n] = i /\ p = <<"pend", x, n>>
            \/ /\ k = "hand" /\ x \in Threads
               /\ \E n \in DOMAIN hand[x] : hand[x][n] = i /\ p = <<"hand", x, n>>
            \/ /\ k = "input" /\ x \in Turns /\ pc[x] # "dead" /\ InSeq(i, input[x])
               /\ p = <<"input", x>>
            \/ k = "unsent" /\ x = NoObj /\ i \in unsent /\ p = <<"unsent">>
            \/ k = "recorded" /\ x = NoObj /\ i \in recorded /\ p = <<"recorded">>
            \/ k = "refused" /\ x = NoObj /\ i \in refused /\ p = <<"refused">>
  <1>1. ASSUME NEW p \in Places(i)
        PROVE  \E k, x : At(p, k, x)
    <2>1. CASE p \in {<<"idle", k>> : k \in {k \in DOMAIN idle : idle[k] = i}}
      <3>1. At(p, "idle", NoObj)
        BY <2>1
      <3> QED BY <3>1
    <2>2. CASE p \in {<<"mailbox", k>> : k \in {k \in DOMAIN mailbox : mailbox[k] = i}}
      <3>1. At(p, "mailbox", NoObj)
        BY <2>2
      <3> QED BY <3>1
    <2>3. CASE p \in {<<"pend", q[1], q[2]>> : q \in {q \in Objs \X (1 .. Cardinality(Items)) :
                  Live(q[1]) /\ q[2] \in DOMAIN pend[q[1]] /\ pend[q[1]][q[2]] = i}}
      <3>1. PICK x \in Objs : Live(x) /\ \E n \in DOMAIN pend[x] : pend[x][n] = i
                                                                  /\ p = <<"pend", x, n>>
        BY <2>3
      <3>2. At(p, "pend", x)
        BY <3>1
      <3> QED BY <3>2
    <2>4. CASE p \in {<<"hand", q[1], q[2]>> : q \in {q \in Threads \X (1 .. Cardinality(Items)) :
                  q[2] \in DOMAIN hand[q[1]] /\ hand[q[1]][q[2]] = i}}
      <3>1. PICK x \in Threads : \E n \in DOMAIN hand[x] : hand[x][n] = i
                                                          /\ p = <<"hand", x, n>>
        BY <2>4
      <3>2. At(p, "hand", x)
        BY <3>1
      <3> QED BY <3>2
    <2>5. CASE p \in {<<"input", t>> : t \in {t \in Turns : pc[t] # "dead" /\ InSeq(i, input[t])}}
      <3>1. PICK t \in Turns : pc[t] # "dead" /\ InSeq(i, input[t]) /\ p = <<"input", t>>
        BY <2>5
      <3>2. At(p, "input", t)
        BY <3>1
      <3> QED BY <3>2
    <2>6. CASE p \in {<<"unsent">> : x \in unsent \cap {i}}
      <3>1. At(p, "unsent", NoObj)
        BY <2>6
      <3> QED BY <3>1
    <2>7. CASE p \in {<<"recorded">> : x \in recorded \cap {i}}
      <3>1. At(p, "recorded", NoObj)
        BY <2>7
      <3> QED BY <3>1
    <2>8. CASE p \in {<<"refused">> : x \in refused \cap {i}}
      <3>1. At(p, "refused", NoObj)
        BY <2>8
      <3> QED BY <3>1
    <2> QED BY <1>1, <2>1, <2>2, <2>3, <2>4, <2>5, <2>6, <2>7, <2>8 DEF Places
  <1>2. ASSUME NEW p, NEW k, NEW x, At(p, k, x)
        PROVE  Holds(k, x, i)
    BY <1>2 DEF Holds, InSeq
  <1>3. ASSUME NEW p, NEW q, NEW k, NEW x, At(p, k, x), At(q, k, x)
        PROVE  p = q
    BY <1>3 DEF NoRepeats, Injective
  <1> HIDE DEF At
  <1>4. ASSUME NEW p \in Places(i), NEW q \in Places(i)
        PROVE  p = q
    <2>1. PICK k, x : At(p, k, x)
      BY <1>1
    <2>2. PICK l, y : At(q, l, y)
      BY <1>1
    <2>3. k = l /\ x = y
      BY <1>2, <2>1, <2>2 DEF OnePlace
    <2> QED BY <1>3, <2>1, <2>2, <2>3
  <1>5. CASE Places(i) = {}
    <2>1. Cardinality(Places(i)) = 0
      BY <1>5, FS_EmptySet
    <2> QED BY <2>1
  <1>6. CASE Places(i) # {}
    <2>1. PICK p : p \in Places(i)
      BY <1>6
    <2>2. Places(i) = {p}
      BY <1>4, <2>1
    <2>3. Cardinality(Places(i)) = 1
      BY <2>2, FS_Singleton
    <2> QED BY <2>3
  <1> QED BY <1>5, <1>6

\* For any number of inputs, turns and threads and any schedule: over requeues,
\* drains by several tasks, blocked hooks and the left-over input of a finished
\* turn, an input is at most once in the session, so it is recorded in the
\* history at most once.
THEOREM NothingDuplicated == Spec => []NeverDuplicated
  <1>1. InputsInv => NeverDuplicated
    BY PlacesCount DEF InputsInv, NeverDuplicated
  <1> QED BY <1>1, InputsCorrect, PTL

\* Every step of the session is a step of the ledger, or a stutter.
LEMMA LedgerNext ==
    ASSUME ControlInv, InputsInv, [Next]_vars
    PROVE  Ledger!Next
  <1>1. InputsInv'
    BY InputsNext
  <1>2. CASE SettlesInputs
    BY <1>1, <1>2, SettlesLedger DEF InputsInv, Ledger!Next
  <1>3. CASE ReceivesInput
    <2>1. \E i \in Items : Ledger!Receive(i)
      BY <1>1, <1>3, ReceivesLedger DEF InputsInv
    <2> QED BY <2>1 DEF Ledger!Next
  <1> QED BY <1>2, <1>3, InputsMove

\* The session implements the ledger: no handler, hook, abort or end of a turn
\* takes an input without keeping, recording or refusing it, settles it twice or
\* both ways, or brings back one that was dropped.
THEOREM SessionImplementsLedger == Spec => ImplementsLedger
  <1>1. Init => Ledger!Init
    <2> SUFFICES ASSUME Init PROVE Ledger!Init
      OBVIOUS
    <2>1. Held = {}
      BY EmptyQueue DEF Init, Held
    <2> QED BY <2>1 DEF Init, Ledger!Init
  <1>2. ControlInv /\ InputsInv /\ [Next]_vars => [Ledger!Next]_Ledger!ledger
    BY LedgerNext
  <1> QED BY <1>1, <1>2, InputsCorrect, PTL DEF Spec, ImplementsLedger, Ledger!Spec
=============================================================================
