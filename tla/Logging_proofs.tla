---------------------------- MODULE Logging_proofs ----------------------------
(***************************************************************************)
(* Proofs about the preallocated buffers (TempBufs) and about the way of a *)
(* log message to the disk (Logging), for any tasks, any number of buffers *)
(* and ring buffers of any size.                                           *)
(***************************************************************************)
EXTENDS Logging, FiniteSetTheorems, TLAPS

-----------------------------------------------------------------------------
(***************************************************************************)
(* The buffers by themselves.                                              *)
(***************************************************************************)
\* The status of a buffer tells whether it is owned, and by one task only.
Owned == BTypeOK /\ Exclusive /\ NoLeak

LEMMA InitOwned == BInit => Owned
BY BufsAssumption DEF BInit, Owned, BTypeOK, Exclusive, NoLeak, Bufs

LEMMA NextOwned == Owned /\ [BNext]_bufvars => Owned'
<1> SUFFICES ASSUME Owned, [BNext]_bufvars PROVE Owned'
  OBVIOUS
<1> USE BufsAssumption DEF Owned, BTypeOK, Exclusive, NoLeak, Bufs
<1>1. ASSUME NEW t \in Tasks, StartGet(t) PROVE Owned'
  BY <1>1 DEF StartGet
<1>2. ASSUME NEW t \in Tasks, CompareAndSet(t) PROVE Owned'
  BY <1>2 DEF CompareAndSet
<1>3. ASSUME NEW t \in Tasks, TryNext(t) PROVE Owned'
  BY <1>3 DEF TryNext
<1>4. ASSUME NEW t \in Tasks, release(t) PROVE Owned'
  BY <1>4 DEF release
<1>5. CASE UNCHANGED bufvars
  BY <1>5 DEF bufvars
<1>6. QED
  BY <1>1, <1>2, <1>3, <1>4, <1>5 DEF BNext

\* Whatever Tasks and NumBufs are, two tasks never format in the same buffer.
THEOREM ExclusiveAlways == BSpec => []Exclusive
<1>1. Owned => Exclusive
  BY DEF Owned
<1>2. QED
  BY InitOwned, NextOwned, <1>1, PTL DEF BSpec

\* Whatever Tasks and NumBufs are, no buffer is leaked.
THEOREM NoLeakAlways == BSpec => []NoLeak
<1>1. Owned => NoLeak
  BY DEF Owned
<1>2. QED
  BY InitOwned, NextOwned, <1>1, PTL DEF BSpec

-----------------------------------------------------------------------------
(* get() never goes round twice.  A task that moves on from buffer p leaves *)
(* behind the owner of p: at most Cardinality(Tasks) - k tasks are at       *)
(* buffer k or beyond.                                                      *)

Reached(k) == {t \in Tasks : mode[t] # "out" /\ index[t] >= k}

Ranked ==
  \A k \in Bufs : Reached(k) # {} => Cardinality(Reached(k)) + k <= Cardinality(Tasks)

LEMMA SubsetOfTasks ==
  ASSUME NEW S \in SUBSET Tasks
  PROVE  IsFiniteSet(S) /\ Cardinality(S) \in Nat /\ Cardinality(S) <= Cardinality(Tasks)
         /\ Cardinality(Tasks) \in Nat
BY BufsAssumption, FS_Subset, FS_CardinalityType

LEMMA ReachedFinite ==
  ASSUME NEW k
  PROVE  /\ IsFiniteSet(Reached(k)) /\ Cardinality(Reached(k)) \in Nat
         /\ Cardinality(Reached(k)) <= Cardinality(Tasks) /\ Cardinality(Tasks) \in Nat
BY SubsetOfTasks DEF Reached

LEMMA TwoElements ==
  ASSUME NEW x, NEW y, x # y
  PROVE  Cardinality({x, y}) = 2
<1>1. IsFiniteSet({x}) /\ Cardinality({x}) = 1
  BY FS_Singleton
<1>2. Cardinality({x} \cup {y}) = 1 + 1
  BY <1>1, FS_AddElement
<1>3. {x} \cup {y} = {x, y}
  OBVIOUS
<1>4. QED
  BY <1>2, <1>3

LEMMA SmallRemainder ==
  ASSUME NEW n \in Nat, NEW d \in Nat, n < d
  PROVE  n % d = n
OBVIOUS

LEMMA InitRanked == BInit => Ranked
<1> SUFFICES ASSUME BInit, NEW k \in Bufs, Reached(k) # {} PROVE FALSE
  BY DEF Ranked
<1> QED
  BY DEF BInit, Reached

\* Shrinking every Reached(k), or letting a task reach only buffer 0, keeps the ranks.
LEMMA FewerRanked ==
  ASSUME Ranked, \A k \in Bufs : k = 0 \/ Reached(k)' \subseteq Reached(k)
  PROVE  Ranked'
<1> SUFFICES ASSUME NEW k \in Bufs, Reached(k)' # {}
             PROVE  Cardinality(Reached(k)') + k <= Cardinality(Tasks)
  BY DEF Ranked
<1>1. Reached(k)' \in SUBSET Tasks
  BY DEF Reached
<1>2. k \in Nat
  BY BufsAssumption DEF Bufs
<1>3. CASE k = 0
  <2>1. Cardinality(Reached(k)') \in Nat /\ Cardinality(Reached(k)') <= Cardinality(Tasks)
    BY <1>1, SubsetOfTasks
  <2>2. QED
    BY <2>1, <1>3, SubsetOfTasks, <1>1
<1>4. CASE Reached(k)' \subseteq Reached(k)
  <2>1. Cardinality(Reached(k)') <= Cardinality(Reached(k))
    BY <1>4, ReachedFinite, FS_Subset
  <2>2. Cardinality(Reached(k)) + k <= Cardinality(Tasks)
    BY <1>4 DEF Ranked
  <2>3. Cardinality(Reached(k)') \in Nat /\ Cardinality(Reached(k)) \in Nat
        /\ Cardinality(Tasks) \in Nat
    BY <1>1, SubsetOfTasks, ReachedFinite
  <2>4. QED
    BY <2>1, <2>2, <2>3, <1>2
<1>5. QED
  BY <1>3, <1>4

LEMMA TryNextRanked ==
  ASSUME Owned, Ranked, Cardinality(Tasks) <= NumBufs, NEW t \in Tasks, TryNext(t)
  PROVE  Ranked'
<1>0. PICK p \in Bufs : p = index[t]
  BY DEF Owned, BTypeOK
<1>1. p \in Nat /\ p < NumBufs /\ NumBufs \in Nat
  BY BufsAssumption DEF Bufs
<1>2. PICK u \in Tasks : mode[u] = "owns" /\ index[u] = p
  BY <1>0 DEF Owned, NoLeak, TryNext
<1>3. t \in Reached(p) /\ u \in Reached(p) /\ t # u
  BY <1>0, <1>1, <1>2 DEF Reached, TryNext
<1>4. Cardinality(Reached(p)) + p <= Cardinality(Tasks)
  BY <1>1, <1>3 DEF Ranked
<1>5. Cardinality({t, u}) = 2
  BY <1>3, TwoElements
<1>6. Cardinality(Reached(p)) >= 2
  BY <1>3, <1>5, ReachedFinite, FS_Subset
<1>7. p + 1 < NumBufs /\ p + 1 \in Bufs
  BY <1>1, <1>4, <1>6, ReachedFinite DEF Bufs
<1>8. index' = [index EXCEPT ![t] = p + 1] /\ mode' = mode
  <2>1. (p + 1) % NumBufs = p + 1
    BY <1>1, <1>7, SmallRemainder
  <2>2. QED
    BY <1>0, <2>1 DEF TryNext
<1>9. ASSUME NEW k \in Bufs, k # p + 1 PROVE Reached(k)' \subseteq Reached(k)
  BY <1>0, <1>1, <1>3, <1>8, <1>9 DEF Reached, Owned, BTypeOK, Bufs
<1>10. Reached(p + 1)' \subseteq Reached(p) \ {u}
  BY <1>0, <1>1, <1>2, <1>3, <1>8 DEF Reached, Owned, BTypeOK, Bufs
<1>11. Cardinality(Reached(p) \ {u}) = Cardinality(Reached(p)) - 1 /\ IsFiniteSet(Reached(p) \ {u})
  BY <1>3, ReachedFinite, FS_RemoveElement
<1>12. Cardinality(Reached(p + 1)') <= Cardinality(Reached(p)) - 1
  BY <1>10, <1>11, FS_Subset
<1>13. SUFFICES ASSUME NEW k \in Bufs, Reached(k)' # {}
                PROVE  Cardinality(Reached(k)') + k <= Cardinality(Tasks)
  BY DEF Ranked
<1>14. Cardinality(Reached(k)') \in Nat
  BY SubsetOfTasks DEF Reached
<1>15. CASE k = p + 1
  <2>1. Reached(k)' = Reached(p + 1)'
    BY <1>15 DEF Reached
  <2>2. Cardinality(Reached(k)') <= Cardinality(Reached(p)) - 1
    BY <2>1, <1>12
  <2>3. QED
    BY <2>2, <1>1, <1>4, <1>14, <1>15, ReachedFinite
<1>16. CASE k # p + 1
  <2>1. Cardinality(Reached(k)') <= Cardinality(Reached(k)) /\ Reached(k) # {}
    BY <1>9, <1>16, <1>13, ReachedFinite, FS_Subset
  <2>2. Cardinality(Reached(k)) + k <= Cardinality(Tasks)
    BY <2>1 DEF Ranked
  <2>3. k \in Nat
    BY <1>1 DEF Bufs
  <2>4. QED
    BY <2>1, <2>2, <2>3, <1>14, ReachedFinite
<1>17. QED
  BY <1>15, <1>16

LEMMA NextRanked ==
  ASSUME Owned, Ranked, Cardinality(Tasks) <= NumBufs, [BNext]_bufvars
  PROVE  Ranked'
<1> USE DEF Reached
<1>1. ASSUME NEW t \in Tasks, StartGet(t) PROVE Ranked'
  <2>1. \A k \in Bufs : k = 0 \/ Reached(k)' \subseteq Reached(k)
    BY <1>1, BufsAssumption DEF StartGet, Owned, BTypeOK, Bufs
  <2>2. QED
    BY <2>1, FewerRanked
<1>2. ASSUME NEW t \in Tasks, CompareAndSet(t) PROVE Ranked'
  <2>1. \A k \in Bufs : Reached(k)' \subseteq Reached(k)
    BY <1>2 DEF CompareAndSet, Owned, BTypeOK
  <2>2. QED
    BY <2>1, FewerRanked
<1>3. ASSUME NEW t \in Tasks, TryNext(t) PROVE Ranked'
  BY <1>3, TryNextRanked
<1>4. ASSUME NEW t \in Tasks, release(t) PROVE Ranked'
  <2>1. \A k \in Bufs : Reached(k)' \subseteq Reached(k)
    BY <1>4 DEF release, Owned, BTypeOK
  <2>2. QED
    BY <2>1, FewerRanked
<1>5. CASE UNCHANGED bufvars
  <2>1. \A k \in Bufs : Reached(k)' \subseteq Reached(k)
    BY <1>5 DEF bufvars
  <2>2. QED
    BY <2>1, FewerRanked
<1>6. QED
  BY <1>1, <1>2, <1>3, <1>4, <1>5 DEF BNext

LEMMA RankedNeverBlocks == Owned /\ Ranked => NeverBlocks
<1> SUFFICES ASSUME Owned, Ranked, Cardinality(Tasks) <= NumBufs, NEW t \in Tasks,
                    mode[t] = "get", index[t] = NumBufs - 1, status[index[t]] # 0
             PROVE  FALSE
  BY DEF NeverBlocks
<1> DEFINE p == index[t]
<1>1. p \in Bufs /\ p \in Nat /\ p = NumBufs - 1 /\ NumBufs \in Nat
  BY BufsAssumption DEF Owned, BTypeOK, Bufs
<1>2. PICK u \in Tasks : mode[u] = "owns" /\ index[u] = p
  BY <1>1 DEF Owned, NoLeak, BTypeOK
<1>3. t \in Reached(p) /\ u \in Reached(p) /\ t # u
  BY <1>1, <1>2 DEF Reached
<1>4. Cardinality(Reached(p)) + p <= Cardinality(Tasks)
  BY <1>1, <1>3 DEF Ranked
<1>5. Cardinality({t, u}) = 2
  BY <1>3, TwoElements
<1>6. Cardinality(Reached(p)) >= 2
  BY <1>3, <1>5, ReachedFinite, FS_Subset
<1>7. QED
  BY <1>1, <1>4, <1>6, ReachedFinite

\* With no more tasks than buffers, a task that looks for a buffer finds one on
\* its first pass.
THEOREM NeverBlocksAlways == BSpec => []NeverBlocks
<1>1. CASE Cardinality(Tasks) <= NumBufs
  <2>1. BInit => Owned /\ Ranked
    BY InitOwned, InitRanked
  <2>2. Owned /\ Ranked /\ [BNext]_bufvars => (Owned /\ Ranked)'
    BY <1>1, NextOwned, NextRanked
  <2>3. QED
    BY <2>1, <2>2, RankedNeverBlocks, PTL DEF BSpec
<1>2. CASE ~(Cardinality(Tasks) <= NumBufs)
  <2>1. NeverBlocks
    BY <1>2 DEF NeverBlocks
  <2>2. QED
    BY <2>1, PTL
<1>3. QED
  BY <1>1, <1>2

-----------------------------------------------------------------------------
(***************************************************************************)
(* The buffers in venqueueLogMessage().                                    *)
(***************************************************************************)
LEMMA BufsStep == [Next]_vars => [BNext]_bufvars
  BY DEF Next, Begin, Producer, get, Format, SendAcquire, Copy, Release, SendComplete, rotate,
     logWriter, Receive, WriteToDisk, DropOldest, SaveForLater, ReturnItem, RotateWhenIdle,
     initDiskLog, InitLogfile, SwitchToDisk, ReceiveEarly, LogEarly, DeleteEarly, BootVars,
     vars, producer, bufs, bufvars, BNext

\* The three promises of tempbufsmanager.h hold as venqueueLogMessage() uses the
\* buffers (logmanager.cpp:158-190).
THEOREM BuffersInLogging == Spec => [](Exclusive /\ NoLeak /\ NeverBlocks)
  <1>1. Init => BInit
    BY DEF Init
  <1>2. Spec => BSpec
    BY <1>1, BufsStep, PTL DEF Spec, BSpec
  <1>3. QED
    BY <1>2, ExclusiveAlways, NoLeakAlways, NeverBlocksAlways, PTL

-----------------------------------------------------------------------------
(***************************************************************************)
(* What each variable holds, and what each task is at.                     *)
(***************************************************************************)
Item == [by : Messages, body : Messages \cup {Nothing}, sent : BOOLEAN]

Formatting == {"format", "acquire", "copy", "release", "giveUp"}
Preparing == {"get", "format", "acquire"}
Sending == {"copy", "release", "complete"}

TypeInv ==
  /\ LoggingTypeOK
  /\ tmp \in [Bufs -> Messages \cup {Nothing}]
  /\ ring \in Seq(Item)
  /\ {early, disk} \subseteq Seq(Messages)
  /\ {hand, drained} \subseteq Messages \cup {Nothing}
  /\ logToDisk \in BOOLEAN

\* A task in venqueueLogMessage() has a buffer from get() to release(), and what
\* it formats there stays there.
TaskInv ==
  \A t \in Tasks :
    /\ pc[t] = "get" <=> mode[t] = "get"
    /\ pc[t] \in Formatting <=> mode[t] = "owns"
    /\ pc[t] # "idle" => count[t] > 0
    /\ pc[t] \in {"acquire", "copy"} => tmp[index[t]] = Current(t)

\* m was logged earlier than what its task may still send.
Older(m) == m[2] <= count[m[1]] /\ (pc[m[1]] \in Preparing => m[2] < count[m[1]])

Before(m, n) == m[1] = n[1] => m[2] < n[2]

\* Each item of the ring buffer that is not complete is the one that its task is
\* sending.
RingInv ==
  /\ \A i \in DOMAIN ring :
       LET t == ring[i].by[1]
       IN  /\ ring[i].sent \/ (pc[t] \in Sending /\ ring[i].by = Current(t))
           /\ ring[i].sent \/ pc[t] # "copy" => ring[i].body = ring[i].by
           /\ Older(ring[i].by)
  /\ \A t \in Tasks : pc[t] \in Sending =>
       \E i \in DOMAIN ring : ring[i].by = Current(t) /\ ~ring[i].sent
  /\ \A i, j \in DOMAIN ring : i < j => Before(ring[i].by, ring[j].by)

WriterInv ==
  /\ writer # "receive" => ring # <<>> /\ ring[1].sent /\ hand = ring[1].body
  /\ drained # Nothing <=> boot = "log"
  /\ logToDisk <=> boot \in {"drain", "log", "done"}

-----------------------------------------------------------------------------
Inv == TypeInv /\ Owned /\ TaskInv /\ RingInv /\ WriterInv

LEMMA SeqFacts ==
  ASSUME NEW S, NEW q \in Seq(S)
  PROVE  Len(q) \in Nat /\ DOMAIN q = 1..Len(q) /\ (q = <<>> <=> Len(q) = 0)
  OBVIOUS

LEMMA AppendFacts ==
  ASSUME NEW S, NEW q \in Seq(S), NEW e \in S
  PROVE  /\ Append(q, e) \in Seq(S)
         /\ Len(Append(q, e)) = Len(q) + 1
         /\ \A i \in 1..Len(q) : Append(q, e)[i] = q[i]
         /\ Append(q, e)[Len(q) + 1] = e
  OBVIOUS

LEMMA TailFacts ==
  ASSUME NEW S, NEW q \in Seq(S), q # <<>>
  PROVE  /\ Head(q) = q[1] /\ Head(q) \in S
         /\ Tail(q) \in Seq(S)
         /\ Len(Tail(q)) = Len(q) - 1
         /\ \A i \in 1..(Len(q) - 1) : Tail(q)[i] = q[i + 1]
  <1>1. Head(q) = q[1] /\ Head(q) \in S
    OBVIOUS
  <1>2. Tail(q) \in Seq(S) /\ Len(Tail(q)) = Len(q) - 1
    OBVIOUS
  <1>3. \A i \in 1..(Len(q) - 1) : Tail(q)[i] = q[i + 1]
    OBVIOUS
  <1>4. QED
    BY <1>1, <1>2, <1>3

LEMMA MessageFacts ==
  /\ \A m \in Messages : m # Nothing /\ m[1] \in Tasks /\ m[2] \in 1..MaxMsgs
  /\ \A t \in Tasks, n \in 1..MaxMsgs : <<t, n>> \in Messages
  <1>1. ASSUME NEW m \in Messages PROVE m # Nothing
    BY <1>1 DEF Messages, Nothing
  <1>2. QED
    BY <1>1 DEF Messages

\* The item of the ring buffer that a task is sending.
LEMMA ItemFacts ==
  ASSUME Inv, NEW t \in Tasks, pc[t] \in Sending
  PROVE  /\ ItemOf(t) \in 1..Len(ring)
         /\ ring[ItemOf(t)].by = Current(t)
         /\ ~ring[ItemOf(t)].sent
         /\ \A i \in 1..Len(ring) : ring[i].by = Current(t) => i = ItemOf(t)
  <1>1. DOMAIN ring = 1..Len(ring) /\ Len(ring) \in Nat
    BY SeqFacts DEF Inv, TypeInv
  <1>2. PICK i \in 1..Len(ring) : ring[i].by = Current(t) /\ ~ring[i].sent
    BY <1>1 DEF Inv, RingInv
  <1>3. ASSUME NEW j \in 1..Len(ring), NEW k \in 1..Len(ring), j < k,
               ring[j].by = Current(t), ring[k].by = Current(t)
        PROVE  FALSE
    <2>1. Before(ring[j].by, ring[k].by)
      BY <1>1, <1>3 DEF Inv, RingInv
    <2>2. count[t] \in Nat
      BY DEF Inv, TypeInv, LoggingTypeOK
    <2>3. QED
      BY <1>3, <2>1, <2>2 DEF Before, Current
  <1>4. \A j \in 1..Len(ring) : ring[j].by = Current(t) => j = i
    BY <1>2, <1>3, <1>1
  <1>5. ItemOf(t) = i
    BY <1>2, <1>4 DEF ItemOf
  <1>6. QED
    BY <1>2, <1>4, <1>5

LEMMA ChangeFacts ==
  ASSUME NEW S, NEW q \in Seq(S), NEW k \in 1..Len(q), NEW e \in S
  PROVE  /\ [q EXCEPT ![k] = e] \in Seq(S)
         /\ Len([q EXCEPT ![k] = e]) = Len(q)
         /\ \A i \in 1..Len(q) : [q EXCEPT ![k] = e][i] = IF i = k THEN e ELSE q[i]
  OBVIOUS

\* What copying and completing do to the ring buffer.
LEMMA CopyFacts ==
  ASSUME Inv, NEW t \in Tasks, pc[t] \in Sending, NEW m \in Messages,
         ring' = [ring EXCEPT ![ItemOf(t)].body = m]
  PROVE  /\ ring' \in Seq(Item) /\ Len(ring') = Len(ring)
         /\ \A i \in 1..Len(ring) :
              /\ ring'[i].by = ring[i].by /\ ring'[i].sent = ring[i].sent
              /\ ring'[i].body = IF i = ItemOf(t) THEN m ELSE ring[i].body
  <1> DEFINE k == ItemOf(t)
             e == [ring[k] EXCEPT !.body = m]
  <1>1. ring \in Seq(Item) /\ k \in 1..Len(ring)
    BY ItemFacts DEF Inv, TypeInv
  <1>2. ring[k] \in Item
    BY <1>1
  <1>3. e \in Item /\ e.by = ring[k].by /\ e.sent = ring[k].sent /\ e.body = m
    BY <1>2 DEF Item
  <1>4. ring' = [ring EXCEPT ![k] = e]
    OBVIOUS
  <1> HIDE DEF k, e
  <1>5. /\ ring' \in Seq(Item) /\ Len(ring') = Len(ring)
        /\ \A i \in 1..Len(ring) : ring'[i] = IF i = k THEN e ELSE ring[i]
    <2>1. /\ [ring EXCEPT ![k] = e] \in Seq(Item)
          /\ Len([ring EXCEPT ![k] = e]) = Len(ring)
          /\ \A i \in 1..Len(ring) : [ring EXCEPT ![k] = e][i] = IF i = k THEN e ELSE ring[i]
      BY <1>1, <1>3, ChangeFacts
    <2>2. QED
      BY <1>4, <2>1
  <1>6. QED
    BY <1>3, <1>5 DEF k

LEMMA CompleteFacts ==
  ASSUME Inv, NEW t \in Tasks, pc[t] \in Sending,
         ring' = [ring EXCEPT ![ItemOf(t)].sent = TRUE]
  PROVE  /\ ring' \in Seq(Item) /\ Len(ring') = Len(ring)
         /\ \A i \in 1..Len(ring) :
              /\ ring'[i].by = ring[i].by /\ ring'[i].body = ring[i].body
              /\ ring'[i].sent = IF i = ItemOf(t) THEN TRUE ELSE ring[i].sent
  <1> DEFINE k == ItemOf(t)
             e == [ring[k] EXCEPT !.sent = TRUE]
  <1>1. ring \in Seq(Item) /\ k \in 1..Len(ring)
    BY ItemFacts DEF Inv, TypeInv
  <1>2. \A i \in 1..Len(ring) : ring[i] \in Item
    BY <1>1
  <1>3. e \in Item /\ e.by = ring[k].by /\ e.body = ring[k].body /\ e.sent = TRUE
    BY <1>1, <1>2 DEF Item
  <1>4. ring' = [ring EXCEPT ![k] = e]
    OBVIOUS
  <1> HIDE DEF k, e
  <1>5. /\ ring' \in Seq(Item) /\ Len(ring') = Len(ring)
        /\ \A i \in 1..Len(ring) : ring'[i] = IF i = k THEN e ELSE ring[i]
    <2>1. /\ [ring EXCEPT ![k] = e] \in Seq(Item)
          /\ Len([ring EXCEPT ![k] = e]) = Len(ring)
          /\ \A i \in 1..Len(ring) : [ring EXCEPT ![k] = e][i] = IF i = k THEN e ELSE ring[i]
      BY <1>1, <1>3, ChangeFacts
    <2>2. QED
      BY <1>4, <2>1
  <1>6. QED
    BY <1>3, <1>5 DEF k

-----------------------------------------------------------------------------
(* The types *)

LEMMA InvInit == Init => Inv
  <1> SUFFICES ASSUME Init PROVE Inv
    OBVIOUS
  <1>1. Owned
    BY InitOwned DEF Init
  <1>2. TypeInv
    <2>1. ring \in Seq(Item) /\ {early, disk} \subseteq Seq(Messages) /\ Len(ring) = 0 /\ Len(early) = 0
      BY DEF Init
    <2>2. LoggingTypeOK
      BY <1>1, <2>1, LoggingAssumption DEF Init, Owned, LoggingTypeOK
    <2>3. QED
      BY <2>1, <2>2 DEF Init, TypeInv
  <1>3. TaskInv /\ RingInv /\ WriterInv
    BY LoggingAssumption DEF Init, BInit, TaskInv, RingInv, WriterInv, Formatting, Sending
  <1>4. QED
    BY <1>1, <1>2, <1>3 DEF Inv

\* Log() appends a message to the log.
LEMMA LogFacts ==
  ASSUME TypeInv, NEW m \in Messages, Log(m)
  PROVE  /\ disk' \in Seq(Messages) /\ numberOfRecords' \in 0..MaxRecords
  <1>1. disk' \in Seq(Messages)
    BY AppendFacts DEF TypeInv, Log
  <1>2. QED
    BY <1>1, LoggingAssumption DEF TypeInv, LoggingTypeOK, Log

\* What the writer has received, and the first of the items, is a message.
LEMMA HandFacts ==
  ASSUME Inv
  PROVE  /\ \A i \in 1..Len(ring) :
              /\ ring[i] \in Item /\ ring[i].by \in Messages
              /\ ring[i].sent => ring[i].body = ring[i].by
         /\ writer # "receive" =>
              1 \in 1..Len(ring) /\ Len(ring) > 0 /\ ring[1].sent /\ hand = ring[1].by /\ hand \in Messages
  <1>1. DOMAIN ring = 1..Len(ring) /\ Len(ring) \in Nat /\ (ring = <<>> <=> Len(ring) = 0)
    BY SeqFacts DEF Inv, TypeInv
  <1>2. \A i \in 1..Len(ring) : ring[i] \in Item /\ ring[i].by \in Messages
    <2>1. \A i \in 1..Len(ring) : ring[i] \in Item
      BY DEF Inv, TypeInv
    <2>2. QED
      BY <2>1 DEF Item
  <1>3. \A i \in 1..Len(ring) : ring[i].sent => ring[i].body = ring[i].by
    BY <1>1 DEF Inv, RingInv
  <1>4. writer # "receive" => 1 \in 1..Len(ring) /\ ring[1].sent /\ hand = ring[1].body
    BY <1>1 DEF Inv, WriterInv
  <1>5. QED
    BY <1>1, <1>2, <1>3, <1>4

LEMMA TypeProducer ==
  ASSUME Inv, NEW t \in Tasks, Begin(t) \/ Producer(t), BTypeOK'
  PROVE  TypeInv'
  <1> USE DEF TypeInv, LoggingTypeOK, Goto, writerVars, booting, file
  <1>0. TypeInv
    BY DEF Inv
  <1>1. Current(t) \in Messages \/ pc[t] = "idle"
    BY <1>0, MessageFacts DEF Current, Inv, TaskInv
  <1>2. CASE Begin(t)
    <2>1. count' \in [Tasks -> 0..MaxMsgs]
      BY <1>0, <1>2, LoggingAssumption DEF Begin
    <2>2. raced' \subseteq Messages
      <3>1. count[t] + 1 \in 1..MaxMsgs
        BY <1>0, <1>2, LoggingAssumption DEF Begin
      <3>2. <<t, count[t] + 1>> \in Messages
        BY <3>1 DEF Messages
      <3>3. QED
        BY <1>0, <1>2, <3>2 DEF Begin
    <2>3. QED
      BY <1>0, <1>2, <2>1, <2>2 DEF Begin
  <1>3. CASE get(t)
    BY <1>0, <1>3 DEF get
  <1>4. CASE Format(t)
    BY <1>0, <1>1, <1>4 DEF Format, bufs, BTypeOK
  <1>5. CASE SendAcquire(t)
    <2>1. ring' \in Seq(Item) /\ Len(ring') <= RingSize
      <3>1. [by |-> Current(t), body |-> Nothing, sent |-> FALSE] \in Item
        BY <1>1, <1>5 DEF SendAcquire, Item
      <3>2. CASE ring' = ring
        BY <1>0, <3>2
      <3>3. CASE /\ Len(ring) < RingSize
                 /\ ring' = Append(ring, [by |-> Current(t), body |-> Nothing, sent |-> FALSE])
        BY <1>0, <3>1, <3>3, AppendFacts, SeqFacts, LoggingAssumption
      <3>4. QED
        BY <1>5, <3>2, <3>3 DEF SendAcquire
    <2>2. lost' \subseteq Messages
      BY <1>0, <1>1, <1>5 DEF SendAcquire
    <2>3. pc' \in [Tasks -> {"idle", "get", "format", "acquire", "copy", "release", "giveUp", "complete"}]
      BY <1>0, <1>5 DEF SendAcquire
    <2>4. UNCHANGED <<bufs, count, tmp, writerVars, early, booting, file, requests>>
      BY <1>5 DEF SendAcquire
    <2>5. QED
      BY <1>0, <2>1, <2>2, <2>3, <2>4
  <1>6. CASE Copy(t)
    <2>1. tmp[index[t]] \in Messages /\ pc[t] \in Sending
      BY <1>1, <1>6 DEF Copy, Sending, Inv, TaskInv
    <2>2. ring' \in Seq(Item) /\ Len(ring') = Len(ring)
      BY <1>6, <2>1, CopyFacts DEF Copy
    <2>3. QED
      BY <1>0, <1>6, <2>2 DEF Copy, bufs
  <1>7. CASE Release(t)
    BY <1>0, <1>7 DEF Release
  <1>8. CASE SendComplete(t)
    <2>1. ring' \in Seq(Item) /\ Len(ring') = Len(ring)
      BY <1>8, CompleteFacts DEF SendComplete, Sending
    <2>2. QED
      BY <1>0, <1>8, <2>1 DEF SendComplete, bufs
  <1>9. QED
    BY <1>2, <1>3, <1>4, <1>5, <1>6, <1>7, <1>8 DEF Producer

\* What is under way are messages.
LEMMA UnderWayFacts ==
  ASSUME Inv
  PROVE  /\ UnderWay \subseteq Messages
         /\ \A t \in Tasks : pc[t] # "idle" => Current(t) \in UnderWay
         /\ \A i \in DOMAIN ring : ring[i].by \in UnderWay
  <1>1. \A t \in Tasks : pc[t] # "idle" => Current(t) \in Messages
    BY MessageFacts DEF Current, Inv, TaskInv, TypeInv, LoggingTypeOK
  <1>2. DOMAIN ring = 1..Len(ring) /\ \A i \in 1..Len(ring) : ring[i].by \in Messages
    BY HandFacts, SeqFacts DEF Inv, TypeInv
  <1>3. QED
    BY <1>1, <1>2 DEF UnderWay

LEMMA TypeNext ==
  ASSUME Inv, [Next]_vars, BTypeOK'
  PROVE  TypeInv'
  <1> USE DEF TypeInv, LoggingTypeOK, producer, bufs, writerVars, booting, file
  <1>0. TypeInv
    BY DEF Inv
  <1>1. ASSUME NEW t \in Tasks, Begin(t) \/ Producer(t) PROVE TypeInv'
    BY <1>1, TypeProducer
  <1>2. CASE rotate
    BY <1>0, <1>2 DEF rotate
  <1>3. CASE Receive
    <2>1. ring[1].body \in Messages \cup {Nothing}
      <3>1. 1 \in 1..Len(ring)
        BY <1>0, <1>3, SeqFacts DEF Receive, ItemReady
      <3>2. QED
        BY <3>1, HandFacts DEF Item
    <2>2. QED
      BY <1>0, <1>3, <2>1 DEF Receive
  <1>4. CASE WriteToDisk
    <2>1. hand \in Messages
      BY <1>4, HandFacts DEF WriteToDisk
    <2>2. disk' \in Seq(Messages) /\ numberOfRecords' \in 0..MaxRecords
      BY <1>0, <1>4, <2>1, LogFacts DEF WriteToDisk
    <2>3. QED
      BY <1>0, <1>4, <2>2 DEF WriteToDisk
  <1>5. CASE DropOldest
    <2>1. early # <<>>
      BY <1>0, <1>5, SeqFacts, LoggingAssumption DEF DropOldest
    <2>2. Head(early) \in Messages /\ early' \in Seq(Messages) /\ Len(early') <= EarlySize
      BY <1>0, <1>5, <2>1, TailFacts, SeqFacts, LoggingAssumption DEF DropOldest
    <2>3. QED
      BY <1>0, <1>5, <2>2 DEF DropOldest
  <1>6. CASE SaveForLater
    <2>1. hand \in Messages
      BY <1>6, HandFacts DEF SaveForLater
    <2>2. early' \in Seq(Messages) /\ Len(early') <= EarlySize
      BY <1>0, <1>6, <2>1, AppendFacts, SeqFacts, LoggingAssumption DEF SaveForLater
    <2>3. QED
      BY <1>0, <1>6, <2>2 DEF SaveForLater
  <1>7. CASE ReturnItem
    <2>1. ring # <<>>
      BY <1>0, <1>7, HandFacts, SeqFacts DEF ReturnItem
    <2>2. ring' \in Seq(Item) /\ Len(ring') <= RingSize
      BY <1>0, <1>7, <2>1, TailFacts, SeqFacts, LoggingAssumption DEF ReturnItem
    <2>3. QED
      BY <1>0, <1>7, <2>2 DEF ReturnItem
  <1>8. CASE RotateWhenIdle
    BY <1>0, <1>8, LoggingAssumption DEF RotateWhenIdle, NewFile
  <1>9. CASE InitLogfile
    BY <1>0, <1>9, UnderWayFacts, LoggingAssumption DEF InitLogfile, NewFile, BootVars
  <1>10. CASE SwitchToDisk \/ DeleteEarly
    BY <1>0, <1>10 DEF SwitchToDisk, DeleteEarly, BootVars
  <1>11. CASE ReceiveEarly
    <2>1. Head(early) \in Messages /\ early' \in Seq(Messages) /\ Len(early') <= EarlySize
      BY <1>0, <1>11, TailFacts, SeqFacts, LoggingAssumption DEF ReceiveEarly
    <2>2. QED
      BY <1>0, <1>11, <2>1 DEF ReceiveEarly, BootVars
  <1>12. CASE LogEarly
    <2>1. drained \in Messages
      BY <1>0, <1>12 DEF LogEarly, Inv, WriterInv
    <2>2. disk' \in Seq(Messages) /\ numberOfRecords' \in 0..MaxRecords
      BY <1>0, <1>12, <2>1, LogFacts DEF LogEarly
    <2>3. QED
      BY <1>0, <1>12, <2>2 DEF LogEarly, BootVars
  <1>13. CASE UNCHANGED vars
    BY <1>0, <1>13 DEF vars
  <1>14. QED
    BY <1>1, <1>2, <1>3, <1>4, <1>5, <1>6, <1>7, <1>8, <1>9, <1>10, <1>11, <1>12, <1>13
       DEF Next, logWriter, initDiskLog

-----------------------------------------------------------------------------
(* The tasks.  A message stays in its buffer because no other task formats    *)
(* there.                                                                     *)

\* What the steps of the other tasks do to the producers.
LEMMA OthersStep ==
  ASSUME [Next]_vars, ~\E t \in Tasks : Begin(t) \/ Producer(t)
  PROVE  UNCHANGED producer
  BY DEF Next, rotate, logWriter, Receive, WriteToDisk, DropOldest, SaveForLater, ReturnItem,
     RotateWhenIdle, initDiskLog, InitLogfile, SwitchToDisk, ReceiveEarly, LogEarly, DeleteEarly,
     BootVars, vars

LEMMA TaskNext ==
  ASSUME Inv, [Next]_vars
  PROVE  TaskInv'
  <1> USE DEF Formatting, Goto
  <1>0. /\ pc \in [Tasks -> {"idle", "get", "format", "acquire", "copy", "release", "giveUp", "complete"}]
        /\ mode \in [Tasks -> {"out", "get", "owns"}] /\ index \in [Tasks -> Bufs]
        /\ count \in [Tasks -> 0..MaxMsgs] /\ tmp \in [Bufs -> Messages \cup {Nothing}]
    BY DEF Inv, TypeInv, LoggingTypeOK, Owned, BTypeOK
  <1>1. TaskInv
    BY DEF Inv
  <1>2. ASSUME NEW t \in Tasks, Begin(t) PROVE TaskInv'
    <2>1. /\ pc[t] = "idle" /\ pc' = [pc EXCEPT ![t] = "get"]
          /\ count' = [count EXCEPT ![t] = @ + 1] /\ mode' = [mode EXCEPT ![t] = "get"] /\ tmp' = tmp
          /\ index' = [index EXCEPT ![t] = 0]
      BY <1>2 DEF Begin, StartGet
    <2>2. count'[t] > 0
      BY <1>0, <2>1
    <2>3. QED
      BY <1>0, <1>1, <2>1, <2>2 DEF TaskInv, Current
  <1>3. ASSUME NEW t \in Tasks, get(t) PROVE TaskInv'
    BY <1>0, <1>1, <1>3 DEF get, CompareAndSet, TryNext, TaskInv, Current
  <1>4. ASSUME NEW t \in Tasks, Format(t) PROVE TaskInv'
    <2>1. \A u \in Tasks : u # t /\ pc[u] \in {"acquire", "copy"} => index[u] # index[t]
      BY <1>1, <1>4 DEF Format, TaskInv, Inv, Owned, Exclusive
    <2>2. /\ pc[t] = "format" /\ pc' = [pc EXCEPT ![t] = "acquire"]
          /\ tmp' = [tmp EXCEPT ![index[t]] = Current(t)] /\ UNCHANGED <<mode, index, count>>
      BY <1>4 DEF Format, bufs
    <2>3. \A u \in Tasks : u # t /\ pc[u] \in {"acquire", "copy"} => tmp'[index[u]] = tmp[index[u]]
      BY <1>0, <2>1, <2>2
    <2>4. tmp'[index[t]] = Current(t)
      BY <1>0, <2>2
    <2>5. QED
      BY <1>0, <1>1, <2>2, <2>3, <2>4 DEF TaskInv, Current
  <1>5. ASSUME NEW t \in Tasks, SendAcquire(t) PROVE TaskInv'
    BY <1>0, <1>1, <1>5 DEF SendAcquire, bufs, TaskInv, Current
  <1>6. ASSUME NEW t \in Tasks, Copy(t) \/ SendComplete(t) PROVE TaskInv'
    BY <1>0, <1>1, <1>6 DEF Copy, SendComplete, bufs, TaskInv, Current
  <1>7. ASSUME NEW t \in Tasks, Release(t) PROVE TaskInv'
    BY <1>0, <1>1, <1>7 DEF Release, release, TaskInv, Current
  <1>8. CASE UNCHANGED producer
    BY <1>1, <1>8 DEF producer, bufs, TaskInv, Current
  <1>9. QED
    BY <1>2, <1>3, <1>4, <1>5, <1>6, <1>7, <1>8, OthersStep DEF Producer

-----------------------------------------------------------------------------
(* The ring buffer *)

StillOlder(m) == m[2] <= count'[m[1]] /\ (pc'[m[1]] \in Preparing => m[2] < count'[m[1]])

\* A message that was old stays old, for a task only begins newer ones.
LEMMA OlderStays ==
  ASSUME Inv, [Next]_vars, NEW m \in Messages, Older(m)
  PROVE  StillOlder(m)
  <1> USE DEF Preparing, Goto
  <1>0. /\ pc \in [Tasks -> {"idle", "get", "format", "acquire", "copy", "release", "giveUp", "complete"}]
        /\ count \in [Tasks -> 0..MaxMsgs] /\ m[1] \in Tasks /\ m[2] \in Nat
    BY MessageFacts DEF Inv, TypeInv, LoggingTypeOK
  <1>1. ASSUME NEW t \in Tasks, Begin(t) PROVE StillOlder(m)
    BY <1>0, <1>1 DEF Begin, Older, StillOlder
  <1>2. ASSUME NEW t \in Tasks, Producer(t) PROVE StillOlder(m)
    BY <1>0, <1>2 DEF Producer, get, Format, SendAcquire, Copy, Release, SendComplete, Older, StillOlder
  <1>3. CASE UNCHANGED producer
    BY <1>3 DEF producer, Older, StillOlder
  <1>4. QED
    BY <1>1, <1>2, <1>3, OthersStep

LEMMA RingFacts ==
  ASSUME Inv
  PROVE  /\ DOMAIN ring = 1..Len(ring) /\ Len(ring) \in Nat
         /\ \A i \in 1..Len(ring) :
              /\ ring[i].by \in Messages /\ ring[i].by[1] \in Tasks /\ Older(ring[i].by)
              /\ ring[i].sent \/ (pc[ring[i].by[1]] \in Sending /\ ring[i].by = Current(ring[i].by[1]))
              /\ ring[i].sent \/ pc[ring[i].by[1]] # "copy" => ring[i].body = ring[i].by
         /\ \A t \in Tasks : pc[t] \in Sending =>
              \E i \in 1..Len(ring) : ring[i].by = Current(t) /\ ~ring[i].sent
         /\ \A i, j \in 1..Len(ring) : i < j => Before(ring[i].by, ring[j].by)
  <1>1. DOMAIN ring = 1..Len(ring) /\ Len(ring) \in Nat
    BY SeqFacts DEF Inv, TypeInv
  <1>2. \A i \in 1..Len(ring) : ring[i].by \in Messages /\ ring[i].by[1] \in Tasks
    BY HandFacts, MessageFacts
  <1>3. QED
    BY <1>1, <1>2 DEF Inv, RingInv

\* The ring buffer stays, and so do the tasks that are sending.
LEMMA RingStays ==
  ASSUME Inv, [Next]_vars, ring' = ring,
         \A u \in Tasks :
           /\ pc'[u] \in Sending <=> pc[u] \in Sending
           /\ pc'[u] = "copy" <=> pc[u] = "copy"
           /\ pc[u] \in Sending => count'[u] = count[u]
  PROVE  RingInv'
  <1>1. \A i \in 1..Len(ring) : StillOlder(ring[i].by)
    BY RingFacts, OlderStays
  <1>2. QED
    BY <1>1, RingFacts DEF RingInv, Current, Older, StillOlder

LEMMA RingProducer ==
  ASSUME Inv, [Next]_vars, NEW t \in Tasks, Begin(t) \/ Producer(t)
  PROVE  RingInv'
  <1> USE DEF Goto
  <1>0. /\ pc \in [Tasks -> {"idle", "get", "format", "acquire", "copy", "release", "giveUp", "complete"}]
        /\ count \in [Tasks -> 0..MaxMsgs]
    BY DEF Inv, TypeInv, LoggingTypeOK
  <1>1. pc[t] # "idle" => Current(t) \in Messages
    BY <1>0, MessageFacts DEF Current, Inv, TaskInv
  <1>2. \A m \in Messages : Older(m) => StillOlder(m)
    BY OlderStays
  <1>3. CASE Begin(t) \/ get(t) \/ Format(t)
    BY <1>0, <1>3, RingStays DEF Begin, get, Format, Sending
  <1>4. CASE SendAcquire(t)
    <2> DEFINE e == [by |-> Current(t), body |-> Nothing, sent |-> FALSE]
    <2>1. CASE ring' = ring /\ pc' = [pc EXCEPT ![t] = "giveUp"]
      BY <1>0, <1>4, <2>1, RingStays DEF SendAcquire, Sending
    <2>2. CASE ring' = Append(ring, e) /\ pc' = [pc EXCEPT ![t] = "copy"]
      <3>1. e \in Item /\ e.by = Current(t) /\ e.sent = FALSE /\ pc[t] = "acquire" /\ count' = count
        BY <1>1, <1>4 DEF SendAcquire, Item
      <3> HIDE DEF e
      <3>2. /\ ring' \in Seq(Item) /\ Len(ring') = Len(ring) + 1
            /\ \A i \in 1..Len(ring) : ring'[i] = ring[i]
            /\ ring'[Len(ring) + 1] = e
        <4>1. ring \in Seq(Item)
          BY DEF Inv, TypeInv
        <4>2. QED
          BY <2>2, <3>1, <4>1, AppendFacts
      <3>3. DOMAIN ring' = 1..(Len(ring) + 1) /\ Len(ring) \in Nat
        BY <3>2, RingFacts, SeqFacts
      <3>4. Current(t)[1] = t /\ Current(t)[2] = count[t] /\ count[t] \in Nat /\ <<t, count'[t]>> = Current(t)
        BY <1>0, <3>1 DEF Current
      <3>5. StillOlder(Current(t)) /\ pc'[t] \in Sending /\ pc'[t] = "copy"
        BY <1>0, <2>2, <3>1, <3>4 DEF StillOlder, Preparing, Sending
      <3>6. \A i \in 1..Len(ring) : Before(ring[i].by, Current(t))
        BY <1>0, <3>1, <3>4, RingFacts DEF Before, Older, Preparing
      <3>7. \A i \in 1..Len(ring) :
              LET u == ring[i].by[1]
              IN  /\ ring[i].sent \/ (pc'[u] \in Sending /\ ring[i].by = <<u, count'[u]>>)
                  /\ ring[i].sent \/ pc'[u] # "copy" => ring[i].body = ring[i].by
                  /\ StillOlder(ring[i].by)
        <4> TAKE i \in 1..Len(ring)
        <4>1. ring[i].by \in Messages /\ ring[i].by[1] \in Tasks /\ StillOlder(ring[i].by)
          BY <1>2, RingFacts
        <4>2. CASE ring[i].sent
          BY <4>1, <4>2, RingFacts
        <4>3. CASE ~ring[i].sent
          <5>1. pc[ring[i].by[1]] \in Sending /\ ring[i].by[1] # t /\ ring[i].by = Current(ring[i].by[1])
            BY <3>1, <4>3, RingFacts DEF Sending
          <5>2. pc'[ring[i].by[1]] = pc[ring[i].by[1]] /\ count'[ring[i].by[1]] = count[ring[i].by[1]]
            BY <1>0, <2>2, <3>1, <4>1, <5>1 DEF Current
          <5>3. QED
            BY <4>1, <4>3, <5>1, <5>2, RingFacts DEF Current
        <4>4. QED
          BY <4>2, <4>3
      <3>8. \A u \in Tasks : pc'[u] \in Sending =>
              \E i \in 1..(Len(ring) + 1) : ring'[i].by = <<u, count'[u]>> /\ ~ring'[i].sent
        <4> TAKE u \in Tasks
        <4> HAVE pc'[u] \in Sending
        <4>1. CASE u = t
          BY <3>1, <3>2, <3>3, <3>4, <4>1
        <4>2. CASE u # t
          <5>1. pc[u] \in Sending /\ <<u, count'[u]>> = Current(u)
            BY <1>0, <2>2, <3>1, <4>2 DEF Current
          <5>2. PICK i \in 1..Len(ring) : ring[i].by = Current(u) /\ ~ring[i].sent
            BY <5>1, RingFacts
          <5>3. QED
            BY <3>2, <3>3, <5>1, <5>2
        <4>3. QED
          BY <4>1, <4>2
      <3>9. \A i, j \in 1..(Len(ring) + 1) : i < j => Before(ring'[i].by, ring'[j].by)
        <4> TAKE i, j \in 1..(Len(ring) + 1)
        <4> HAVE i < j
        <4>1. i \in 1..Len(ring) /\ (j \in 1..Len(ring) \/ j = Len(ring) + 1)
          BY <3>3
        <4>2. QED
          BY <3>1, <3>2, <3>6, <4>1, RingFacts
      <3>10. \A i \in 1..(Len(ring) + 1) :
               LET u == ring'[i].by[1]
               IN  /\ ring'[i].sent \/ (pc'[u] \in Sending /\ ring'[i].by = <<u, count'[u]>>)
                   /\ ring'[i].sent \/ pc'[u] # "copy" => ring'[i].body = ring'[i].by
                   /\ StillOlder(ring'[i].by)
        <4> TAKE i \in 1..(Len(ring) + 1)
        <4>1. i \in 1..Len(ring) \/ i = Len(ring) + 1
          BY <3>3
        <4>2. CASE i \in 1..Len(ring)
          BY <3>2, <3>7, <4>2
        <4>3. CASE i = Len(ring) + 1
          BY <3>1, <3>2, <3>4, <3>5, <4>3 DEF Nothing
        <4>4. QED
          BY <4>1, <4>2, <4>3
      <3>11. QED
        BY <3>3, <3>8, <3>9, <3>10 DEF RingInv, Older, StillOlder, Current
    <2>3. QED
      BY <1>4, <2>1, <2>2 DEF SendAcquire
  <1>5. CASE Copy(t)
    <2>1. pc[t] = "copy" /\ pc' = [pc EXCEPT ![t] = "release"] /\ UNCHANGED <<count, bufs>>
      BY <1>5 DEF Copy
    <2>2. tmp[index[t]] = Current(t) /\ Current(t) \in Messages
      BY <1>1, <2>1 DEF Inv, TaskInv
    <2>3. /\ ring' \in Seq(Item) /\ Len(ring') = Len(ring)
          /\ \A i \in 1..Len(ring) :
               /\ ring'[i].by = ring[i].by /\ ring'[i].sent = ring[i].sent
               /\ ring'[i].body = IF i = ItemOf(t) THEN Current(t) ELSE ring[i].body
      BY <1>5, <2>1, <2>2, CopyFacts DEF Copy, Sending
    <2>4. DOMAIN ring' = 1..Len(ring)
      BY <2>3, SeqFacts
    <2>5. /\ ring[ItemOf(t)].by = Current(t)
          /\ \A i \in 1..Len(ring) : ring[i].by = Current(t) => i = ItemOf(t)
      BY <2>1, ItemFacts DEF Sending
    <2>6. \A i \in 1..Len(ring) :
            LET u == ring[i].by[1]
            IN  /\ ring'[i].sent \/ (pc'[u] \in Sending /\ ring[i].by = <<u, count'[u]>>)
                /\ ring'[i].sent \/ pc'[u] # "copy" => ring'[i].body = ring[i].by
                /\ StillOlder(ring[i].by)
      <3> TAKE i \in 1..Len(ring)
      <3>1. ring[i].by \in Messages /\ ring[i].by[1] \in Tasks /\ StillOlder(ring[i].by)
        BY <1>2, RingFacts
      <3>2. CASE i = ItemOf(t)
        BY <1>0, <2>1, <2>3, <2>5, <3>1, <3>2 DEF Current, Sending
      <3>3. CASE i # ItemOf(t)
        <4>1. ring[i].sent \/ ring[i].by[1] # t
          BY <2>5, <3>3, RingFacts
        <4>2. QED
          BY <1>0, <2>1, <2>3, <3>1, <3>3, <4>1, RingFacts DEF Current, Sending
      <3>4. QED
        BY <3>2, <3>3
    <2>7. \A u \in Tasks : pc'[u] \in Sending =>
            \E i \in 1..Len(ring) : ring'[i].by = <<u, count'[u]>> /\ ~ring'[i].sent
      BY <1>0, <2>1, <2>3, RingFacts DEF Current, Sending
    <2>8. QED
      BY <2>3, <2>4, <2>6, <2>7, RingFacts DEF RingInv, Older, StillOlder, Current
  <1>6. CASE Release(t)
    BY <1>0, <1>6, RingStays DEF Release, release, Sending
  <1>7. CASE SendComplete(t)
    <2>1. pc[t] = "complete" /\ pc' = [pc EXCEPT ![t] = "idle"] /\ UNCHANGED <<count, bufs>>
      BY <1>7 DEF SendComplete
    <2>2. /\ ring' \in Seq(Item) /\ Len(ring') = Len(ring)
          /\ \A i \in 1..Len(ring) :
               /\ ring'[i].by = ring[i].by /\ ring'[i].body = ring[i].body
               /\ ring'[i].sent = IF i = ItemOf(t) THEN TRUE ELSE ring[i].sent
      BY <1>7, <2>1, CompleteFacts DEF SendComplete, Sending
    <2>3. DOMAIN ring' = 1..Len(ring)
      BY <2>2, SeqFacts
    <2>4. /\ ring[ItemOf(t)].by = Current(t)
          /\ \A i \in 1..Len(ring) : ring[i].by = Current(t) => i = ItemOf(t)
      BY <2>1, ItemFacts DEF Sending
    <2>5. \A i \in 1..Len(ring) :
            LET u == ring[i].by[1]
            IN  /\ ring'[i].sent \/ (pc'[u] \in Sending /\ ring[i].by = <<u, count'[u]>>)
                /\ ring'[i].sent \/ pc'[u] # "copy" => ring'[i].body = ring[i].by
                /\ StillOlder(ring[i].by)
      <3> TAKE i \in 1..Len(ring)
      <3>1. ring[i].by \in Messages /\ ring[i].by[1] \in Tasks /\ StillOlder(ring[i].by)
        BY <1>2, RingFacts
      <3>2. CASE i = ItemOf(t)
        <4>1. ring[i].by[1] = t /\ ring[i].body = ring[i].by
          BY <2>1, <2>4, <3>2, RingFacts DEF Current
        <4>2. QED
          BY <2>2, <3>1, <3>2, <4>1
      <3>3. CASE i # ItemOf(t)
        <4>1. ring[i].sent \/ ring[i].by[1] # t
          BY <2>4, <3>3, RingFacts
        <4>2. QED
          BY <1>0, <2>1, <2>2, <3>1, <3>3, <4>1, RingFacts DEF Current, Sending
      <3>4. QED
        BY <3>2, <3>3
    <2>6. \A u \in Tasks : pc'[u] \in Sending =>
            \E i \in 1..Len(ring) : ring'[i].by = <<u, count'[u]>> /\ ~ring'[i].sent
      <3> TAKE u \in Tasks
      <3> HAVE pc'[u] \in Sending
      <3>1. u # t /\ pc[u] \in Sending /\ <<u, count'[u]>> = Current(u)
        BY <1>0, <2>1 DEF Current, Sending
      <3>2. PICK i \in 1..Len(ring) : ring[i].by = Current(u) /\ ~ring[i].sent
        BY <3>1, RingFacts
      <3>3. i # ItemOf(t)
        BY <2>4, <3>1, <3>2 DEF Current
      <3>4. QED
        BY <2>2, <3>1, <3>2, <3>3
    <2>7. QED
      BY <2>2, <2>3, <2>5, <2>6, RingFacts DEF RingInv, Older, StillOlder, Current
  <1>8. QED
    BY <1>3, <1>4, <1>5, <1>6, <1>7 DEF Producer

LEMMA RingNext ==
  ASSUME Inv, [Next]_vars
  PROVE  RingInv'
  <1>1. ASSUME NEW t \in Tasks, Begin(t) \/ Producer(t) PROVE RingInv'
    BY <1>1, RingProducer
  <1>2. CASE ~(\E t \in Tasks : Begin(t) \/ Producer(t)) /\ ring' = ring
    <2>1. UNCHANGED <<pc, count>>
      BY <1>2, OthersStep DEF producer
    <2>2. QED
      BY <1>2, <2>1, RingStays
  <1>3. CASE ReturnItem
    <2>1. UNCHANGED <<pc, count>> /\ ring' = Tail(ring)
      BY <1>3 DEF ReturnItem, producer
    <2>2. /\ ring' \in Seq(Item) /\ Len(ring') = Len(ring) - 1 /\ Len(ring) \in Nat
          /\ \A i \in 1..(Len(ring) - 1) : ring'[i] = ring[i + 1]
      <3>1. ring \in Seq(Item) /\ ring # <<>>
        BY <1>3, HandFacts, SeqFacts DEF ReturnItem, Inv, TypeInv
      <3>2. QED
        BY <2>1, <3>1, TailFacts, SeqFacts
    <2>3. DOMAIN ring' = 1..(Len(ring) - 1)
      BY <2>2, SeqFacts
    <2>4. \A i \in 1..Len(ring) : StillOlder(ring[i].by)
      BY RingFacts, OlderStays
    <2>5. \A u \in Tasks : pc[u] \in Sending =>
            \E i \in 1..(Len(ring) - 1) : ring[i + 1].by = Current(u) /\ ~ring[i + 1].sent
      <3> TAKE u \in Tasks
      <3> HAVE pc[u] \in Sending
      <3>1. PICK i \in 1..Len(ring) : ring[i].by = Current(u) /\ ~ring[i].sent
        BY RingFacts
      <3>2. i # 1
        BY <1>3, <3>1, HandFacts DEF ReturnItem
      <3>3. i - 1 \in 1..(Len(ring) - 1) /\ (i - 1) + 1 = i
        BY <2>2, <3>2
      <3>4. QED
        BY <3>1, <3>3
    <2>6. \A i \in 1..(Len(ring) - 1) : i + 1 \in 1..Len(ring)
      BY <2>2
    <2>7. \A i, j \in 1..(Len(ring) - 1) : i < j => Before(ring[i + 1].by, ring[j + 1].by)
      BY <2>2, <2>6, RingFacts
    <2>8. \A i \in 1..(Len(ring) - 1) :
            LET u == ring'[i].by[1]
            IN  /\ ring'[i].sent \/ (pc'[u] \in Sending /\ ring'[i].by = <<u, count'[u]>>)
                /\ ring'[i].sent \/ pc'[u] # "copy" => ring'[i].body = ring'[i].by
                /\ StillOlder(ring'[i].by)
      <3> TAKE i \in 1..(Len(ring) - 1)
      <3>1. ring'[i] = ring[i + 1] /\ i + 1 \in 1..Len(ring)
        BY <2>2, <2>6
      <3>2. QED
        BY <2>1, <2>4, <3>1, RingFacts DEF Current
    <2>9. \A u \in Tasks : pc'[u] \in Sending =>
            \E i \in 1..(Len(ring) - 1) : ring'[i].by = <<u, count'[u]>> /\ ~ring'[i].sent
      BY <2>1, <2>2, <2>5 DEF Current
    <2>10. \A i, j \in 1..(Len(ring) - 1) : i < j => Before(ring'[i].by, ring'[j].by)
      BY <2>2, <2>7
    <2>11. QED
      BY <2>3, <2>8, <2>9, <2>10 DEF RingInv, Older, StillOlder, Current
  <1>4. QED
    <2>1. ring' = ring \/ ReturnItem \/ \E t \in Tasks : Begin(t) \/ Producer(t)
      BY DEF Next, rotate, logWriter, Receive, WriteToDisk, DropOldest, SaveForLater, ReturnItem,
         RotateWhenIdle, initDiskLog, InitLogfile, SwitchToDisk, ReceiveEarly, LogEarly, DeleteEarly,
         BootVars, vars
    <2>2. QED
      BY <1>1, <1>2, <1>3, <2>1

-----------------------------------------------------------------------------
(* The writer *)

LEMMA WriterNext ==
  ASSUME Inv, [Next]_vars
  PROVE  WriterInv'
  <1> USE DEF WriterInv
  <1>0. WriterInv
    BY DEF Inv
  <1>1. CASE UNCHANGED <<ring, writerVars, boot, drained, logToDisk>>
    BY <1>0, <1>1 DEF writerVars
  <1>2. ASSUME NEW t \in Tasks, SendAcquire(t) \/ Copy(t) \/ SendComplete(t) PROVE WriterInv'
    <2>1. UNCHANGED <<writerVars, booting>>
      BY <1>2 DEF SendAcquire, Copy, SendComplete
    <2>2. writer # "receive" => ring' # <<>> /\ ring'[1].sent /\ ring'[1].body = ring[1].body
      <3> HAVE writer # "receive"
      <3>1. 1 \in 1..Len(ring) /\ Len(ring) > 0 /\ ring[1].sent /\ ring \in Seq(Item) /\ Len(ring) \in Nat
        BY HandFacts, SeqFacts DEF Inv, TypeInv
      <3>2. CASE SendAcquire(t)
        <4>1. pc[t] # "idle"
          BY <3>2 DEF SendAcquire
        <4>2. [by |-> Current(t), body |-> Nothing, sent |-> FALSE] \in Item
          BY <4>1, MessageFacts DEF Current, Item, Inv, TaskInv, TypeInv, LoggingTypeOK
        <4>3. \/ ring' = ring
              \/ ring' = Append(ring, [by |-> Current(t), body |-> Nothing, sent |-> FALSE])
          BY <3>2 DEF SendAcquire
        <4>4. ring' \in Seq(Item) /\ Len(ring') >= Len(ring) /\ ring'[1] = ring[1]
          BY <3>1, <4>2, <4>3, AppendFacts
        <4>5. QED
          BY <3>1, <4>4, SeqFacts
      <3>3. CASE Copy(t)
        <4>1. pc[t] = "copy" /\ Current(t) \in Messages /\ tmp[index[t]] = Current(t)
          <5>1. pc[t] = "copy"
            BY <3>3 DEF Copy
          <5>2. tmp[index[t]] = Current(t)
            BY <5>1 DEF Inv, TaskInv
          <5>3. QED
            BY <5>1, <5>2, UnderWayFacts
        <4>2. /\ ring' \in Seq(Item) /\ Len(ring') = Len(ring)
              /\ ring'[1].sent = ring[1].sent
              /\ ring'[1].body = IF 1 = ItemOf(t) THEN Current(t) ELSE ring[1].body
          BY <3>1, <3>3, <4>1, CopyFacts DEF Copy, Sending
        <4>3. 1 # ItemOf(t)
          BY <3>1, <4>1, ItemFacts DEF Sending
        <4>4. QED
          BY <3>1, <4>2, <4>3, SeqFacts
      <3>4. CASE SendComplete(t)
        <4>1. /\ ring' \in Seq(Item) /\ Len(ring') = Len(ring)
              /\ ring'[1].sent = (IF 1 = ItemOf(t) THEN TRUE ELSE ring[1].sent)
              /\ ring'[1].body = ring[1].body
          BY <3>1, <3>4, CompleteFacts DEF SendComplete, Sending
        <4>2. QED
          BY <3>1, <4>1, SeqFacts
      <3>5. QED
        BY <1>2, <3>2, <3>3, <3>4
    <2>3. QED
      BY <1>0, <2>1, <2>2 DEF writerVars, booting
  <1>3. CASE Receive
    BY <1>0, <1>3 DEF Receive, ItemReady, booting
  <1>4. CASE WriteToDisk \/ SaveForLater
    BY <1>0, <1>4 DEF WriteToDisk, SaveForLater, booting
  <1>5. CASE ReturnItem
    BY <1>0, <1>5 DEF ReturnItem, booting
  <1>6. CASE InitLogfile \/ SwitchToDisk
    BY <1>0, <1>6 DEF InitLogfile, SwitchToDisk, BootVars, writerVars
  <1>7. CASE ReceiveEarly
    <2>1. Head(early) \in Messages
      BY <1>7, TailFacts DEF ReceiveEarly, Inv, TypeInv
    <2>2. drained' # Nothing
      BY <1>7, <2>1, MessageFacts DEF ReceiveEarly
    <2>3. QED
      BY <1>0, <1>7, <2>2 DEF ReceiveEarly, BootVars, writerVars
  <1>8. CASE LogEarly \/ DeleteEarly
    BY <1>0, <1>8 DEF LogEarly, DeleteEarly, BootVars, writerVars
  <1>9. QED
    <2>1. \/ UNCHANGED <<ring, writerVars, boot, drained, logToDisk>>
          \/ \E t \in Tasks : SendAcquire(t) \/ Copy(t) \/ SendComplete(t)
          \/ Receive \/ WriteToDisk \/ SaveForLater \/ ReturnItem
          \/ InitLogfile \/ SwitchToDisk \/ ReceiveEarly \/ LogEarly \/ DeleteEarly
      BY DEF Next, Producer, Begin, get, Format, Release, rotate, logWriter, DropOldest,
         RotateWhenIdle, initDiskLog, vars, booting
    <2>2. QED
      BY <1>1, <1>2, <1>3, <1>4, <1>5, <1>6, <1>7, <1>8, <2>1

LEMMA InvNext ==
  ASSUME Inv, [Next]_vars
  PROVE  Inv'
  <1>1. Owned'
    BY BufsStep, NextOwned DEF Inv
  <1>2. TypeInv'
    BY <1>1, TypeNext DEF Owned
  <1>3. QED
    BY <1>1, <1>2, TaskNext, RingNext, WriterNext DEF Inv

\* Whatever the tasks do and however they are interleaved, no ring buffer ever
\* holds more than it has room for, no file more than MAX_RECORDS, and nothing but
\* messages that were logged is ever sent, saved or dropped.
THEOREM LoggingTypeCorrect == Spec => []LoggingTypeOK
  <1>1. Inv => LoggingTypeOK
    BY DEF Inv, TypeInv
  <1>2. QED
    BY <1>1, InvInit, InvNext, PTL DEF Spec

-----------------------------------------------------------------------------
(***************************************************************************)
(* initDiskLog().  While it runs everything under way is in raced, and the *)
(* writer saves for later, or writes to the disk by itself, nothing but    *)
(* what belongs there or is in raced.                                      *)
(***************************************************************************)
RaceInv ==
  /\ Booting => /\ \A t \in Tasks : pc[t] # "idle" => Current(t) \in raced
                /\ \A i \in DOMAIN ring : ring[i].by \in raced
  /\ boot = "done" => \A i \in DOMAIN early : early[i] \in raced
  /\ boot \in {"no", "created"} => disk = <<>>
  /\ writer = "early" => boot = "no" \/ hand \in raced
  /\ writer = "log" => logToDisk /\ (boot = "done" \/ hand \in raced)

\* m comes before n, unless one of them was under way while initDiskLog() ran.
Aligned(m, n) == m \in raced \/ n \in raced \/ Before(m, n)

Waits(i) == i \in DOMAIN ring /\ (writer = "return" => i # 1)

OrderInv ==
  /\ \A i, j \in DOMAIN disk : i < j => Aligned(disk[i], disk[j])
  /\ \A i, j \in DOMAIN early : i < j => Aligned(early[i], early[j])
  /\ \A i \in DOMAIN disk :
       /\ Older(disk[i])
       /\ drained # Nothing => Aligned(disk[i], drained)
       /\ \A j \in DOMAIN early : Aligned(disk[i], early[j])
       /\ \A j \in DOMAIN ring : Waits(j) => Aligned(disk[i], ring[j].by)
  /\ \A i \in DOMAIN early :
       /\ Older(early[i])
       /\ drained # Nothing => Aligned(drained, early[i])
       /\ \A j \in DOMAIN ring : Waits(j) => Aligned(early[i], ring[j].by)
  /\ drained # Nothing => Older(drained)

LEMMA OrderInit == Init => RaceInv /\ OrderInv
  BY DEF Init, RaceInv, OrderInv, Booting

\* Nothing leaves raced.
LEMMA RacedGrows ==
  ASSUME [Next]_vars
  PROVE  raced \subseteq raced'
  BY DEF Next, Begin, Producer, get, Format, SendAcquire, Copy, Release, SendComplete, rotate,
     logWriter, Receive, WriteToDisk, DropOldest, SaveForLater, ReturnItem, RotateWhenIdle,
     initDiskLog, InitLogfile, SwitchToDisk, ReceiveEarly, LogEarly, DeleteEarly, vars, booting

LEMMA RaceProducer ==
  ASSUME Inv, RaceInv, NEW t \in Tasks, Begin(t) \/ Producer(t), raced \subseteq raced'
  PROVE  RaceInv'
  <1> USE DEF RaceInv, Booting, Goto
  <1>0. /\ pc \in [Tasks -> {"idle", "get", "format", "acquire", "copy", "release", "giveUp", "complete"}]
        /\ count \in [Tasks -> 0..MaxMsgs]
        /\ DOMAIN ring = 1..Len(ring) /\ Len(ring) \in Nat /\ ring \in Seq(Item)
    BY SeqFacts DEF Inv, TypeInv, LoggingTypeOK
  <1>1. UNCHANGED <<boot, logToDisk, early, disk, writer, hand>>
    BY DEF Begin, Producer, get, Format, SendAcquire, Copy, Release, SendComplete,
       writerVars, booting, file
  <1>2. ASSUME boot \in {"created", "drain", "log"}, NEW u \in Tasks, pc'[u] # "idle"
        PROVE  Current(u)' \in raced'
    BY <1>0, <1>2 DEF Begin, Producer, get, Format, SendAcquire, Copy, Release, SendComplete, Current
  <1>3. ASSUME boot \in {"created", "drain", "log"}, NEW i \in DOMAIN ring'
        PROVE  ring'[i].by \in raced'
    <2>1. CASE ring' = ring
      BY <1>3, <2>1
    <2>2. CASE /\ pc[t] = "acquire"
               /\ ring' = Append(ring, [by |-> Current(t), body |-> Nothing, sent |-> FALSE])
      <3>1. Current(t) \in raced /\ Current(t) \in Messages
        BY <1>3, <2>2, UnderWayFacts
      <3>2. [by |-> Current(t), body |-> Nothing, sent |-> FALSE] \in Item
        BY <3>1 DEF Item
      <3>3. /\ ring' \in Seq(Item) /\ Len(ring') = Len(ring) + 1
            /\ \A k \in 1..Len(ring) : ring'[k] = ring[k]
            /\ ring'[Len(ring) + 1].by = Current(t)
        BY <1>0, <2>2, <3>2, AppendFacts
      <3>4. i \in 1..Len(ring) \/ i = Len(ring) + 1
        BY <1>0, <1>3, <3>3, SeqFacts
      <3>5. QED
        BY <1>0, <1>3, <3>1, <3>3, <3>4
    <2>3. CASE Copy(t) \/ SendComplete(t)
      <3>1. pc[t] \in Sending /\ pc[t] \in {"copy", "complete"}
        BY <2>3 DEF Copy, SendComplete, Sending
      <3>2. Len(ring') = Len(ring) /\ ring' \in Seq(Item) /\ \A k \in 1..Len(ring) : ring'[k].by = ring[k].by
        <4>1. CASE Copy(t)
          <5>1. Current(t) \in Messages /\ tmp[index[t]] = Current(t)
            BY <4>1, UnderWayFacts DEF Copy, Inv, TaskInv
          <5>2. QED
            BY <4>1, <5>1, CopyFacts DEF Copy, Sending
        <4>2. CASE SendComplete(t)
          BY <4>2, CompleteFacts DEF SendComplete, Sending
        <4>3. QED
          BY <2>3, <4>1, <4>2
      <3>3. QED
        BY <1>0, <1>3, <3>2, SeqFacts
    <2>4. QED
      BY <2>1, <2>2, <2>3 DEF Begin, Producer, get, Format, SendAcquire, Release
  <1>4. QED
    BY <1>1, <1>2, <1>3

LEMMA RaceNext ==
  ASSUME Inv, RaceInv, [Next]_vars
  PROVE  RaceInv'
  <1> USE DEF RaceInv, Booting
  <1>0. /\ boot \in {"no", "created", "drain", "log", "done"} /\ raced \subseteq raced'
        /\ early \in Seq(Messages) /\ ring \in Seq(Item)
        /\ DOMAIN ring = 1..Len(ring) /\ Len(ring) \in Nat /\ DOMAIN early = 1..Len(early)
    BY RacedGrows, SeqFacts DEF Inv, TypeInv, LoggingTypeOK
  <1>1. ASSUME NEW t \in Tasks, Begin(t) \/ Producer(t) PROVE RaceInv'
    BY <1>0, <1>1, RaceProducer
  <1>2. CASE rotate \/ RotateWhenIdle \/ UNCHANGED vars
    BY <1>2 DEF rotate, RotateWhenIdle, vars, producer, writerVars, booting, file, Current
  <1>3. CASE Receive
    <2>1. hand' = ring[1].by /\ 1 \in DOMAIN ring /\ writer' = IF logToDisk THEN "log" ELSE "early"
      <3>1. 1 \in 1..Len(ring) /\ ring[1].sent
        BY <1>0, <1>3, SeqFacts DEF Receive, ItemReady
      <3>2. QED
        BY <1>0, <1>3, <3>1, HandFacts DEF Receive
    <2>2. UNCHANGED <<boot, logToDisk, raced, early, disk, ring, pc, count>>
      BY <1>3 DEF Receive, booting, file, producer
    <2>3. logToDisk <=> boot \in {"drain", "log", "done"}
      BY DEF Inv, WriterInv
    <2>4. QED
      BY <1>0, <2>1, <2>2, <2>3 DEF Current
  <1>4. CASE WriteToDisk
    <2>1. writer = "log" /\ writer' = "return" /\ UNCHANGED <<boot, logToDisk, raced, early, ring, pc, count>>
      BY <1>4 DEF WriteToDisk, booting, producer
    <2>2. boot \notin {"no", "created"}
      BY <2>1 DEF Inv, WriterInv
    <2>3. QED
      BY <2>1, <2>2 DEF Current
  <1>5. CASE DropOldest
    <2>1. early # <<>>
      BY <1>0, <1>5, SeqFacts, LoggingAssumption DEF DropOldest
    <2>2. early' = Tail(early) /\ UNCHANGED <<boot, logToDisk, raced, disk, ring, writer, hand, pc, count>>
      BY <1>5 DEF DropOldest, booting, producer, writerVars, file
    <2>3. \A i \in DOMAIN early' : i + 1 \in DOMAIN early /\ early'[i] = early[i + 1]
      BY <1>0, <2>1, <2>2, TailFacts, SeqFacts
    <2>4. QED
      BY <2>2, <2>3 DEF Current
  <1>6. CASE SaveForLater
    <2>1. /\ writer = "early" /\ writer' = "return" /\ early' = Append(early, hand)
          /\ UNCHANGED <<boot, logToDisk, raced, disk, ring, pc, count>>
      BY <1>6 DEF SaveForLater, booting, producer, file
    <2>2. hand \in Messages
      BY <2>1, HandFacts
    <2>3. \A i \in DOMAIN early' : (i \in DOMAIN early /\ early'[i] = early[i]) \/ early'[i] = hand
      BY <1>0, <2>1, <2>2, AppendFacts, SeqFacts
    <2>4. QED
      BY <2>1, <2>3 DEF Current
  <1>7. CASE ReturnItem
    <2>1. ring # <<>>
      BY <1>0, <1>7, HandFacts, SeqFacts DEF ReturnItem
    <2>2. /\ ring' = Tail(ring) /\ writer' = "receive"
          /\ UNCHANGED <<boot, logToDisk, raced, early, disk, pc, count>>
      BY <1>7 DEF ReturnItem, booting, producer, file
    <2>3. \A i \in DOMAIN ring' : i + 1 \in DOMAIN ring /\ ring'[i] = ring[i + 1]
      BY <1>0, <2>1, <2>2, TailFacts, SeqFacts
    <2>4. QED
      BY <2>2, <2>3 DEF Current
  <1>8. CASE InitLogfile
    <2>1. /\ boot = "no" /\ boot' = "created" /\ UnderWay \subseteq raced'
          /\ UNCHANGED <<logToDisk, early, disk, ring, writer, hand, pc, count>>
      BY <1>8 DEF InitLogfile, BootVars, producer, writerVars
    <2>2. writer = "early" => hand \in UnderWay
      BY <1>0, HandFacts, UnderWayFacts
    <2>3. writer # "log"
      BY <2>1 DEF Inv, WriterInv
    <2>4. QED
      BY <2>1, <2>2, <2>3, UnderWayFacts DEF Current
  <1>9. CASE SwitchToDisk \/ LogEarly
    <2>1. /\ boot \in {"created", "drain", "log"} /\ boot' = "drain" /\ (logToDisk => logToDisk')
          /\ UNCHANGED <<raced, early, ring, writer, hand, pc, count>>
      BY <1>9 DEF SwitchToDisk, LogEarly, BootVars, producer, writerVars
    <2>2. QED
      BY <2>1 DEF Current
  <1>10. CASE ReceiveEarly
    <2>1. /\ boot = "drain" /\ boot' = "log"
          /\ UNCHANGED <<logToDisk, raced, ring, writer, hand, pc, count>>
      BY <1>10 DEF ReceiveEarly, BootVars, producer, writerVars
    <2>2. QED
      BY <2>1 DEF Current
  <1>11. CASE DeleteEarly
    <2>1. /\ boot = "drain" /\ boot' = "done" /\ early = <<>> /\ early' = early
          /\ UNCHANGED <<logToDisk, raced, ring, writer, hand, pc, count>>
      BY <1>11 DEF DeleteEarly, BootVars, producer, writerVars
    <2>2. QED
      BY <2>1 DEF Current
  <1>12. QED
    BY <1>1, <1>2, <1>3, <1>4, <1>5, <1>6, <1>7, <1>8, <1>9, <1>10, <1>11
       DEF Next, logWriter, initDiskLog

LEMMA OrderFacts ==
  ASSUME Inv, OrderInv
  PROVE  /\ DOMAIN disk = 1..Len(disk) /\ Len(disk) \in Nat /\ disk \in Seq(Messages)
         /\ DOMAIN early = 1..Len(early) /\ Len(early) \in Nat /\ early \in Seq(Messages)
         /\ DOMAIN ring = 1..Len(ring) /\ Len(ring) \in Nat /\ ring \in Seq(Item)
         /\ \A i \in 1..Len(disk) : disk[i] \in Messages /\ Older(disk[i])
         /\ \A i \in 1..Len(early) : early[i] \in Messages /\ Older(early[i])
         /\ drained # Nothing => drained \in Messages /\ Older(drained)
  <1>1. disk \in Seq(Messages) /\ early \in Seq(Messages) /\ ring \in Seq(Item)
    BY DEF Inv, TypeInv
  <1>2. drained \in Messages \cup {Nothing}
    BY DEF Inv, TypeInv
  <1>3. /\ DOMAIN disk = 1..Len(disk) /\ Len(disk) \in Nat
        /\ DOMAIN early = 1..Len(early) /\ Len(early) \in Nat
        /\ DOMAIN ring = 1..Len(ring) /\ Len(ring) \in Nat
    BY <1>1, SeqFacts
  <1>4. QED
    BY <1>1, <1>2, <1>3 DEF OrderInv

\* What is on its way from the ring buffer to the disk stays as it is.
LEMMA OrderStays ==
  ASSUME Inv, OrderInv, [Next]_vars, UNCHANGED <<disk, early, drained>>,
         ring' \in Seq(Item), Len(ring') = Len(ring),
         \A i \in 1..Len(ring) : ring'[i].by = ring[i].by,
         writer' = "return" <=> writer = "return"
  PROVE  OrderInv'
  <1>1. /\ \A i \in 1..Len(disk) : StillOlder(disk[i])
        /\ \A i \in 1..Len(early) : StillOlder(early[i])
        /\ drained # Nothing => StillOlder(drained)
    BY OrderFacts, OlderStays
  <1>2. DOMAIN ring' = 1..Len(ring)
    BY SeqFacts
  <1>3. \A j \in DOMAIN ring : Waits(j)' => Waits(j)
    BY <1>2, OrderFacts DEF Waits
  <1>4. raced \subseteq raced'
    BY RacedGrows
  <1>5. QED
    BY <1>1, <1>2, <1>3, <1>4, OrderFacts DEF OrderInv, Older, StillOlder, Aligned

LEMMA CurrentFacts ==
  ASSUME Inv, NEW t \in Tasks, pc[t] # "idle"
  PROVE  /\ Current(t) \in Messages /\ Current(t)[1] = t /\ Current(t)[2] = count[t]
         /\ count[t] \in Nat
         /\ pc[t] \in {"acquire", "copy"} => tmp[index[t]] = Current(t)
  <1>1. count[t] \in 1..MaxMsgs
    BY LoggingAssumption DEF Inv, TaskInv, TypeInv, LoggingTypeOK
  <1>2. QED
    BY <1>1, MessageFacts, LoggingAssumption DEF Current, Inv, TaskInv

LEMMA OrderProducer ==
  ASSUME Inv, OrderInv, [Next]_vars, NEW t \in Tasks, Begin(t) \/ Producer(t)
  PROVE  OrderInv'
  <1>0. UNCHANGED <<disk, early, drained, writer>>
    BY DEF Begin, Producer, get, Format, SendAcquire, Copy, Release, SendComplete,
       writerVars, booting, file
  <1>1. CASE ring' = ring
    BY <1>0, <1>1, OrderStays, OrderFacts
  <1>2. CASE Copy(t)
    <2>1. pc[t] = "copy" /\ Current(t) \in Messages /\ tmp[index[t]] = Current(t)
      BY <1>2, CurrentFacts DEF Copy
    <2>2. ring' \in Seq(Item) /\ Len(ring') = Len(ring) /\ \A i \in 1..Len(ring) : ring'[i].by = ring[i].by
      BY <1>2, <2>1, CopyFacts DEF Copy, Sending
    <2>3. QED
      BY <1>0, <2>2, OrderStays
  <1>3. CASE SendComplete(t)
    <2>1. ring' \in Seq(Item) /\ Len(ring') = Len(ring) /\ \A i \in 1..Len(ring) : ring'[i].by = ring[i].by
      BY <1>3, CompleteFacts DEF SendComplete, Sending
    <2>2. QED
      BY <1>0, <2>1, OrderStays
  <1>4. CASE /\ pc[t] = "acquire"
             /\ ring' = Append(ring, [by |-> Current(t), body |-> Nothing, sent |-> FALSE])
    <2>1. Current(t) \in Messages /\ Current(t)[1] = t /\ Current(t)[2] = count[t] /\ count[t] \in Nat
      BY <1>4, CurrentFacts
    <2>2. [by |-> Current(t), body |-> Nothing, sent |-> FALSE] \in Item
      BY <2>1 DEF Item
    <2>3. /\ ring' \in Seq(Item) /\ Len(ring') = Len(ring) + 1
          /\ \A i \in 1..Len(ring) : ring'[i] = ring[i]
          /\ ring'[Len(ring) + 1].by = Current(t)
      BY <1>4, <2>2, OrderFacts, AppendFacts
    <2>4. DOMAIN ring' = 1..(Len(ring) + 1)
      BY <2>3, SeqFacts
    <2>5. \A m \in Messages : Older(m) => Aligned(m, Current(t))
      BY <1>4, <2>1, MessageFacts DEF Older, Before, Aligned, Preparing
    <2>6. /\ \A i \in 1..Len(disk) : StillOlder(disk[i])
          /\ \A i \in 1..Len(early) : StillOlder(early[i])
          /\ drained # Nothing => StillOlder(drained)
      BY OrderFacts, OlderStays
    <2>7. ASSUME NEW j \in 1..(Len(ring) + 1), Waits(j)'
          PROVE  /\ \A i \in 1..Len(disk) : Aligned(disk[i], ring'[j].by)
                 /\ \A i \in 1..Len(early) : Aligned(early[i], ring'[j].by)
      <3>1. CASE j \in 1..Len(ring)
        <4>1. Waits(j) /\ ring'[j] = ring[j]
          BY <1>0, <2>3, <2>7, <3>1, OrderFacts DEF Waits
        <4>2. QED
          BY <3>1, <4>1, OrderFacts DEF OrderInv
      <3>2. CASE j = Len(ring) + 1
        BY <2>3, <2>5, <3>2, OrderFacts
      <3>3. QED
        BY <3>1, <3>2, OrderFacts
    <2>8. /\ \A i \in 1..Len(disk), j \in 1..(Len(ring) + 1) : Waits(j)' => Aligned(disk[i], ring'[j].by)
          /\ \A i \in 1..Len(early), j \in 1..(Len(ring) + 1) : Waits(j)' => Aligned(early[i], ring'[j].by)
      BY <2>7
    <2>9. raced \subseteq raced'
      BY RacedGrows
    <2>10. QED
      BY <1>0, <2>4, <2>6, <2>8, <2>9, OrderFacts DEF OrderInv, Older, StillOlder, Aligned
  <1>5. QED
    BY <1>1, <1>2, <1>3, <1>4 DEF Begin, Producer, get, Format, SendAcquire, Release

\* hand is the first message of the ring buffer, and older than the others.
LEMMA HandOrder ==
  ASSUME Inv, OrderInv, writer \in {"log", "early"}
  PROVE  /\ hand \in Messages /\ Older(hand)
         /\ \A i \in 1..Len(disk) : Aligned(disk[i], hand)
         /\ \A i \in 1..Len(early) : Aligned(early[i], hand)
         /\ \A j \in 1..Len(ring) : j # 1 => Aligned(hand, ring[j].by)
  <1>1. 1 \in 1..Len(ring) /\ hand = ring[1].by /\ hand \in Messages
    BY HandFacts
  <1>2. Waits(1)
    BY <1>1, OrderFacts DEF Waits
  <1>3. Older(hand) /\ \A j \in 1..Len(ring) : j # 1 => Aligned(hand, ring[j].by)
    BY <1>1, RingFacts DEF Aligned
  <1>4. QED
    BY <1>1, <1>2, <1>3, OrderFacts DEF OrderInv

LEMMA ShorterEarly ==
  ASSUME Inv, OrderInv, early # <<>>, early' = Tail(early)
  PROVE  /\ DOMAIN early' = 1..(Len(early) - 1)
         /\ \A i \in 1..(Len(early) - 1) : i + 1 \in 1..Len(early) /\ early'[i] = early[i + 1]
         /\ 1 \in 1..Len(early) /\ Head(early) = early[1]
  <1>1. /\ early' \in Seq(Messages) /\ Len(early') = Len(early) - 1 /\ Head(early) = early[1]
        /\ \A i \in 1..(Len(early) - 1) : early'[i] = early[i + 1]
    BY OrderFacts, TailFacts
  <1>2. DOMAIN early' = 1..(Len(early) - 1) /\ Len(early) # 0
    BY <1>1, SeqFacts, OrderFacts
  <1>3. QED
    BY <1>1, <1>2, OrderFacts

LEMMA OrderNext ==
  ASSUME Inv, RaceInv, OrderInv, [Next]_vars
  PROVE  OrderInv'
  <1>0. /\ \A i \in 1..Len(disk) : StillOlder(disk[i])
        /\ \A i \in 1..Len(early) : StillOlder(early[i])
        /\ drained # Nothing => StillOlder(drained)
    BY OrderFacts, OlderStays
  <1>1. ASSUME NEW t \in Tasks, Begin(t) \/ Producer(t) PROVE OrderInv'
    BY <1>1, OrderProducer
  <1>2. CASE /\ UNCHANGED <<ring, disk, early, drained>>
             /\ writer' = "return" <=> writer = "return"
    BY <1>2, OrderStays, OrderFacts
  <1>3. CASE WriteToDisk
    <2>1. /\ disk' = Append(disk, hand) /\ writer = "log" /\ writer' = "return"
          /\ UNCHANGED <<early, drained, ring, raced>>
      BY <1>3 DEF WriteToDisk, Log, booting
    <2>2. /\ drained # Nothing => Aligned(hand, drained)
          /\ \A j \in 1..Len(early) : Aligned(hand, early[j])
      BY <2>1, OrderFacts DEF RaceInv, Inv, WriterInv, Aligned
    <2>3. /\ hand \in Messages /\ Older(hand)
          /\ \A i \in 1..Len(disk) : Aligned(disk[i], hand)
          /\ \A j \in 1..Len(ring) : j # 1 => Aligned(hand, ring[j].by)
      BY <2>1, HandOrder
    <2>4. /\ disk' \in Seq(Messages) /\ Len(disk') = Len(disk) + 1
          /\ \A i \in 1..Len(disk) : disk'[i] = disk[i]
          /\ disk'[Len(disk) + 1] = hand
      BY <2>1, <2>3, OrderFacts, AppendFacts
    <2>5. DOMAIN disk' = 1..(Len(disk) + 1) /\ StillOlder(hand)
      BY <2>3, <2>4, SeqFacts, OlderStays
    <2>6. \A i, j \in 1..(Len(disk) + 1) : i < j => Aligned(disk'[i], disk'[j])
      <3> TAKE i, j \in 1..(Len(disk) + 1)
      <3> HAVE i < j
      <3>1. i \in 1..Len(disk) /\ (j \in 1..Len(disk) \/ j = Len(disk) + 1)
        BY OrderFacts
      <3>2. QED
        BY <2>3, <2>4, <3>1, OrderFacts DEF OrderInv
    <2>7. \A i \in 1..(Len(disk) + 1) :
            /\ StillOlder(disk'[i])
            /\ \A j \in 1..Len(ring) : j # 1 => Aligned(disk'[i], ring[j].by)
      <3> TAKE i \in 1..(Len(disk) + 1)
      <3>1. i \in 1..Len(disk) \/ i = Len(disk) + 1
        BY OrderFacts
      <3>2. CASE i \in 1..Len(disk)
        BY <1>0, <2>1, <2>4, <3>2, OrderFacts DEF OrderInv, Waits
      <3>3. CASE i = Len(disk) + 1
        BY <2>3, <2>4, <2>5, <3>3
      <3>4. QED
        BY <3>1, <3>2, <3>3
    <2>8. \A i \in 1..(Len(disk) + 1) :
            /\ drained # Nothing => Aligned(disk'[i], drained)
            /\ \A j \in 1..Len(early) : Aligned(disk'[i], early[j])
      <3> TAKE i \in 1..(Len(disk) + 1)
      <3>1. i \in 1..Len(disk) \/ i = Len(disk) + 1
        BY OrderFacts
      <3>2. CASE i \in 1..Len(disk)
        BY <2>4, <3>2, OrderFacts DEF OrderInv
      <3>3. CASE i = Len(disk) + 1
        BY <2>2, <2>4, <3>3
      <3>4. QED
        BY <3>1, <3>2, <3>3
    <2>9. /\ \A i, j \in 1..Len(early) : i < j => Aligned(early[i], early[j])
          /\ \A i \in 1..Len(early) :
               /\ drained # Nothing => Aligned(drained, early[i])
               /\ \A j \in DOMAIN ring : j # 1 => Aligned(early[i], ring[j].by)
      BY <2>1, OrderFacts DEF OrderInv, Waits
    <2>10. QED
      BY <1>0, <2>1, <2>5, <2>6, <2>7, <2>8, <2>9, OrderFacts
         DEF OrderInv, Waits, Older, StillOlder, Aligned
  <1>4. CASE SaveForLater
    <2>1. /\ early' = Append(early, hand) /\ writer = "early" /\ writer' = "return"
          /\ UNCHANGED <<disk, drained, ring, raced>>
      BY <1>4 DEF SaveForLater, booting, file
    <2>2. drained # Nothing => Aligned(drained, hand)
      BY <2>1 DEF RaceInv, Inv, WriterInv, Aligned
    <2>3. /\ hand \in Messages /\ Older(hand)
          /\ \A i \in 1..Len(early) : Aligned(early[i], hand)
          /\ \A i \in 1..Len(disk) : Aligned(disk[i], hand)
          /\ \A j \in 1..Len(ring) : j # 1 => Aligned(hand, ring[j].by)
      BY <2>1, HandOrder
    <2>4. /\ early' \in Seq(Messages) /\ Len(early') = Len(early) + 1
          /\ \A i \in 1..Len(early) : early'[i] = early[i]
          /\ early'[Len(early) + 1] = hand
      BY <2>1, <2>3, OrderFacts, AppendFacts
    <2>5. DOMAIN early' = 1..(Len(early) + 1) /\ StillOlder(hand)
      BY <2>3, <2>4, SeqFacts, OlderStays
    <2>6. \A i, j \in 1..(Len(early) + 1) : i < j => Aligned(early'[i], early'[j])
      <3> TAKE i, j \in 1..(Len(early) + 1)
      <3> HAVE i < j
      <3>1. i \in 1..Len(early) /\ (j \in 1..Len(early) \/ j = Len(early) + 1)
        BY OrderFacts
      <3>2. QED
        BY <2>3, <2>4, <3>1, OrderFacts DEF OrderInv
    <2>7. \A i \in 1..(Len(early) + 1) :
            /\ StillOlder(early'[i])
            /\ \A j \in 1..Len(ring) : j # 1 => Aligned(early'[i], ring[j].by)
      <3> TAKE i \in 1..(Len(early) + 1)
      <3>1. i \in 1..Len(early) \/ i = Len(early) + 1
        BY OrderFacts
      <3>2. CASE i \in 1..Len(early)
        BY <1>0, <2>1, <2>4, <3>2, OrderFacts DEF OrderInv, Waits
      <3>3. CASE i = Len(early) + 1
        BY <2>3, <2>4, <2>5, <3>3
      <3>4. QED
        BY <3>1, <3>2, <3>3
    <2>8. \A i \in 1..(Len(early) + 1) :
            /\ drained # Nothing => Aligned(drained, early'[i])
            /\ \A j \in 1..Len(disk) : Aligned(disk[j], early'[i])
      <3> TAKE i \in 1..(Len(early) + 1)
      <3>1. i \in 1..Len(early) \/ i = Len(early) + 1
        BY OrderFacts
      <3>2. CASE i \in 1..Len(early)
        BY <2>4, <3>2, OrderFacts DEF OrderInv
      <3>3. CASE i = Len(early) + 1
        BY <2>2, <2>3, <2>4, <3>3
      <3>4. QED
        BY <3>1, <3>2, <3>3
    <2>9. /\ \A i, j \in 1..Len(disk) : i < j => Aligned(disk[i], disk[j])
          /\ \A i \in 1..Len(disk) :
               /\ drained # Nothing => Aligned(disk[i], drained)
               /\ \A j \in DOMAIN ring : j # 1 => Aligned(disk[i], ring[j].by)
      BY <2>1, OrderFacts DEF OrderInv, Waits
    <2>10. QED
      BY <1>0, <2>1, <2>5, <2>6, <2>7, <2>8, <2>9, OrderFacts
         DEF OrderInv, Waits, Older, StillOlder, Aligned
  <1>5. CASE DropOldest
    <2>1. early # <<>>
      BY <1>5, OrderFacts, SeqFacts, LoggingAssumption DEF DropOldest
    <2>2. early' = Tail(early) /\ UNCHANGED <<disk, drained, ring, writer, raced>>
      BY <1>5 DEF DropOldest, booting, writerVars, file
    <2>3. /\ DOMAIN early' = 1..(Len(early) - 1)
          /\ \A i \in 1..(Len(early) - 1) : i + 1 \in 1..Len(early) /\ early'[i] = early[i + 1]
      BY <2>1, <2>2, ShorterEarly
    <2>4. /\ \A i \in 1..Len(disk), j \in 1..(Len(early) - 1) : Aligned(disk[i], early'[j])
          /\ \A i \in 1..(Len(early) - 1) :
               /\ StillOlder(early'[i])
               /\ drained # Nothing => Aligned(drained, early'[i])
               /\ \A j \in DOMAIN ring : Waits(j) => Aligned(early'[i], ring[j].by)
      BY <1>0, <2>3, OrderFacts DEF OrderInv
    <2>5. \A i, j \in 1..(Len(early) - 1) : i < j => Aligned(early'[i], early'[j])
      BY <2>3, OrderFacts DEF OrderInv
    <2>6. \A i \in 1..Len(disk) :
            /\ StillOlder(disk[i])
            /\ drained # Nothing => Aligned(disk[i], drained)
            /\ \A j \in DOMAIN ring : Waits(j) => Aligned(disk[i], ring[j].by)
      BY <1>0, OrderFacts DEF OrderInv
    <2>7. /\ \A i, j \in 1..Len(disk) : i < j => Aligned(disk[i], disk[j])
          /\ \A j \in DOMAIN ring : Waits(j)' => Waits(j)
      BY <2>2, OrderFacts DEF OrderInv, Waits
    <2>8. QED
      BY <1>0, <2>2, <2>3, <2>4, <2>5, <2>6, <2>7, OrderFacts DEF OrderInv, Older, StillOlder, Aligned
  <1>6. CASE ReceiveEarly
    <2>1. early # <<>> /\ drained' = Head(early) /\ early' = Tail(early) /\ boot = "drain"
          /\ UNCHANGED <<disk, ring, writer, raced>>
      BY <1>6 DEF ReceiveEarly, BootVars, writerVars, file
    <2>2. /\ DOMAIN early' = 1..(Len(early) - 1)
          /\ \A i \in 1..(Len(early) - 1) : i + 1 \in 1..Len(early) /\ early'[i] = early[i + 1]
          /\ 1 \in 1..Len(early) /\ drained' = early[1]
          /\ \A i \in 1..(Len(early) - 1) : 1 < i + 1
      BY <2>1, ShorterEarly, OrderFacts
    <2>3. \A j \in DOMAIN ring : Waits(j)' =>
            /\ \A i \in 1..Len(disk) : Aligned(disk[i], ring[j].by)
            /\ \A i \in 1..(Len(early) - 1) : Aligned(early'[i], ring[j].by)
      BY <2>1, <2>2, OrderFacts DEF OrderInv, Waits
    <2>4. StillOlder(drained')
      BY <1>0, <2>2
    <2>5. \A i \in 1..Len(disk) :
            Aligned(disk[i], drained') /\ \A j \in 1..(Len(early) - 1) : Aligned(disk[i], early'[j])
      BY <2>2, OrderFacts DEF OrderInv
    <2>6. /\ \A i \in 1..(Len(early) - 1) : Aligned(drained', early'[i]) /\ StillOlder(early'[i])
          /\ \A i, j \in 1..(Len(early) - 1) : i < j => Aligned(early'[i], early'[j])
      <3>1. \A i, j \in 1..Len(early) : i < j => Aligned(early[i], early[j])
        BY OrderFacts DEF OrderInv
      <3>2. \A i \in 1..(Len(early) - 1) : Aligned(early[1], early[i + 1])
        BY <2>2, <3>1
      <3>3. \A i \in 1..(Len(early) - 1) : StillOlder(early[i + 1])
        BY <1>0, <2>2
      <3>4. \A i, j \in 1..(Len(early) - 1) : i < j => i + 1 < j + 1
        BY OrderFacts
      <3>5. \A i, j \in 1..(Len(early) - 1) : i < j => Aligned(early[i + 1], early[j + 1])
        BY <2>2, <3>1, <3>4
      <3>6. QED
        BY <2>2, <3>2, <3>3, <3>5
    <2>7. \A i, j \in 1..Len(disk) : i < j => Aligned(disk[i], disk[j])
      BY OrderFacts DEF OrderInv
    <2>8. ring' = ring /\ DOMAIN disk' = 1..Len(disk) /\ disk' = disk /\ raced' = raced
      BY <2>1, OrderFacts
    <2>9. QED
      BY <1>0, <2>2, <2>3, <2>4, <2>5, <2>6, <2>7, <2>8 DEF OrderInv, Older, StillOlder, Aligned
  <1>7. CASE LogEarly
    <2>1. disk' = Append(disk, drained) /\ drained' = Nothing /\ boot = "log"
          /\ UNCHANGED <<early, ring, writer, raced>>
      BY <1>7 DEF LogEarly, Log, BootVars, writerVars
    <2>2. drained # Nothing /\ drained \in Messages
      BY <2>1, OrderFacts DEF Inv, WriterInv
    <2>3. /\ disk' \in Seq(Messages) /\ Len(disk') = Len(disk) + 1
          /\ \A i \in 1..Len(disk) : disk'[i] = disk[i]
          /\ disk'[Len(disk) + 1] = drained
      BY <2>1, <2>2, OrderFacts, AppendFacts
    <2>4. DOMAIN disk' = 1..(Len(disk) + 1)
      BY <2>3, SeqFacts
    <2>5. \A j \in DOMAIN ring : Aligned(drained, ring[j].by)
      BY <2>1 DEF RaceInv, Booting, Aligned
    <2>6. \A i, j \in 1..(Len(disk) + 1) : i < j => Aligned(disk'[i], disk'[j])
      <3> TAKE i, j \in 1..(Len(disk) + 1)
      <3> HAVE i < j
      <3>1. i \in 1..Len(disk) /\ (j \in 1..Len(disk) \/ j = Len(disk) + 1)
        BY OrderFacts
      <3>2. QED
        BY <2>2, <2>3, <3>1, OrderFacts DEF OrderInv
    <2>7. \A i \in 1..(Len(disk) + 1) :
            StillOlder(disk'[i]) /\ \A j \in 1..Len(early) : Aligned(disk'[i], early[j])
      <3> TAKE i \in 1..(Len(disk) + 1)
      <3>1. i \in 1..Len(disk) \/ i = Len(disk) + 1
        BY OrderFacts
      <3>2. QED
        BY <1>0, <2>2, <2>3, <3>1, OrderFacts DEF OrderInv
    <2>8. /\ \A i, j \in 1..Len(early) : i < j => Aligned(early[i], early[j])
          /\ \A i \in 1..Len(early) : \A j \in DOMAIN ring : Waits(j) => Aligned(early[i], ring[j].by)
          /\ \A i \in 1..Len(disk) : \A j \in DOMAIN ring : Waits(j) => Aligned(disk[i], ring[j].by)
      BY OrderFacts DEF OrderInv
    <2>9. \A i \in 1..(Len(disk) + 1) : \A j \in DOMAIN ring : Waits(j) => Aligned(disk'[i], ring[j].by)
      <3> TAKE i \in 1..(Len(disk) + 1)
      <3>1. i \in 1..Len(disk) \/ i = Len(disk) + 1
        BY OrderFacts
      <3>2. QED
        BY <2>3, <2>5, <2>8, <3>1
    <2>10. \A j \in DOMAIN ring : Waits(j)' <=> Waits(j)
      BY <2>1 DEF Waits
    <2>11. QED
      BY <1>0, <2>1, <2>4, <2>6, <2>7, <2>8, <2>9, <2>10, OrderFacts
         DEF OrderInv, Older, StillOlder, Aligned
  <1>8. CASE ReturnItem
    <2>1. ring' = Tail(ring) /\ writer = "return" /\ writer' = "receive"
          /\ UNCHANGED <<disk, early, drained, raced>>
      BY <1>8 DEF ReturnItem, booting, file
    <2>2. ring # <<>>
      BY <2>1, HandFacts, SeqFacts, OrderFacts
    <2>3. /\ ring' \in Seq(Item) /\ Len(ring') = Len(ring) - 1
          /\ \A i \in 1..(Len(ring) - 1) : ring'[i] = ring[i + 1]
      BY <2>1, <2>2, OrderFacts, TailFacts
    <2>4. DOMAIN ring' = 1..(Len(ring) - 1)
      BY <2>3, SeqFacts
    <2>5. \A j \in 1..(Len(ring) - 1) : Waits(j + 1)
      BY OrderFacts DEF Waits
    <2>6. \A j \in 1..(Len(ring) - 1) :
            /\ \A i \in 1..Len(disk) : Aligned(disk[i], ring'[j].by)
            /\ \A i \in 1..Len(early) : Aligned(early[i], ring'[j].by)
      <3> TAKE j \in 1..(Len(ring) - 1)
      <3>1. Waits(j + 1) /\ j + 1 \in DOMAIN ring /\ ring'[j] = ring[j + 1]
        BY <2>3, <2>5 DEF Waits
      <3>2. QED
        BY <3>1, OrderFacts DEF OrderInv
    <2>7. QED
      BY <1>0, <2>1, <2>4, <2>6, OrderFacts DEF OrderInv, Waits, Older, StillOlder, Aligned
  <1>9. CASE \/ rotate \/ Receive \/ RotateWhenIdle
             \/ InitLogfile \/ SwitchToDisk \/ DeleteEarly \/ UNCHANGED vars
    BY <1>2, <1>9 DEF rotate, Receive, RotateWhenIdle, InitLogfile, SwitchToDisk, DeleteEarly,
       BootVars, vars, writerVars, booting, file
  <1>10. QED
    BY <1>1, <1>3, <1>4, <1>5, <1>6, <1>7, <1>8, <1>9 DEF Next, logWriter, initDiskLog

Ordered(q) == \A i, j \in 1..Len(q) : i < j => Aligned(q[i], q[j])
Precedes(p, q) == \A i \in 1..Len(p), j \in 1..Len(q) : Aligned(p[i], q[j])

LEMMA ConcatFacts ==
  ASSUME NEW p \in Seq(Messages), NEW q \in Seq(Messages)
  PROVE  /\ p \o q \in Seq(Messages)
         /\ \A i \in 1..Len(p \o q) :
              \/ i \in 1..Len(p) /\ (p \o q)[i] = p[i]
              \/ i > Len(p) /\ i - Len(p) \in 1..Len(q) /\ (p \o q)[i] = q[i - Len(p)]
  OBVIOUS

LEMMA ConcatOrdered ==
  ASSUME NEW p \in Seq(Messages), NEW q \in Seq(Messages),
         Ordered(p), Ordered(q), Precedes(p, q)
  PROVE  Ordered(p \o q)
  <1> SUFFICES ASSUME NEW i \in 1..Len(p \o q), NEW j \in 1..Len(p \o q), i < j
               PROVE  Aligned((p \o q)[i], (p \o q)[j])
    BY DEF Ordered
  <1>0. Len(p) \in Nat /\ Len(q) \in Nat /\ i \in Nat /\ j \in Nat
    BY ConcatFacts
  <1>1. CASE i \in 1..Len(p) /\ j \in 1..Len(p) /\ (p \o q)[i] = p[i] /\ (p \o q)[j] = p[j]
    BY <1>1 DEF Ordered
  <1>2. CASE /\ i \in 1..Len(p) /\ j - Len(p) \in 1..Len(q)
             /\ (p \o q)[i] = p[i] /\ (p \o q)[j] = q[j - Len(p)]
    BY <1>2 DEF Precedes
  <1>3. CASE /\ i - Len(p) \in 1..Len(q) /\ j - Len(p) \in 1..Len(q)
             /\ (p \o q)[i] = q[i - Len(p)] /\ (p \o q)[j] = q[j - Len(p)]
    <2>1. i - Len(p) < j - Len(p)
      BY <1>0
    <2>2. QED
      BY <1>3, <2>1 DEF Ordered
  <1>4. QED
    BY <1>0, <1>1, <1>2, <1>3, ConcatFacts

LEMMA ConcatPrecedes ==
  ASSUME NEW p \in Seq(Messages), NEW q \in Seq(Messages), NEW r \in Seq(Messages),
         Precedes(p, r), Precedes(q, r)
  PROVE  Precedes(p \o q, r)
  <1> SUFFICES ASSUME NEW i \in 1..Len(p \o q), NEW j \in 1..Len(r)
               PROVE  Aligned((p \o q)[i], r[j])
    BY DEF Precedes
  <1>1. CASE i \in 1..Len(p) /\ (p \o q)[i] = p[i]
    BY <1>1 DEF Precedes
  <1>2. CASE i - Len(p) \in 1..Len(q) /\ (p \o q)[i] = q[i - Len(p)]
    BY <1>2 DEF Precedes
  <1>3. QED
    BY <1>1, <1>2, ConcatFacts

\* The messages in the ring buffer that the writer has not dealt with.
LEMMA WaitingFacts ==
  ASSUME Inv
  PROVE  /\ Waiting \in Seq(Messages)
         /\ Ordered(Waiting)
         /\ \A j \in 1..Len(Waiting) :
              \E k \in DOMAIN ring : Waits(k) /\ Waiting[j] = ring[k].by
  <1>1. /\ InRing \in Seq(Messages) /\ Len(InRing) = Len(ring) /\ Len(ring) \in Nat
        /\ \A i \in 1..Len(ring) : InRing[i] = ring[i].by
    <2>1. Len(ring) \in Nat
      BY RingFacts
    <2>2. \A i \in 1..Len(ring) :
            ring[i].by \in Messages /\ (IF ring[i].sent THEN ring[i].body ELSE ring[i].by) = ring[i].by
      BY HandFacts
    <2>3. InRing = [i \in 1..Len(ring) |-> ring[i].by]
      BY <2>2 DEF InRing
    <2>4. QED
      BY <2>1, <2>2, <2>3
  <1>2. CASE writer # "return"
    BY <1>1, <1>2, RingFacts DEF Waiting, Ordered, Waits, Aligned
  <1>3. CASE writer = "return"
    <2>1. InRing # <<>>
      BY <1>1, <1>3, HandFacts, SeqFacts
    <2>2. /\ Waiting \in Seq(Messages) /\ Len(Waiting) = Len(ring) - 1
          /\ \A i \in 1..(Len(ring) - 1) : Waiting[i] = InRing[i + 1]
      BY <1>1, <1>3, <2>1, TailFacts DEF Waiting
    <2>3. \A i \in 1..(Len(ring) - 1) :
            i + 1 \in 1..Len(ring) /\ i + 1 # 1 /\ Waiting[i] = ring[i + 1].by
      BY <1>1, <2>2
    <2>4. \A i, j \in 1..(Len(ring) - 1) : i < j => Aligned(ring[i + 1].by, ring[j + 1].by)
      BY <1>1, <2>3, RingFacts DEF Aligned
    <2>5. Ordered(Waiting)
      BY <2>2, <2>3, <2>4 DEF Ordered
    <2>6. \A i \in 1..(Len(ring) - 1) : Waits(i + 1) /\ i + 1 \in DOMAIN ring
      BY <2>3, RingFacts DEF Waits
    <2>7. QED
      BY <2>2, <2>3, <2>5, <2>6
  <1>4. QED
    BY <1>2, <1>3

LEMMA DrainedFacts ==
  ASSUME Inv
  PROVE  /\ Drained \in Seq(Messages)
         /\ drained = Nothing => Len(Drained) = 0
         /\ drained # Nothing => Len(Drained) = 1 /\ Drained[1] = drained
  <1>1. drained \in Messages \cup {Nothing}
    BY DEF Inv, TypeInv
  <1>2. QED
    BY <1>1 DEF Drained

LEMMA PipelineOrdered ==
  ASSUME Inv, RaceInv, OrderInv
  PROVE  InOrder
  <1>1. disk \in Seq(Messages) /\ early \in Seq(Messages) /\ Drained \in Seq(Messages) /\ Waiting \in Seq(Messages)
    BY OrderFacts, DrainedFacts, WaitingFacts
  <1>2. Ordered(disk) /\ Ordered(early) /\ Ordered(Drained) /\ Ordered(Waiting)
    BY OrderFacts, DrainedFacts, WaitingFacts DEF OrderInv, Ordered
  <1>3. Precedes(disk, Drained) /\ Precedes(Drained, early)
    BY OrderFacts, DrainedFacts DEF OrderInv, Precedes
  <1>4. Precedes(disk, early)
    BY OrderFacts DEF OrderInv, Precedes
  <1>5. Precedes(disk, Waiting) /\ Precedes(early, Waiting)
    <2>1. \A k \in DOMAIN ring : Waits(k) =>
            /\ \A i \in 1..Len(disk) : Aligned(disk[i], ring[k].by)
            /\ \A i \in 1..Len(early) : Aligned(early[i], ring[k].by)
      BY OrderFacts DEF OrderInv
    <2>2. \A j \in 1..Len(Waiting) : \E k \in DOMAIN ring : Waits(k) /\ Waiting[j] = ring[k].by
      BY WaitingFacts
    <2>3. \A j \in 1..Len(Waiting) :
            /\ \A i \in 1..Len(disk) : Aligned(disk[i], Waiting[j])
            /\ \A i \in 1..Len(early) : Aligned(early[i], Waiting[j])
      <3> TAKE j \in 1..Len(Waiting)
      <3>1. PICK k \in DOMAIN ring : Waits(k) /\ Waiting[j] = ring[k].by
        BY <2>2
      <3>2. QED
        BY <2>1, <3>1
    <2>4. QED
      BY <2>3 DEF Precedes
  <1>6. Precedes(Drained, Waiting)
    <2>1. CASE drained = Nothing
      BY <2>1, DrainedFacts DEF Precedes
    <2>2. CASE drained # Nothing
      <3>1. \A k \in DOMAIN ring : ring[k].by \in raced
        BY <2>2 DEF RaceInv, Booting, Inv, WriterInv
      <3>2. \A j \in 1..Len(Waiting) : Waiting[j] \in raced
        BY <3>1, WaitingFacts
      <3>3. QED
        BY <3>2 DEF Precedes, Aligned
    <2>3. QED
      BY <2>1, <2>2
  <1>7. Ordered(disk \o Drained) /\ disk \o Drained \in Seq(Messages)
    BY <1>1, <1>2, <1>3, ConcatOrdered, ConcatFacts
  <1>8. Precedes(disk \o Drained, early) /\ Precedes(disk \o Drained, Waiting)
    BY <1>1, <1>3, <1>4, <1>5, <1>6, ConcatPrecedes
  <1>9. Ordered(disk \o Drained \o early) /\ disk \o Drained \o early \in Seq(Messages)
    BY <1>1, <1>2, <1>7, <1>8, ConcatOrdered, ConcatFacts
  <1>10. Precedes(disk \o Drained \o early, Waiting)
    BY <1>1, <1>5, <1>7, <1>8, ConcatPrecedes
  <1>11. Ordered(Pipeline)
    BY <1>1, <1>2, <1>9, <1>10, ConcatOrdered DEF Pipeline
  <1>12. QED
    BY <1>11 DEF Ordered, Aligned, Before, InOrder

\* The messages of a task come to the disk once and in the order in which they
\* were logged, whatever tasks there are, however many they log, whichever of them
\* the ring buffers have no room for, and whatever is logged while initDiskLog()
\* runs; only a message that is itself under way then may come out of its order
\* (logmanager.cpp:28-29 and 65-75).
THEOREM InOrderAlways == Spec => []InOrder
  <1>1. Init => Inv /\ RaceInv /\ OrderInv
    BY InvInit, OrderInit
  <1>2. Inv /\ RaceInv /\ OrderInv /\ [Next]_vars => (Inv /\ RaceInv /\ OrderInv)'
    BY InvNext, RaceNext, OrderNext
  <1>3. Inv /\ RaceInv /\ OrderInv => InOrder
    BY PipelineOrdered
  <1>4. QED
    BY <1>1, <1>2, <1>3, PTL DEF Spec
===============================================================================
