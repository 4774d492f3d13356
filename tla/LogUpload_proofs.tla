---------------------------- MODULE LogUpload_proofs ----------------------------
(***************************************************************************)
(* Proofs about LogUpload, for any lines, any block size, any IDs, and any *)
(* number of files, downloads, disconnections, errors of the transport,    *)
(* blocks that cannot be read or sent, and restarts.                       *)
(***************************************************************************)
EXTENDS LogUpload, FiniteSetTheorems, WellFoundedInduction, TLAPS

-----------------------------------------------------------------------------
(* The inductive invariant *)

PCs == {"idle", "online", "pick", "open", "sent", "flush", "enqueue", "remember", "store", "sending"}

Handling == {"idle", "notify", "cancel", "forgetFile", "reset",
             "cancelThenDrop", "forgetFileThenDrop", "resetThenDrop", "drop"}

\* cancelUpload() has returned, and resetMessageList() has still to be called.
Resetting == mqtt \in {"reset", "resetThenDrop"}

\* A confirmation is awaited, or will be as soon as the main task says so.
Awaited == main.pc = "sending" \/ (main.pc = "idle" /\ sending)

\* The two tasks go through their steps in order, and the messages in the outbox have
\* IDs of their own.
TaskInv ==
  /\ main = [pc |-> main.pc, msg |-> main.msg, slot |-> main.slot, blk |-> main.blk]
  /\ main.pc \in PCs /\ main.msg \in 0..OutIDs /\ main.slot \in Int
  /\ \A m \in outbox : m[1] \in 1..OutIDs
  /\ \A m, n \in outbox : m[1] = n[1] => m = n
  /\ mqtt \in Handling
  /\ sending => main.pc = "idle"
  /\ mqtt = "notify" /\ ~mixed => Awaited

Found(m) == findMessageID(ids, m[1])

\* As long as the broker does not use the ID of a message of ours, there is one message
\* at most whose confirmation will be recognised, and then no block is read.
ListInv ==
  ~mixed /\ ~HalfCancelled /\ ~Resetting =>
    \A m \in outbox : Found(m) => /\ mqtt # "notify" /\ Awaited
                                  /\ \A n \in outbox : Found(n) => m = n

InBlock(l, f, b) == b[1] = f /\ b[2] <= l[1] /\ l[1] + l[2] <= b[2] + b[3]

\* The lines of f that begin before s are in the blocks.
Reaches(blocks, f, s) ==
  \A l \in LinesOf(f) : l[1] < s => \E b \in blocks : InBlock(l, f, b)

\* The file in transit is one for which NoLogLost answers.  What is in the list while
\* it is being reset does not matter any more.
Claimed == /\ inTransit # NoFile /\ inTransit \notin excused
           /\ ~HalfCancelled /\ (~mixed \/ Resetting)

\* The broker has all that is before the next block.
Settled ==
  \/ main.pc \in {"online", "pick", "open", "sent", "flush"}
  \/ main.pc = "idle" /\ ~sending
  \/ mqtt = "notify"

\* The message with the block under way.
Pending(m) == \/ main.pc \in {"remember", "store"} /\ m[1] = main.msg
              \/ Found(m) /\ ~Resetting

\* The next block is read when the broker has all the lines before it, and once it has
\* the block that is under way it has all the lines up to the next one.
ClaimInv ==
  Claimed =>
    /\ Settled => Reaches(received, inTransit, seek)
    /\ main.pc \in {"sent", "flush"} => seek >= SizeOf(inTransit)
    /\ main.pc = "enqueue" => Reaches(received \cup {main.blk}, inTransit, seek)
    /\ \A m \in outbox : Pending(m) => Reaches(received \cup {m[2]}, inTransit, seek)

\* What is in transit has been closed, and blocks begin where lines do.
SeekInv == /\ inTransit # NoFile => inTransit \in closed
           /\ seek = 0 \/ seek - 1 \in LineEnds

TasksInv == TypeOK /\ TaskInv /\ ListInv

IInv == TasksInv /\ SeekInv /\ ClaimInv /\ NoLogLost

-----------------------------------------------------------------------------
(* The least and the greatest element of a set of numbers *)

LEMMA MinIsLeast ==
  ASSUME NEW S \in SUBSET Nat, S # {}
  PROVE  Min(S) \in S /\ \A y \in S : Min(S) <= y
  <1> DEFINE Less == {ss \in Nat \X Nat : ss[1] < ss[2]}
  <1>1. IsWellFoundedOn(Less, Nat)
    BY NatLessThanWellFounded DEF OpToRel
  <1>2. \A x, y \in S : ~ (<<y, x>> \in Less) => x <= y
    OBVIOUS
  <1> HIDE DEF Less
  <1>3. \E x \in S : \A y \in S : ~ (<<y, x>> \in Less)
    BY <1>1, WFMin, Zenon
  <1>4. \E x \in S : \A y \in S : x <= y
    BY <1>2, <1>3
  <1> QED
    BY <1>4 DEF Min

LEMMA MaxIsGreatest ==
  ASSUME NEW S \in SUBSET Nat, S # {}, NEW n \in Nat, \A y \in S : y <= n
  PROVE  Max(S) \in S /\ \A y \in S : y <= Max(S)
  <1> DEFINE Bounds == {k \in Nat : \A y \in S : y <= k}
             b == Min(Bounds)
  <1>1. Bounds \in SUBSET Nat /\ n \in Bounds
    OBVIOUS
  <1> HIDE DEF Bounds
  <1>2. b \in Bounds /\ \A k \in Bounds : b <= k
    BY <1>1, MinIsLeast
  <1> HIDE DEF b
  <1>3. b \in Nat /\ \A y \in S : y <= b
    BY <1>2 DEF Bounds
  <1>4. b \in S
    <2>1. SUFFICES ASSUME b \notin S PROVE FALSE
      OBVIOUS
    <2>2. \A y \in S : y <= b - 1 /\ b - 1 \in Nat
      BY <1>3, <2>1
    <2>3. b - 1 \in Bounds
      BY <2>2 DEF Bounds
    <2> QED
      BY <1>2, <1>3, <2>3
  <1>5. \E x \in S : \A y \in S : x >= y
    BY <1>3, <1>4
  <1>6. Max(S) \in S /\ \A y \in S : Max(S) >= y
    BY <1>5 DEF Max
  <1> QED
    BY <1>6

LEMMA FiniteIsBounded ==
  ASSUME NEW S \in SUBSET Nat, IsFiniteSet(S)
  PROVE  \E n \in Nat : \A y \in S : y <= n
  <1> DEFINE c == Cardinality(S)
  <1>1. PICK f \in [1..c -> S] : \A y \in S : \E k \in 1..c : f[k] = y
    BY FS_CardinalityType, Zenon DEF ExistsBijection, Bijection, Surjection
  <1>2. c \in Nat
    BY FS_CardinalityType
  <1>3. \A k \in 1..c : f[k] \in Nat
    OBVIOUS
  <1> HIDE DEF c
  <1> DEFINE Bounded(k) == \E n \in Nat : \A j \in 1..k : f[j] <= n
             Unbounded == {k \in 0..c : ~Bounded(k)}
             m == Min(Unbounded)
  <1>4. Unbounded = {}
    <2> SUFFICES ASSUME Unbounded # {} PROVE FALSE
      OBVIOUS
    <2>1. Unbounded \in SUBSET Nat
      BY <1>2
    <2> HIDE DEF Unbounded
    <2>2. m \in Unbounded /\ \A i \in Unbounded : m <= i
      BY <2>1, MinIsLeast
    <2> HIDE DEF m
    <2>3. m \in 0..c /\ ~Bounded(m)
      BY <2>2 DEF Unbounded
    <2>4. m # 0
      <3>1. \A j \in 1..0 : f[j] <= 0
        OBVIOUS
      <3> QED
        BY <2>3, <3>1
    <2>5. m - 1 \in 0..c /\ m - 1 \notin Unbounded
      BY <1>2, <2>2, <2>3, <2>4
    <2>6. PICK n \in Nat : \A j \in 1..(m - 1) : f[j] <= n
      BY <2>5 DEF Unbounded
    <2>7. f[m] \in Nat
      BY <1>2, <1>3, <2>3, <2>4
    <2>8. \A j \in 1..m : j \in 1..(m - 1) \/ j = m
      BY <1>2, <2>3
    <2>9. \A j \in 1..m : f[j] \in Nat
      BY <1>2, <1>3, <2>3
    <2>10. \A j \in 1..m : f[j] <= n + f[m]
      BY <2>6, <2>7, <2>8, <2>9
    <2>11. n + f[m] \in Nat
      BY <2>7
    <2> QED
      BY <2>3, <2>10, <2>11
  <1> HIDE DEF Bounded
  <1>5. \A k \in 0..c : Bounded(k)
    BY <1>4
  <1>6. Bounded(c)
    BY <1>2, <1>5
  <1> QED
    BY <1>1, <1>6 DEF Bounded

-----------------------------------------------------------------------------
(* Lines and blocks *)

Last == Max(LineEnds)

LEMMA LastIsLast == Last \in LineEnds /\ Last \in Nat \ {0} /\ \A z \in LineEnds : z <= Last
  <1>1. LineEnds \in SUBSET Nat /\ LineEnds # {} /\ IsFiniteSet(LineEnds) /\ 0 \notin LineEnds
    BY UploadAssumption
  <1>2. PICK n \in Nat : \A z \in LineEnds : z <= n
    BY <1>1, FiniteIsBounded
  <1> QED
    BY <1>1, <1>2, MaxIsGreatest DEF Last

\* A line begins at the start of the file or after a zero, and ends at the next zero.
LEMMA LinesEndAtZeros ==
  ASSUME NEW f, NEW l \in LinesOf(f)
  PROVE  /\ l[1] \in 0..Last /\ l[2] \in Nat
         /\ l[1] = 0 \/ l[1] - 1 \in LineEnds
         /\ l[1] + l[2] \in LineEnds
         /\ \A z \in LineEnds : z >= l[1] => z >= l[1] + l[2]
  <1>1. PICK a \in {0} \cup {z + 1 : z \in LineEnds \ {Last}} :
           l = <<a, Min({z \in LineEnds : z >= a}) - a>>
    BY DEF LinesOf, Last
  <1>2. a \in 0..Last /\ (a = 0 \/ a - 1 \in LineEnds)
    BY LastIsLast, UploadAssumption
  <1> DEFINE After == {z \in LineEnds : z >= a}
  <1>3. After \in SUBSET Nat /\ After # {}
    <2>1. After \subseteq LineEnds /\ LineEnds \subseteq Nat
      BY UploadAssumption
    <2>2. Last \in After
      BY <1>2, LastIsLast
    <2> QED
      BY <2>1, <2>2
  <1>4. Min(After) \in After /\ \A z \in After : Min(After) <= z
    <2> HIDE DEF After
    <2> QED
      BY <1>3, MinIsLeast
  <1>5. l[1] = a /\ l[2] = Min(After) - a
    BY <1>1
  <1>6. Min(After) \in Nat /\ Min(After) >= a
    BY <1>3, <1>4
  <1>7. \A z \in LineEnds : z >= a => Min(After) <= z
    BY <1>4
  <1> HIDE DEF After
  <1>8. l[1] + l[2] = Min(After)
    BY <1>2, <1>5, <1>6
  <1>9. Min(After) \in LineEnds
    BY <1>4 DEF After
  <1> QED
    BY <1>2, <1>5, <1>6, <1>7, <1>8, <1>9, UploadAssumption

\* A line begins at the start of the file and after each zero but the last.
LEMMA LineBegins ==
  ASSUME NEW f, NEW a \in Nat, a <= Last, a = 0 \/ a - 1 \in LineEnds
  PROVE  \E l \in LinesOf(f) : l[1] = a
  <1>1. a \in {0} \cup {z + 1 : z \in LineEnds \ {Last}}
    BY UploadAssumption, LastIsLast
  <1>2. <<a, Min({z \in LineEnds : z >= a}) - a>> \in LinesOf(f)
    BY <1>1, Zenon DEF LinesOf, Last
  <1> QED
    BY <1>2

\* At the end of a file every line of it has been passed.
LEMMA EndReachesAll ==
  ASSUME NEW f \in closed, seek \in Nat, seek >= SizeOf(f),
         NEW blocks, Reaches(blocks, f, seek)
  PROVE  \A l \in LinesOf(f) : \E b \in blocks : InBlock(l, f, b)
  <1>1. seek >= Last
    BY LastIsLast DEF SizeOf, Last
  <1>2. \A l \in LinesOf(f) : l \in LinesOf(1)
    BY DEF LinesOf
  <1>3. ASSUME NEW l \in LinesOf(f) PROVE l[1] < seek
    <2>1. 1 <= l[2]
      BY <1>2, LinesAssumption
    <2>2. l[1] \in Nat /\ l[2] \in Nat /\ l[1] + l[2] <= Last
      BY LinesEndAtZeros, LastIsLast
    <2> QED
      BY <1>1, <2>1, <2>2, LastIsLast
  <1> QED
    BY <1>3 DEF Reaches

\* A block that begins where a line does ends where one does.
LEMMA BlockEndsWithLine ==
  ASSUME SeekInv, seek \in Nat, NEW f \in closed, seek < SizeOf(f),
         NEW len, len = CompleteLength(f, SizeOf(f))
  PROVE  len \in Nat /\ seek + len \in LineEnds
  <1> DEFINE size == SizeOf(f)
             end == Min({seek + BlockSize, size})
             zeros == ZerosIn(f) \cap (seek..(end - 1))
  <1>1. /\ f \in torn => size = Last /\ ZerosIn(f) = LineEnds \ {Last}
        /\ f \notin torn => size = Last + 1 /\ ZerosIn(f) = LineEnds
    BY LastIsLast DEF SizeOf, ZerosIn, Last
  <1>2. size \in Nat /\ seek + BlockSize \in Nat
    BY <1>1, LastIsLast, UploadAssumption
  <1>3. end \in {seek + BlockSize, size} /\ end <= seek + BlockSize /\ end <= size
    <2>1. {seek + BlockSize, size} \in SUBSET Nat
      BY <1>2
    <2> QED
      BY <2>1, MinIsLeast
  <1>4. len = IF zeros = {} THEN end - seek ELSE Max(zeros) - seek
    BY DEF CompleteLength
  <1> HIDE DEF size, end
  <1>5. end \in Nat
    BY <1>2, <1>3
  <1>6. CASE zeros = {}
    <2>1. PICK l \in LinesOf(f) : l[1] = seek
      <3>1. seek <= Last
        BY <1>1, LastIsLast DEF size
      <3> QED
        BY <3>1, LineBegins DEF SeekInv
    <2> DEFINE z == seek + l[2]
    <2>2. z \in LineEnds /\ l[2] \in Nat /\ l[2] <= BlockSize
      <3>1. l \in LinesOf(1)
        BY DEF LinesOf
      <3> QED
        BY <2>1, <3>1, LinesEndAtZeros, LinesAssumption
    <2>3. z <= seek + BlockSize /\ z <= size
      BY <1>1, <2>2, LastIsLast, UploadAssumption
    <2>4. z <= end
      BY <1>3, <2>3
    <2>5. ~(z < end)
      <3>1. z < end => z \in ZerosIn(f)
        BY <1>1, <1>3, <2>2, LastIsLast
      <3>2. z < end => z \in seek..(end - 1)
        BY <1>5, <2>2
      <3> QED
        BY <1>6, <3>1, <3>2
    <2>6. z = end
      BY <1>5, <2>2, <2>4, <2>5
    <2> QED
      BY <1>4, <1>6, <2>2, <2>6
  <1>7. CASE zeros # {}
    <2>1. zeros \in SUBSET Nat /\ \A z \in zeros : z <= end
      BY <1>5
    <2> HIDE DEF zeros
    <2>2. Max(zeros) \in zeros
      BY <1>5, <1>7, <2>1, MaxIsGreatest
    <2>3. Max(zeros) \in LineEnds /\ Max(zeros) \in Nat /\ Max(zeros) >= seek
      BY <1>1, <1>5, <2>1, <2>2 DEF zeros
    <2> QED
      BY <1>4, <1>7, <2>3
  <1> QED
    BY <1>6, <1>7

\* And it has the lines that begin in it.
LEMMA BlockHasItsLines ==
  ASSUME SeekInv, seek \in Nat, NEW f \in closed, seek < SizeOf(f),
         NEW blocks, Reaches(blocks, f, seek),
         NEW len, len = CompleteLength(f, SizeOf(f))
  PROVE  Reaches(blocks \cup {<<f, seek, len>>}, f, seek + len + 1)
  <1>1. len \in Nat /\ seek + len \in LineEnds
    BY BlockEndsWithLine
  <1> SUFFICES ASSUME NEW l \in LinesOf(f), l[1] < seek + len + 1
               PROVE  \E b \in blocks \cup {<<f, seek, len>>} : InBlock(l, f, b)
    BY DEF Reaches
  <1>2. CASE l[1] < seek
    BY <1>2 DEF Reaches
  <1>3. CASE ~(l[1] < seek)
    <2>1. seek <= l[1] /\ seek + len >= l[1]
      BY <1>1, <1>3, LinesEndAtZeros
    <2>2. l[1] + l[2] <= seek + len
      BY <1>1, <2>1, LinesEndAtZeros
    <2>3. InBlock(l, f, <<f, seek, len>>)
      BY <2>1, <2>2 DEF InBlock
    <2> QED
      BY <2>3
  <1> QED
    BY <1>2, <1>3

-----------------------------------------------------------------------------
(* The list of message IDs *)

\* What is left was there before.
LEMMA ForgetMovesUp ==
  ASSUME NEW list \in [1..ListSize -> Nat], NEW id \in Nat, findMessageID(list, id)
  PROVE  /\ forgetMessage(list, id) \in [1..ListSize -> Nat]
         /\ \A i \in 1..ListSize : \/ forgetMessage(list, id)[i] = NoID
                                   \/ \E j \in 1..ListSize : forgetMessage(list, id)[i] = list[j]
  <1> DEFINE pos == CHOOSE i \in 1..ListSize : list[i] = id /\ \A j \in 1..(i - 1) : list[j] # id
  <1>1. forgetMessage(list, id) = [i \in 1..ListSize |-> IF i < pos THEN list[i]
                                   ELSE IF i < ListSize THEN list[i + 1] ELSE NoID]
    BY DEF forgetMessage
  <1> HIDE DEF pos
  <1>2. ASSUME NEW i \in 1..ListSize
        PROVE  \/ forgetMessage(list, id)[i] = NoID
               \/ \E j \in 1..ListSize : forgetMessage(list, id)[i] = list[j]
    <2>1. i < ListSize => i + 1 \in 1..ListSize
      BY DEF ListSize
    <2> QED
      BY <1>1, <2>1
  <1>3. \A i \in 1..ListSize : forgetMessage(list, id)[i] \in Nat
    BY <1>2 DEF NoID
  <1> QED
    BY <1>1, <1>2, <1>3

\* Nothing but what is stored comes into the list.
LEMMA SetStores ==
  ASSUME NEW list \in [1..ListSize -> Nat], NEW slot \in Int, NEW id \in Nat
  PROVE  /\ SetID(list, slot, id) \in [1..ListSize -> Nat]
         /\ \A i \in 1..ListSize : SetID(list, slot, id)[i] \in {list[i], id}
  BY DEF SetID

-----------------------------------------------------------------------------
LEMMA InvInit ==
  ASSUME Init
  PROVE  IInv
  <1> USE DEF At, EmptyList, ListSize, NoID, NoFile
  <1>1. TypeOK
    <2>1. seek \in 0..(Max(LineEnds) + 1)
      BY LastIsLast DEF Init, Last
    <2>2. logfile \in 1..MaxFiles /\ ids \in [1..ListSize -> Nat]
      BY UploadAssumption DEF Init
    <2>3. closed \subseteq 1..(logfile - 1) /\ torn \subseteq 1..(logfile - 1) /\ excused \subseteq 0..MaxFiles
      BY DEF Init
    <2>4. inTransit \in 0..MaxFiles /\ nextFree \in Int /\ incoming \in InIDs \cup {NoID}
      BY UploadAssumption DEF Init
    <2>5. {sending, shouldRotate, connected, mixed} \subseteq BOOLEAN
      BY DEF Init
    <2> QED
      BY <2>1, <2>2, <2>3, <2>4, <2>5, Zenon DEF TypeOK
  <1>2. TaskInv
    BY UploadAssumption DEF Init, TaskInv, PCs, Handling
  <1>3. ListInv /\ SeekInv /\ ClaimInv
    BY DEF Init, ListInv, SeekInv, ClaimInv, Claimed
  <1>4. NoLogLost
    <2>1. (1..(logfile - 1)) \ closed = {}
      BY DEF Init
    <2> QED
      BY <2>1, Zenon DEF NoLogLost
  <1> QED
    BY <1>1, <1>2, <1>3, <1>4 DEF IInv, TasksInv

\* The actions that touch neither the list of IDs nor the outbox.
Elsewhere ==
  \/ createNewFile \/ RotateWhenQuiet \/ uploadLogs \/ isClientConnected \/ PickFile \/ rotate
  \/ OpenAndRead \/ FileSent \/ flushSentLogfile \/ Refuse \/ FindRoom \/ SetSending
  \/ notifyMessageSent \/ cancelUpload \/ ForgetFile \/ Connect \/ Disconnected \/ Error

LEMMA NextCases ==
  ASSUME Next
  PROVE  \/ Elsewhere \/ Take \/ StoreID \/ resetMessageList \/ LastSlice \/ Restart
         \/ \E m \in outbox : Published(m)
         \/ \E m \in outbox : Expire(m)
         \/ \E id \in InIDs : FirstSlice(id)
  BY DEF Next, MainStep, HandlerStep, PublishedNext, Elsewhere

\* A block is read, or not if the end has been reached or it cannot be read.
LEMMA ReadCases ==
  ASSUME TypeOK, OpenAndRead
  PROVE  /\ main.pc = "open" /\ UNCHANGED <<disk, sending, connected, ids, nextFree, outbox,
                                           received, incoming, mqtt, mixed>>
         /\ \/ /\ seek >= SizeOf(inTransit)
               /\ main' = At("sent") /\ UNCHANGED <<seek, inTransit, excused>>
            \/ /\ main' = At("sent") /\ UNCHANGED <<seek, inTransit>>
               /\ excused' = excused \cup {inTransit}
            \/ /\ main' = At("idle") /\ inTransit' = NoFile /\ UNCHANGED seek
               /\ excused' \in {excused, excused \cup {inTransit}}
            \/ LET len == CompleteLength(inTransit, SizeOf(inTransit)) IN
                  /\ seek < SizeOf(inTransit)
                  /\ main' = [At("enqueue") EXCEPT !.blk = <<inTransit, seek, len>>]
                  /\ seek' = seek + len + 1 /\ UNCHANGED <<inTransit, excused>>
  <1>1. seek \in Nat /\ SizeOf(inTransit) \in Nat
    BY LastIsLast DEF TypeOK, SizeOf, Last
  <1> QED
    BY <1>1 DEF OpenAndRead, ReadBlock, history

LEMMA TypeStep ==
  ASSUME TypeOK, TaskInv, SeekInv, Next
  PROVE  TypeOK'
  <1> USE DEF disk, shared, history
  <1>1. /\ logfile' \in 1..MaxFiles /\ closed' \subseteq 1..(logfile' - 1)
        /\ torn' \subseteq 1..(logfile' - 1) /\ shouldRotate' \in BOOLEAN
    <2>1. /\ logfile \in 1..MaxFiles /\ closed \subseteq 1..(logfile - 1) /\ MaxFiles \in Nat
          /\ torn \subseteq 1..(logfile - 1) /\ shouldRotate \in BOOLEAN
      BY UploadAssumption DEF TypeOK
    <2>2. CASE /\ logfile < MaxFiles /\ logfile' = logfile + 1 /\ closed' = closed \cup {logfile}
               /\ torn' \in {torn, torn \cup {logfile}}
               /\ shouldRotate' = shouldRotate \/ shouldRotate' = FALSE
      <3>1. logfile' \in 1..MaxFiles
        BY <2>1, <2>2
      <3>2. 1..(logfile' - 1) = 1..(logfile - 1) \cup {logfile}
        BY <2>1, <2>2
      <3>3. closed' \subseteq 1..(logfile' - 1) /\ torn' \subseteq 1..(logfile' - 1)
        BY <2>1, <2>2, <3>2
      <3>4. shouldRotate' \in BOOLEAN
        BY <2>1, <2>2
      <3> QED
        BY <3>1, <3>3, <3>4
    <2>3. createNewFile \/ RotateWhenQuiet \/ Restart =>
               /\ logfile < MaxFiles /\ logfile' = logfile + 1 /\ closed' = closed \cup {logfile}
               /\ torn' \in {torn, torn \cup {logfile}}
               /\ shouldRotate' = shouldRotate \/ shouldRotate' = FALSE
      BY DEF createNewFile, RotateWhenQuiet, Restart
    <2>4. CASE rotate \/ flushSentLogfile
      BY <2>1, <2>4 DEF rotate, flushSentLogfile
    <2>5. CASE UNCHANGED disk
      BY <2>1, <2>5
    <2> QED
      BY <2>2, <2>3, <2>4, <2>5, NextCases, ReadCases
      DEF Elsewhere, uploadLogs, isClientConnected, PickFile, FileSent, Take, Refuse, FindRoom,
          SetSending, notifyMessageSent, cancelUpload, ForgetFile, Connect, Disconnected, Error,
          Expire, StoreID, resetMessageList, LastSlice, Published, FirstSlice
  <1>2. sending' \in BOOLEAN /\ connected' \in BOOLEAN /\ inTransit' \in 0..MaxFiles
    <2>1. /\ sending \in BOOLEAN /\ connected \in BOOLEAN /\ inTransit \in 0..MaxFiles
          /\ logfile \in 1..MaxFiles /\ closed \subseteq 1..(logfile - 1) /\ MaxFiles \in Nat
      BY UploadAssumption DEF TypeOK
    <2> USE <2>1 DEF NoFile
    <2>2. CASE PickFile
      BY <2>2 DEF PickFile, findFileToSend
    <2>3. CASE /\ sending' = sending \/ sending' = TRUE \/ sending' = FALSE
               /\ connected' = connected \/ connected' = TRUE \/ connected' = FALSE
               /\ inTransit' = inTransit \/ inTransit' = NoFile
      <3>1. sending' \in BOOLEAN /\ connected' \in BOOLEAN
        BY <2>3, Zenon
      <3>2. inTransit' \in 0..MaxFiles
        BY <2>3
      <3> QED
        BY <3>1, <3>2
    <2> QED
      BY <2>2, <2>3, NextCases, ReadCases
      DEF Elsewhere, createNewFile, RotateWhenQuiet, uploadLogs, isClientConnected, rotate, FileSent,
          flushSentLogfile, Take, Refuse, FindRoom, SetSending, notifyMessageSent, cancelUpload,
          ForgetFile, Connect, Disconnected, Error, Expire, StoreID, resetMessageList, LastSlice,
          Restart, Published, FirstSlice
  <1>3. seek' \in 0..(Max(LineEnds) + 1)
    <2> USE LastIsLast DEF Last
    <2>1. seek \in 0..(Max(LineEnds) + 1)
      BY DEF TypeOK
    <2>2. CASE OpenAndRead
      <3>1. inTransit \in closed \/ SizeOf(inTransit) = 0
        BY DEF SizeOf
      <3> QED
        BY <2>1, <2>2, <3>1, ReadCases, BlockEndsWithLine, UploadAssumption
    <2>3. CASE PickFile \/ Restart
      BY <2>1, <2>3 DEF PickFile, Restart
    <2>4. CASE UNCHANGED seek
      BY <2>1, <2>4
    <2> QED
      BY <2>2, <2>3, <2>4, NextCases
      DEF Elsewhere, createNewFile, RotateWhenQuiet, uploadLogs, isClientConnected, rotate, FileSent,
          flushSentLogfile, Take, Refuse, FindRoom, SetSending, notifyMessageSent, cancelUpload,
          ForgetFile, Connect, Disconnected, Error, Expire, StoreID, resetMessageList, LastSlice,
          Published, FirstSlice
  <1>4. ids' \in [1..ListSize -> Nat] /\ nextFree' \in Int /\ incoming' \in InIDs \cup {NoID}
    <2>1. /\ ids \in [1..ListSize -> Nat] /\ nextFree \in Int /\ ListSize \in Int
          /\ incoming \in InIDs \cup {NoID} /\ InIDs \subseteq Nat /\ NoID \in Nat
          /\ \A m \in outbox : m[1] \in Nat
      BY UploadAssumption DEF TypeOK, TaskInv, ListSize, NoID
    <2>2. \A slot \in Int, id \in Nat : NextFreeAfter(slot, id) \subseteq Int
      BY DEF NextFreeAfter
    <2>3. CASE StoreID
      <3>1. main.slot \in Int /\ main.msg \in Nat
        BY UploadAssumption DEF TaskInv
      <3> QED
        BY <2>1, <2>2, <2>3, <3>1, SetStores DEF StoreID
    <2>4. CASE resetMessageList \/ Restart
      BY <2>4 DEF resetMessageList, Restart, EmptyList, NoID
    <2>5. CASE LastSlice
      BY <2>1, <2>5, ForgetMovesUp DEF LastSlice
    <2>6. CASE \E m \in outbox : Published(m)
      BY <2>1, <2>6, ForgetMovesUp DEF Published
    <2>7. CASE \E id \in InIDs : FirstSlice(id)
      <3>1. PICK id \in InIDs : FirstSlice(id)
        BY <2>7
      <3> QED
        BY <2>1, <2>2, <3>1, SetStores DEF FirstSlice
    <2>8. CASE UNCHANGED <<ids, nextFree, incoming>>
      BY <2>1, <2>8
    <2> QED
      BY <2>3, <2>4, <2>5, <2>6, <2>7, <2>8, NextCases, ReadCases
      DEF Elsewhere, createNewFile, RotateWhenQuiet, uploadLogs, isClientConnected, PickFile, rotate,
          FileSent, flushSentLogfile, Take, Refuse, FindRoom, SetSending, notifyMessageSent,
          cancelUpload, ForgetFile, Connect, Disconnected, Error, Expire
  <1>5. mixed' \in BOOLEAN /\ excused' \subseteq 0..MaxFiles
    <2>1. mixed \in BOOLEAN /\ excused \subseteq 0..MaxFiles /\ inTransit \in 0..MaxFiles
      BY DEF TypeOK
    <2>2. CASE Take \/ \E id \in InIDs : FirstSlice(id)
      <3>1. mixed' \in BOOLEAN
        BY <2>2, Zenon DEF Take, FirstSlice
      <3>2. UNCHANGED excused
        BY <2>2 DEF Take, FirstSlice
      <3> QED
        BY <2>1, <3>1, <3>2
    <2>3. CASE /\ mixed' = mixed \/ mixed' = FALSE
               /\ excused' = excused \/ excused' = excused \cup {inTransit}
      <3>1. mixed' \in BOOLEAN
        BY <2>1, <2>3, Zenon
      <3> QED
        BY <2>1, <2>3, <3>1
    <2> QED
      BY <2>2, <2>3, NextCases, ReadCases
      DEF Elsewhere, createNewFile, RotateWhenQuiet, uploadLogs, isClientConnected, PickFile, rotate,
          FileSent, flushSentLogfile, Refuse, FindRoom, SetSending, notifyMessageSent, cancelUpload,
          ForgetFile, Connect, Disconnected, Error, Expire, StoreID, resetMessageList, LastSlice,
          Restart, Published
  <1> QED
    BY <1>1, <1>2, <1>3, <1>4, <1>5, Zenon DEF TypeOK

LEMMA TaskStep ==
  ASSUME TypeOK, TaskInv, ListInv, Next
  PROVE  TaskInv'
  <1> USE DEF PCs, At, disk, shared, history
  <1>1. TaskInv /\ nextFree \in Int /\ mixed \in BOOLEAN /\ NoID = 0
    BY DEF TypeOK, NoID
  <1>2. /\ main' = [pc |-> main'.pc, msg |-> main'.msg, slot |-> main'.slot, blk |-> main'.blk]
        /\ main'.pc \in PCs /\ main'.msg \in 0..OutIDs /\ main'.slot \in Int
    <2> USE <1>1, UploadAssumption DEF TaskInv
    <2>1. CASE \E pc \in PCs : main' = At(pc)
      BY <2>1
    <2>2. CASE OpenAndRead
      BY <2>2, ReadCases
    <2>3. CASE Take
      BY <2>3 DEF Take
    <2>4. CASE FindRoom
      <3>1. CASE main' = At("sending")
        BY <3>1
      <3>2. CASE main' = [main EXCEPT !.pc = "store", !.slot = nextFree]
        <4>1. main' = [pc |-> "store", msg |-> main.msg, slot |-> nextFree, blk |-> main.blk]
          BY <3>2
        <4> QED
          BY <4>1
      <3> QED
        BY <2>4, <3>1, <3>2 DEF FindRoom
    <2>5. CASE UNCHANGED main
      BY <2>5
    <2>6. CASE isClientConnected
      <3>1. main' = At("pick") \/ main' = At("idle")
        BY <2>6, Zenon DEF isClientConnected
      <3> QED
        BY <2>1, <3>1
    <2> QED
      BY <2>1, <2>2, <2>3, <2>4, <2>5, <2>6, NextCases
      DEF Elsewhere, createNewFile, RotateWhenQuiet, uploadLogs, PickFile, rotate, FileSent,
          flushSentLogfile, Refuse, SetSending, notifyMessageSent, cancelUpload, ForgetFile, Connect,
          Disconnected, Error, Expire, StoreID, resetMessageList, LastSlice, Restart, Published,
          FirstSlice
  <1>3. /\ \A m \in outbox' : m[1] \in 1..OutIDs
        /\ \A m, n \in outbox' : m[1] = n[1] => m = n
    <2>1. CASE Take
      <3>1. PICK id \in 1..OutIDs : IsNextID(id) /\ outbox' = outbox \cup {<<id, main.blk>>}
        BY <2>1 DEF Take
      <3>2. \A m \in outbox : m[1] # id
        BY <3>1 DEF IsNextID
      <3> QED
        BY <1>1, <3>1, <3>2 DEF TaskInv
    <2>2. CASE outbox' \subseteq outbox
      BY <1>1, <2>2 DEF TaskInv
    <2> QED
      BY <2>1, <2>2, NextCases, ReadCases
      DEF Elsewhere, createNewFile, RotateWhenQuiet, uploadLogs, isClientConnected, PickFile, rotate,
          FileSent, flushSentLogfile, Refuse, FindRoom, SetSending, notifyMessageSent, cancelUpload,
          ForgetFile, Connect, Disconnected, Error, Expire, StoreID, resetMessageList, LastSlice,
          Restart, Published, FirstSlice
  <1>4. /\ mqtt' \in Handling
        /\ sending' => main'.pc = "idle"
        /\ mqtt' = "notify" /\ ~mixed' => Awaited'
    <2> USE <1>1 DEF TaskInv, Handling, Awaited
    <2>1. CASE createNewFile \/ RotateWhenQuiet \/ rotate \/ \E m \in outbox : Expire(m)
      BY <2>1 DEF createNewFile, RotateWhenQuiet, rotate, Expire
    <2>2. CASE uploadLogs \/ isClientConnected \/ PickFile
      BY <2>2 DEF uploadLogs, isClientConnected, PickFile
    <2>3. CASE OpenAndRead
      BY <2>3, ReadCases
    <2>4. CASE FileSent \/ flushSentLogfile \/ Refuse \/ FindRoom \/ StoreID \/ SetSending
      BY <2>4 DEF FileSent, flushSentLogfile, Refuse, FindRoom, StoreID, SetSending
    <2>5. CASE Take
      <3>1. main.pc = "enqueue" /\ UNCHANGED <<mqtt, sending>> /\ (~mixed' => ~mixed)
        BY <2>5 DEF Take
      <3> QED
        BY <3>1
    <2>6. CASE notifyMessageSent \/ cancelUpload \/ ForgetFile \/ resetMessageList
      BY <2>6 DEF notifyMessageSent, cancelUpload, ForgetFile, resetMessageList
    <2>7. CASE Restart \/ LastSlice \/ \E id \in InIDs : FirstSlice(id)
      BY <2>7 DEF Restart, LastSlice, FirstSlice, Event
    <2>8. CASE \E m \in outbox : Published(m)
      <3>1. PICK m \in outbox : Published(m)
        BY <2>8
      <3>2. mqtt = "idle" /\ UNCHANGED <<main, sending, mixed>> /\ mqtt' \in {"idle", "notify"}
        BY <3>1 DEF Published, Event
      <3>3. mqtt' = "notify" => Found(m)
        BY <3>1, <3>2 DEF Published, Found
      <3>4. Found(m) /\ ~mixed => Awaited
        BY <3>2 DEF ListInv, HalfCancelled, Resetting
      <3> QED
        BY <3>2, <3>3, <3>4
    <2>9. CASE Connect
      BY <2>9 DEF Connect, Event
    <2>10. CASE Disconnected \/ Error
      BY <2>10 DEF Disconnected, Error, Event
    <2> QED
      BY <2>1, <2>2, <2>3, <2>4, <2>5, <2>6, <2>7, <2>8, <2>9, <2>10, NextCases DEF Elsewhere
  <1> QED
    BY <1>2, <1>3, <1>4 DEF TaskInv

\* No block is read while a confirmation can be recognised.
LEMMA FoundIsAwaited ==
  ASSUME ListInv, ~mixed, ~HalfCancelled, ~Resetting, ~Awaited
  PROVE  \A m \in outbox : ~Found(m)
  BY DEF ListInv

\* Only StoreID and the first slice of a download put an ID into the list.
LEMMA FoundBefore ==
  ASSUME TypeOK, TaskInv, Next, NEW m \in outbox, Found(m)'
  PROVE  \/ Found(m) \/ (StoreID /\ m[1] = main.msg)
         \/ FirstSlice(m[1]) /\ mixed'
  <1>1. /\ m[1] \in 1..OutIDs /\ m[1] # NoID /\ ids \in [1..ListSize -> Nat] /\ nextFree \in Int
        /\ InIDs \subseteq Nat /\ main.msg \in Nat /\ main.slot \in Int
        /\ incoming \in Nat /\ \A n \in outbox : n[1] \in Nat
    BY UploadAssumption DEF TypeOK, TaskInv, NoID
  <1>2. PICK i \in 1..ListSize : ids'[i] = m[1]
    BY DEF Found, findMessageID
  <1>3. CASE UNCHANGED ids
    BY <1>3 DEF Found, findMessageID
  <1>4. CASE ids' = EmptyList
    BY <1>1, <1>2, <1>4 DEF EmptyList
  <1>5. ASSUME NEW id \in Nat, ids' = forgetMessage(ids, id), findMessageID(ids, id)
        PROVE  Found(m)
    <2>1. ids \in [1..ListSize -> Nat]
      BY <1>1
    <2>2. \/ forgetMessage(ids, id)[i] = NoID
          \/ \E j \in 1..ListSize : forgetMessage(ids, id)[i] = ids[j]
      BY <1>5, <2>1, ForgetMovesUp
    <2> QED
      BY <1>1, <1>2, <1>5, <2>2 DEF Found, findMessageID
  <1>6. CASE StoreID
    <2>1. ids' = SetID(ids, main.slot, main.msg)
      BY <1>6 DEF StoreID
    <2>2. ids'[i] \in {ids[i], main.msg}
      BY <1>1, <2>1, SetStores
    <2> QED
      BY <1>2, <1>6, <2>2 DEF Found, findMessageID
  <1>7. CASE LastSlice
    BY <1>1, <1>3, <1>5, <1>7 DEF LastSlice
  <1>8. CASE \E n \in outbox : Published(n)
    BY <1>1, <1>3, <1>5, <1>8 DEF Published
  <1>9. CASE \E id \in InIDs : FirstSlice(id)
    <2>1. PICK id \in InIDs : FirstSlice(id)
      BY <1>9
    <2>2. CASE ids' = SetID(ids, nextFree, id)
      <3>1. ids'[i] \in {ids[i], id}
        BY <1>1, <2>2, SetStores
      <3>2. CASE ids'[i] = id
        <4>1. m[1] = id
          BY <1>2, <3>2
        <4> QED
          BY <2>1, <4>1 DEF FirstSlice
      <3> QED
        BY <1>2, <3>1, <3>2 DEF Found, findMessageID
    <2> QED
      BY <1>3, <2>1, <2>2 DEF FirstSlice
  <1> QED
    BY <1>3, <1>4, <1>6, <1>7, <1>8, <1>9, NextCases, ReadCases
    DEF Elsewhere, createNewFile, RotateWhenQuiet, uploadLogs, isClientConnected, PickFile, rotate,
        FileSent, flushSentLogfile, Take, Refuse, FindRoom, SetSending, notifyMessageSent,
        cancelUpload, ForgetFile, Connect, Disconnected, Error, Expire, resetMessageList, Restart,
        shared

\* A message that is taken has an ID that is not in the list, or mixed is set.
LEMMA TakenIsNotFound ==
  ASSUME Take, ~mixed'
  PROVE  \E id \in 1..OutIDs :
           /\ outbox' = outbox \cup {<<id, main.blk>>} /\ main' = [At("remember") EXCEPT !.msg = id]
           /\ \A m \in outbox : m[1] # id
           /\ ~findMessageID(ids, id)
  BY DEF Take, IsNextID

LEMMA ListStep ==
  ASSUME TypeOK, TaskInv, ListInv, Next
  PROVE  ListInv'
  <1> SUFFICES ASSUME ~mixed', ~HalfCancelled', ~Resetting'
               PROVE  \A m \in outbox' : Found(m)' => /\ mqtt' # "notify" /\ Awaited'
                                                      /\ \A n \in outbox' : Found(n)' => m = n
    BY DEF ListInv
  <1> USE DEF shared, history
  <1>1. /\ \A m, n \in outbox : m[1] = n[1] => m = n
        /\ sending => main.pc = "idle"
        /\ mqtt = "notify" /\ ~mixed => Awaited
    BY DEF TaskInv
  <1>2. CASE resetMessageList \/ Restart
    <2>1. ids' = EmptyList /\ outbox' \subseteq outbox
      BY <1>2 DEF resetMessageList, Restart
    <2>2. \A m \in outbox' : m[1] # NoID
      BY <2>1, UploadAssumption DEF TaskInv, NoID
    <2>3. \A m \in outbox' : ~Found(m)'
      BY <2>1, <2>2 DEF Found, findMessageID, EmptyList
    <2> QED
      BY <2>3
  <1>3. CASE Take
    <2>1. main.pc = "enqueue" /\ ~mixed /\ UNCHANGED <<ids, mqtt>>
      BY <1>3 DEF Take
    <2>2. \A m \in outbox : ~Found(m)
      BY <2>1, FoundIsAwaited DEF Awaited, HalfCancelled, Resetting
    <2>3. \A m \in outbox' : ~Found(m)'
      BY <1>3, <2>1, <2>2, TakenIsNotFound DEF Found
    <2> QED
      BY <2>3
  <1>4. CASE StoreID
    <2>1. /\ main.pc = "store" /\ main' = At("sending") /\ UNCHANGED <<mqtt, mixed, outbox>>
      BY <1>4 DEF StoreID
    <2>2. ~Awaited /\ mqtt # "notify"
      BY <1>1, <2>1 DEF Awaited
    <2>3. \A m \in outbox : ~Found(m)
      BY <2>1, <2>2, FoundIsAwaited DEF HalfCancelled, Resetting
    <2>4. \A id : ~FirstSlice(id)
      BY <2>1 DEF FirstSlice, At
    <2>5. \A m \in outbox : Found(m)' => m[1] = main.msg
      BY <2>3, <2>4, FoundBefore
    <2>6. Awaited'
      BY <2>1 DEF Awaited, At
    <2> QED
      BY <1>1, <2>1, <2>2, <2>5, <2>6
  <1>5. CASE cancelUpload \/ ForgetFile
    BY <1>5 DEF cancelUpload, ForgetFile, HalfCancelled, Resetting
  <1>6. CASE \E m \in outbox : Published(m)
    <2>1. PICK m \in outbox : Published(m)
      BY <1>6
    <2>2. /\ mqtt = "idle" /\ outbox' = outbox \ {m} /\ UNCHANGED <<main, sending, mixed>>
          /\ ~HalfCancelled /\ ~Resetting
      BY <2>1 DEF Published, Event, HalfCancelled, Resetting
    <2>3. \A n \in outbox' : Found(n)' => Found(n)
      BY <2>1, <2>2, FoundBefore DEF FirstSlice, StoreID, Published
    <2>4. CASE Found(m)
      <3>1. \A n \in outbox' : ~Found(n)
        BY <2>2, <2>4 DEF ListInv
      <3> QED
        BY <2>3, <3>1
    <2>5. CASE ~Found(m)
      <3>1. mqtt' = "idle"
        BY <2>1, <2>2, <2>5 DEF Published, Found
      <3> QED
        BY <2>2, <2>3, <3>1 DEF ListInv, Awaited
    <2> QED
      BY <2>4, <2>5
  <1>7. CASE /\ Elsewhere \/ LastSlice \/ (\E m \in outbox : Expire(m)) \/ \E id \in InIDs : FirstSlice(id)
             /\ ~cancelUpload /\ ~ForgetFile
    <2>1. outbox' \subseteq outbox
      BY <1>7, ReadCases
      DEF Elsewhere, createNewFile, RotateWhenQuiet, uploadLogs, isClientConnected, PickFile, rotate,
          FileSent, flushSentLogfile, Refuse, FindRoom, SetSending, notifyMessageSent, Connect,
          Disconnected, Error, LastSlice, Expire, FirstSlice
    <2>2. ~mixed /\ ~HalfCancelled /\ ~Resetting /\ (mqtt' = "notify" => mqtt = "notify")
      <3>1. CASE \E id \in InIDs : FirstSlice(id)
        <4>1. (mixed => mixed') /\ mqtt = "idle" /\ UNCHANGED mqtt
          BY <3>1 DEF FirstSlice, Event
        <4> QED
          BY <4>1 DEF HalfCancelled, Resetting
      <3>2. CASE Disconnected \/ Error \/ notifyMessageSent
        BY <3>2 DEF Disconnected, Error, notifyMessageSent, Event, HalfCancelled, Resetting
      <3>3. CASE UNCHANGED <<mixed, mqtt>>
        BY <3>3 DEF HalfCancelled, Resetting
      <3> QED
        BY <1>7, <3>1, <3>2, <3>3, ReadCases
        DEF Elsewhere, createNewFile, RotateWhenQuiet, uploadLogs, isClientConnected, PickFile, rotate,
            FileSent, flushSentLogfile, Refuse, FindRoom, SetSending, Connect, LastSlice, Expire
    <2>3. \A m \in outbox : Found(m)' => Found(m)
      <3>1. ~StoreID
        <4>1. CASE main.pc = "store"
          <5>1. ~Awaited
            BY <1>1, <4>1 DEF Awaited
          <5>2. UNCHANGED ids \/ UNCHANGED main
            BY <1>7, ReadCases
            DEF Elsewhere, createNewFile, RotateWhenQuiet, uploadLogs, isClientConnected, PickFile,
                rotate, FileSent, flushSentLogfile, Refuse, FindRoom, SetSending, notifyMessageSent,
                Connect, Disconnected, Error, LastSlice, Expire, FirstSlice
          <5> QED
            BY <1>7, <4>1, <5>2, ReadCases
            DEF StoreID, At, Elsewhere, createNewFile, RotateWhenQuiet, uploadLogs, isClientConnected,
                PickFile, rotate, FileSent, flushSentLogfile, Refuse, FindRoom, SetSending,
                notifyMessageSent, Connect, Disconnected, Error, LastSlice, Expire, FirstSlice
        <4> QED
          BY <4>1 DEF StoreID
      <3> QED
        BY <3>1, FoundBefore
    <2>4. CASE Awaited'
      BY <2>1, <2>2, <2>3, <2>4 DEF ListInv
    <2>5. CASE ~Awaited'
      <3>1. CASE ~Awaited
        BY <2>1, <2>2, <2>3, <3>1, FoundIsAwaited
      <3>2. CASE Awaited
        <4>1. notifyMessageSent
          BY <1>1, <1>7, <2>5, <3>2, ReadCases
          DEF Awaited, At, Elsewhere, createNewFile, RotateWhenQuiet, uploadLogs, isClientConnected,
              PickFile, rotate, FileSent, flushSentLogfile, Refuse, FindRoom, SetSending, Connect,
              Disconnected, Error, LastSlice, Expire, FirstSlice
        <4>2. mqtt = "notify"
          BY <4>1 DEF notifyMessageSent
        <4> QED
          BY <2>1, <2>2, <2>3, <4>2 DEF ListInv
      <3> QED
        BY <3>1, <3>2
    <2> QED
      BY <2>4, <2>5
  <1> QED
    BY <1>2, <1>3, <1>4, <1>5, <1>6, <1>7, NextCases

LEMMA SeekStep ==
  ASSUME TypeOK, SeekInv, Next
  PROVE  SeekInv'
  <1>1. /\ seek \in Nat /\ LineEnds \subseteq Nat
        /\ inTransit # NoFile => inTransit \in closed
        /\ seek = 0 \/ seek - 1 \in LineEnds
    BY LastIsLast, UploadAssumption DEF TypeOK, Last, SeekInv
  <1>2. inTransit' # NoFile => inTransit' \in closed'
    <2>1. CASE inTransit' \in {inTransit, NoFile} /\ closed \subseteq closed'
      BY <1>1, <2>1
    <2>2. CASE PickFile
      BY <1>1, <2>2 DEF PickFile, findFileToSend, disk
    <2>3. CASE flushSentLogfile
      BY <2>3 DEF flushSentLogfile
    <2> QED
      BY <2>1, <2>2, <2>3, NextCases, ReadCases
      DEF Elsewhere, createNewFile, RotateWhenQuiet, uploadLogs, isClientConnected, rotate, FileSent,
          Take, Refuse, FindRoom, SetSending, notifyMessageSent, cancelUpload, ForgetFile, Connect,
          Disconnected, Error, Expire, StoreID, resetMessageList, LastSlice, Restart, Published,
          FirstSlice, disk, shared
  <1>3. seek' = 0 \/ seek' - 1 \in LineEnds
    <2>1. CASE OpenAndRead
      <3>1. inTransit \in closed \/ SizeOf(inTransit) = 0
        BY DEF SizeOf
      <3> QED
        BY <1>1, <2>1, <3>1, ReadCases, BlockEndsWithLine
    <2>2. CASE seek' \in {seek, 0}
      BY <1>1, <2>2
    <2> QED
      BY <2>1, <2>2, NextCases
      DEF Elsewhere, createNewFile, RotateWhenQuiet, uploadLogs, isClientConnected, PickFile, rotate,
          FileSent, flushSentLogfile, Take, Refuse, FindRoom, SetSending, notifyMessageSent,
          cancelUpload, ForgetFile, Connect, Disconnected, Error, Expire, StoreID, resetMessageList,
          LastSlice, Restart, Published, FirstSlice
  <1> QED
    BY <1>2, <1>3 DEF SeekInv

LEMMA ReachesWithMore ==
  ASSUME NEW few, NEW many, few \subseteq many, NEW f, NEW s, Reaches(few, f, s)
  PROVE  Reaches(many, f, s)
  BY DEF Reaches

LEMMA KeptStep ==
  ASSUME IInv, Next
  PROVE  NoLogLost'
  <1> DEFINE Gone == (1..(logfile - 1)) \ closed
             Kept(f) == \A l \in LinesOf(f) : \E b \in received : InBlock(l, f, b)
  <1>1. /\ TypeOK /\ logfile \in Nat \ {0} /\ closed \subseteq 1..(logfile - 1)
        /\ seek \in Nat /\ \A f \in Gone : f \in excused \/ Kept(f)
    BY LastIsLast, UploadAssumption
    DEF IInv, TasksInv, TypeOK, NoLogLost, Delivered, InBlock, Last
  <1>2. received \subseteq received' /\ excused \subseteq excused'
    BY <1>1, NextCases, ReadCases
    DEF Elsewhere, createNewFile, RotateWhenQuiet, uploadLogs, isClientConnected, PickFile, rotate,
        FileSent, flushSentLogfile, Take, Refuse, FindRoom, SetSending, notifyMessageSent,
        cancelUpload, ForgetFile, Connect, Disconnected, Error, Expire, StoreID, resetMessageList,
        LastSlice, Restart, Published, FirstSlice, history
  <1>3. \A f : Kept(f) => Kept(f)'
    BY <1>2 DEF LinesOf, InBlock
  <1>4. SUFFICES ASSUME NEW f \in Gone' PROVE f \in excused' \/ Kept(f)'
    BY DEF NoLogLost, Delivered, InBlock
  <1>5. CASE UNCHANGED <<logfile, closed>>
    BY <1>1, <1>2, <1>3, <1>5
  <1>6. CASE logfile' = logfile + 1 /\ closed' = closed \cup {logfile}
    <2>1. Gone' = Gone
      BY <1>1, <1>6
    <2> QED
      BY <1>1, <1>2, <1>3, <2>1
  <1>7. CASE flushSentLogfile
    <2>1. CASE f \in Gone
      BY <1>1, <1>2, <1>3, <2>1
    <2>2. CASE f \notin Gone
      <3>1. f = inTransit /\ f # NoFile /\ f \in closed
        BY <1>1, <1>7, <2>2 DEF flushSentLogfile, NoFile
      <3>2. CASE mixed \/ HalfCancelled \/ f \in excused
        BY <1>2, <1>7, <3>1, <3>2 DEF flushSentLogfile
      <3>3. CASE ~mixed /\ ~HalfCancelled /\ f \notin excused
        <4>1. Claimed /\ Settled /\ main.pc = "flush"
          BY <1>7, <3>1, <3>3 DEF Claimed, Settled, flushSentLogfile
        <4>2. Reaches(received, f, seek) /\ seek >= SizeOf(f)
          BY <3>1, <4>1 DEF IInv, ClaimInv
        <4> QED
          BY <1>1, <1>3, <3>1, <4>2, EndReachesAll
      <3> QED
        BY <3>2, <3>3
    <2> QED
      BY <2>1, <2>2
  <1> QED
    BY <1>1, <1>5, <1>6, <1>7, NextCases, ReadCases
    DEF Elsewhere, createNewFile, RotateWhenQuiet, uploadLogs, isClientConnected, PickFile, rotate,
        FileSent, Take, Refuse, FindRoom, SetSending, notifyMessageSent, cancelUpload, ForgetFile,
        Connect, Disconnected, Error, Expire, StoreID, resetMessageList, LastSlice, Restart,
        Published, FirstSlice, disk

\* What ClaimInv says of a file that NoLogLost answers for.
Claim ==
  /\ Settled => Reaches(received, inTransit, seek)
  /\ main.pc \in {"sent", "flush"} => seek >= SizeOf(inTransit)
  /\ main.pc = "enqueue" => Reaches(received \cup {main.blk}, inTransit, seek)
  /\ \A m \in outbox : Pending(m) => Reaches(received \cup {m[2]}, inTransit, seek)

\* While no confirmation is awaited, nothing but what the main task is at is pending.
LEMMA NothingPending ==
  ASSUME TaskInv, ListInv, Claimed, ~Awaited, main.pc \notin {"remember", "store"}
  PROVE  mqtt # "notify" /\ \A m \in outbox : ~Pending(m)
  BY FoundIsAwaited DEF TaskInv, Claimed, Pending, Resetting

LEMMA ClaimStep ==
  ASSUME IInv, Next
  PROVE  ClaimInv'
  <1> SUFFICES ASSUME Claimed' PROVE Claim'
    BY DEF ClaimInv, Claim
  <1> USE DEF disk, shared, history
  <1>1. /\ TypeOK /\ TaskInv /\ ListInv /\ SeekInv
        /\ Claimed => Claim
        /\ seek \in Nat /\ inTransit \in Nat
        /\ inTransit # NoFile => inTransit \in closed
    BY LastIsLast, UploadAssumption DEF IInv, TasksInv, TypeOK, Last, ClaimInv, Claim, SeekInv
  <1>2. CASE uploadLogs \/ isClientConnected
    <2>1. /\ ~Awaited /\ main.pc \in {"idle", "online"} /\ (main.pc = "idle" => ~sending)
          /\ UNCHANGED <<inTransit, excused, mixed, mqtt, ids, seek, received, outbox, sending, closed, torn>>
          /\ main'.pc \in {"online", "pick", "idle"}
      BY <1>2 DEF uploadLogs, isClientConnected, Awaited, At
    <2>2. Claimed
      BY <2>1 DEF Claimed, HalfCancelled, Resetting
    <2>3. \A m \in outbox : ~Pending(m)
      BY <1>1, <2>1, <2>2, NothingPending
    <2>4. Settled
      BY <2>1 DEF Settled
    <2>5. \A m \in outbox : ~Pending(m)'
      BY <2>1, <2>3 DEF Pending, Found, Resetting
    <2> QED
      BY <1>1, <2>1, <2>2, <2>4, <2>5 DEF Claim
  <1>3. CASE PickFile
    <2>1. main.pc = "pick" /\ ~Awaited /\ UNCHANGED <<excused, mixed, mqtt, ids, received, outbox>>
      BY <1>3 DEF PickFile, Awaited
    <2>2. main' = At("open")
      BY <1>3 DEF PickFile, Claimed
    <2>3. \A m \in outbox' : ~Pending(m)'
      <3>1. ~Resetting => ~mixed /\ ~HalfCancelled
        BY <2>1 DEF Claimed, HalfCancelled, Resetting
      <3>2. ~Resetting => \A m \in outbox : ~Found(m)
        BY <1>1, <2>1, <3>1, FoundIsAwaited
      <3> QED
        BY <2>1, <2>2, <3>2 DEF Pending, Found, At, Resetting
    <2>4. Reaches(received', inTransit', seek')
      <3>1. CASE UNCHANGED <<inTransit, seek>>
        <4>1. Claimed /\ Settled
          BY <2>1, <3>1 DEF Claimed, HalfCancelled, Resetting, Settled
        <4> QED
          BY <1>1, <2>1, <3>1, <4>1 DEF Claim
      <3>2. CASE seek' = 0
        BY <3>2, LinesEndAtZeros DEF Reaches
      <3> QED
        BY <1>3, <3>1, <3>2 DEF PickFile
    <2> QED
      BY <2>2, <2>3, <2>4 DEF Claim, At
  <1>4. CASE OpenAndRead
    <2>1. /\ main.pc = "open" /\ ~Awaited /\ UNCHANGED inTransit
          /\ UNCHANGED <<mixed, mqtt, ids, received, outbox, closed, torn>>
      BY <1>1, <1>4, ReadCases DEF Awaited, Claimed
    <2>2. Claimed /\ Settled
      BY <1>1, <1>4, <2>1, ReadCases DEF Claimed, HalfCancelled, Resetting, Settled
    <2>3. inTransit \in closed /\ Reaches(received, inTransit, seek)
      BY <1>1, <2>2 DEF Claim, Claimed
    <2>4. main'.pc \in {"sent", "idle", "enqueue"}
      BY <1>1, <1>4, ReadCases DEF At
    <2>5. mqtt # "notify" /\ \A m \in outbox' : ~Pending(m)'
      BY <1>1, <2>1, <2>2, <2>4, NothingPending DEF Pending, Found, Resetting
    <2>6. CASE seek >= SizeOf(inTransit) /\ main' = At("sent") /\ UNCHANGED seek
      BY <2>1, <2>3, <2>5, <2>6 DEF Claim, At, SizeOf
    <2>7. CASE LET len == CompleteLength(inTransit, SizeOf(inTransit)) IN
                 /\ seek < SizeOf(inTransit)
                 /\ main' = [At("enqueue") EXCEPT !.blk = <<inTransit, seek, len>>]
                 /\ seek' = seek + len + 1
      <3> DEFINE len == CompleteLength(inTransit, SizeOf(inTransit))
      <3>1. Reaches(received \cup {<<inTransit, seek, len>>}, inTransit, seek + len + 1)
        BY <1>1, <2>3, <2>7, BlockHasItsLines
      <3>2. main'.pc = "enqueue" /\ main'.blk = <<inTransit, seek, len>> /\ seek' = seek + len + 1
        BY <2>7 DEF At
      <3> HIDE DEF len
      <3>3. ~Settled'
        BY <2>1, <2>5, <3>2 DEF Settled
      <3> QED
        BY <2>1, <2>5, <3>1, <3>2, <3>3 DEF Claim
    <2> QED
      BY <1>1, <1>4, <2>6, <2>7, ReadCases DEF Claimed
  <1>5. CASE FileSent \/ flushSentLogfile
    <2>1. CASE FileSent
      <3>1. /\ UNCHANGED <<inTransit, excused, mixed, mqtt, ids, seek, received, outbox, closed, torn>>
            /\ main.pc = "sent" /\ main'.pc = "flush"
        BY <2>1 DEF FileSent, At
      <3>2. Claimed /\ Settled
        BY <3>1 DEF Claimed, HalfCancelled, Resetting, Settled
      <3> QED
        BY <1>1, <3>1, <3>2 DEF Claim, Pending, Found, Resetting, SizeOf
    <2>2. CASE flushSentLogfile
      BY <2>2 DEF flushSentLogfile, Claimed
    <2> QED
      BY <1>5, <2>1, <2>2
  <1>6. CASE Take
    <2>1. /\ main.pc = "enqueue" /\ ~Awaited /\ (mixed => mixed')
          /\ UNCHANGED <<inTransit, excused, mqtt, ids, seek, received, closed, torn>>
      BY <1>6 DEF Take, Awaited
    <2>2. Claimed
      BY <2>1 DEF Claimed, HalfCancelled, Resetting
    <2>3. mqtt # "notify" /\ \A m \in outbox : ~Pending(m)
      BY <1>1, <2>1, <2>2, NothingPending
    <2>4. PICK id \in 1..OutIDs : /\ outbox' = outbox \cup {<<id, main.blk>>} /\ IsNextID(id)
                                  /\ main' = [At("remember") EXCEPT !.msg = id]
      BY <1>6 DEF Take
    <2>5. main'.pc = "remember" /\ main'.msg = id
      BY <2>4 DEF At
    <2>6. \A m \in outbox : m[1] # id
      BY <2>4 DEF IsNextID
    <2>7. \A m \in outbox' : Pending(m)' => m[2] = main.blk
      BY <2>1, <2>3, <2>4, <2>5, <2>6 DEF Pending, Found, Resetting
    <2>8. ~Settled'
      BY <2>1, <2>3, <2>5 DEF Settled
    <2> QED
      BY <1>1, <2>1, <2>2, <2>5, <2>7, <2>8 DEF Claim
  <1>7. CASE FindRoom \/ SetSending
    <2>1. /\ UNCHANGED <<inTransit, excused, mixed, mqtt, ids, seek, received, outbox, closed, torn>>
          /\ main.pc \in {"remember", "sending"} /\ main'.pc \in {"store", "sending", "idle"}
          /\ main'.pc = "store" => main.pc = "remember" /\ main'.msg = main.msg
          /\ main'.pc = "idle" => sending'
      <3>1. CASE FindRoom
        <4>1. main = [pc |-> main.pc, msg |-> main.msg, slot |-> main.slot, blk |-> main.blk]
          BY <1>1 DEF TaskInv
        <4>2. \/ main' = At("sending")
              \/ main' = [pc |-> "store", msg |-> main.msg, slot |-> nextFree, blk |-> main.blk]
          <5>1. CASE main' = [main EXCEPT !.pc = "store", !.slot = nextFree]
            BY <4>1, <5>1
          <5> QED
            BY <3>1, <5>1 DEF FindRoom
        <4> QED
          BY <3>1, <4>2 DEF FindRoom, At
      <3>2. CASE SetSending
        BY <3>2 DEF SetSending, At
      <3> QED
        BY <1>7, <3>1, <3>2
    <2>2. Claimed
      BY <2>1 DEF Claimed, HalfCancelled, Resetting
    <2>3. (Settled' => Settled) /\ \A m \in outbox : Pending(m)' => Pending(m)
      BY <2>1 DEF Settled, Pending, Found, Resetting
    <2> QED
      BY <1>1, <2>1, <2>2, <2>3 DEF Claim
  <1>8. CASE StoreID
    <2>1. /\ UNCHANGED <<inTransit, excused, mixed, mqtt, seek, received, outbox, closed, torn>>
          /\ main.pc = "store" /\ main'.pc = "sending" /\ main # main'
      BY <1>8 DEF StoreID, At
    <2>2. Claimed
      BY <2>1 DEF Claimed, HalfCancelled, Resetting
    <2>3. \A m \in outbox : Pending(m)' => Pending(m)
      BY <1>1, <2>1, FoundBefore DEF Pending, Resetting, FirstSlice
    <2>4. Settled' => Settled
      BY <2>1 DEF Settled
    <2> QED
      BY <1>1, <2>1, <2>2, <2>3, <2>4 DEF Claim
  <1>9. CASE notifyMessageSent
    <2>1. /\ UNCHANGED <<inTransit, excused, mixed, main, ids, seek, received, outbox, closed, torn>>
          /\ mqtt = "notify" /\ mqtt' = "idle"
      BY <1>9 DEF notifyMessageSent
    <2>2. Claimed /\ Settled
      BY <2>1 DEF Claimed, HalfCancelled, Resetting, Settled
    <2> QED
      BY <1>1, <2>1, <2>2 DEF Claim, Pending, Found, Resetting, SizeOf
  <1>10. CASE cancelUpload \/ ForgetFile \/ Refuse \/ Restart
    BY <1>10 DEF cancelUpload, ForgetFile, Refuse, Restart, Claimed, HalfCancelled
  <1>11. CASE resetMessageList
    <2>1. /\ UNCHANGED <<inTransit, excused, main, sending, seek, received, outbox, closed, torn>>
          /\ Resetting /\ mqtt' \in {"idle", "drop"} /\ ids' = EmptyList
      BY <1>11 DEF resetMessageList, Resetting
    <2>2. Claimed
      BY <2>1 DEF Claimed, HalfCancelled, Resetting
    <2>3. \A m \in outbox : ~Found(m)'
      <3>1. \A m \in outbox : m[1] # NoID
        BY <1>1, UploadAssumption DEF TaskInv, NoID
      <3> QED
        BY <2>1, <3>1 DEF Found, findMessageID, EmptyList
    <2>4. (Settled' => Settled) /\ \A m \in outbox : Pending(m)' => Pending(m)
      BY <2>1, <2>3 DEF Settled, Pending
    <2> QED
      BY <1>1, <2>1, <2>2, <2>4 DEF Claim, SizeOf
  <1>12. CASE Connect \/ Disconnected \/ Error
    <2>1. /\ UNCHANGED <<inTransit, excused, mixed, main, sending, ids, seek, received, outbox, closed, torn>>
          /\ mqtt \in {"idle", "drop"} /\ mqtt' \in {"idle", "cancel", "cancelThenDrop"}
      BY <1>12 DEF Connect, Disconnected, Error, Event
    <2>2. Claimed
      BY <2>1 DEF Claimed, HalfCancelled, Resetting
    <2>3. (Settled' => Settled) /\ \A m \in outbox : Pending(m)' => Pending(m)
      BY <2>1 DEF Settled, Pending, Found, Resetting
    <2> QED
      BY <1>1, <2>1, <2>2, <2>3 DEF Claim, SizeOf
  <1>13. CASE LastSlice \/ (\E m \in outbox : Expire(m)) \/ \E id \in InIDs : FirstSlice(id)
    <2>1. /\ UNCHANGED <<inTransit, excused, main, sending, mqtt, seek, received, closed, torn>>
          /\ outbox' \subseteq outbox /\ (mixed => mixed')
      <3>1. CASE LastSlice
        BY <3>1 DEF LastSlice
      <3>2. CASE \E m \in outbox : Expire(m)
        BY <3>2 DEF Expire
      <3>3. CASE \E id \in InIDs : FirstSlice(id)
        BY <3>3 DEF FirstSlice
      <3> QED
        BY <1>13, <3>1, <3>2, <3>3
    <2>2. Claimed
      BY <2>1 DEF Claimed, HalfCancelled, Resetting
    <2>3. \A m \in outbox : Found(m)' /\ ~Resetting => Found(m)
      <3>1. ~StoreID
        BY <1>13, <2>1 DEF StoreID, At, LastSlice, Expire, FirstSlice
      <3>2. ~Resetting => ~mixed'
        BY <2>1 DEF Claimed, Resetting
      <3> QED
        BY <1>1, <3>1, <3>2, FoundBefore
    <2>4. (Settled' => Settled) /\ \A m \in outbox : Pending(m)' => Pending(m)
      BY <2>1, <2>3 DEF Settled, Pending, Resetting
    <2> QED
      BY <1>1, <2>1, <2>2, <2>4 DEF Claim, SizeOf
  <1>14. CASE \E m \in outbox : Published(m)
    <2>1. PICK m \in outbox : Published(m)
      BY <1>14
    <2>2. /\ received' = received \cup {m[2]} /\ outbox' \subseteq outbox /\ mqtt = "idle"
          /\ UNCHANGED <<inTransit, excused, mixed, seek, main, sending, closed, torn>>
          /\ mqtt' = "notify" => Found(m)
          /\ mqtt' \in {"idle", "notify"}
      BY <2>1 DEF Published, Event, Found
    <2>3. Claimed /\ ~Resetting /\ ~Resetting'
      BY <2>2 DEF Claimed, HalfCancelled, Resetting
    <2>4. Settled' => Reaches(received', inTransit', seek')
      <3>1. CASE Found(m)
        BY <1>1, <2>2, <2>3, <3>1 DEF Claim, Pending
      <3>2. CASE ~Found(m)
        <4>1. Settled' => Settled
          BY <2>2, <3>2 DEF Settled
        <4> QED
          BY <1>1, <2>2, <2>3, <4>1, ReachesWithMore DEF Claim
      <3> QED
        BY <3>1, <3>2
    <2>5. ASSUME NEW n \in outbox', Pending(n)'
          PROVE  Reaches(received' \cup {n[2]}, inTransit', seek')
      <3>1. ~StoreID /\ ~FirstSlice(n[1])
        BY <2>1, <2>2 DEF StoreID, At, FirstSlice, Published
      <3>2. Pending(n)
        BY <1>1, <2>2, <2>3, <2>5, <3>1, FoundBefore DEF Pending
      <3>3. Reaches(received \cup {n[2]}, inTransit, seek)
        BY <1>1, <2>2, <2>3, <3>2 DEF Claim
      <3>4. received \cup {n[2]} \subseteq received' \cup {n[2]}
        BY <2>2
      <3> QED
        BY <2>2, <3>3, <3>4, ReachesWithMore
    <2>6. main'.pc = "enqueue" => Reaches(received' \cup {main'.blk}, inTransit', seek')
      <3>1. received \cup {main.blk} \subseteq received' \cup {main.blk}
        BY <2>2
      <3> QED
        BY <1>1, <2>2, <2>3, <3>1, ReachesWithMore DEF Claim
    <2> QED
      BY <1>1, <2>2, <2>3, <2>4, <2>5, <2>6 DEF Claim, SizeOf
  <1>15. CASE createNewFile \/ RotateWhenQuiet \/ rotate
    <2>1. /\ UNCHANGED <<inTransit, excused, mixed, mqtt, sending, ids, seek, received, outbox, torn>>
          /\ closed \subseteq closed'
          /\ UNCHANGED main \/ (main.pc = "pick" /\ main'.pc = "idle")
      BY <1>15 DEF createNewFile, RotateWhenQuiet, rotate, At
    <2>2. Claimed
      BY <2>1 DEF Claimed, HalfCancelled, Resetting
    <2>3. (Settled' => Settled) /\ \A m \in outbox : Pending(m)' => Pending(m)
      BY <2>1 DEF Settled, Pending, Found, Resetting
    <2>4. SizeOf(inTransit)' = SizeOf(inTransit)
      BY <1>1, <2>1, <2>2 DEF SizeOf, Claimed
    <2> QED
      BY <1>1, <2>1, <2>2, <2>3, <2>4 DEF Claim
  <1> QED
    BY <1>2, <1>3, <1>4, <1>5, <1>6, <1>7, <1>8, <1>9, <1>10, <1>11, <1>12, <1>13, <1>14, <1>15,
       NextCases DEF Elsewhere

-----------------------------------------------------------------------------
LEMMA InvNext ==
  ASSUME IInv, [Next]_vars
  PROVE  IInv'
  <1>1. CASE Next
    BY <1>1, TypeStep, TaskStep, ListStep, SeekStep, ClaimStep, KeptStep DEF IInv, TasksInv
  <1>2. CASE UNCHANGED vars
    <2> USE DEF vars, disk, shared, history
    <2>1. TasksInv'
      BY <1>2 DEF IInv, TasksInv, TypeOK, TaskInv, Awaited, ListInv, Found, HalfCancelled, Resetting
    <2>2. SeekInv' /\ NoLogLost'
      BY <1>2 DEF IInv, SeekInv, NoLogLost, Delivered
    <2>3. ClaimInv'
      BY <1>2 DEF IInv, ClaimInv, Claimed, HalfCancelled, Resetting, Settled, Pending, Found, SizeOf
    <2> QED
      BY <2>1, <2>2, <2>3 DEF IInv
  <1> QED
    BY <1>1, <1>2

LEMMA InvAlways == Spec => []IInv
  BY InvInit, InvNext, PTL DEF Spec

\* The list of IDs, the file in transit and the place in it are what the two tasks
\* take them for, also when the list is written beyond its end and when files cannot be
\* opened: no block goes beyond the end of the file.
THEOREM UploadTypeCorrect == Spec => []TypeOK
  <1>1. IInv => TypeOK
    BY DEF IInv, TasksInv
  <1> QED
    BY <1>1, InvAlways, PTL

\* A log file is deleted when the broker has confirmed every line of it, whatever gets
\* lost with a connection, in a restart or because the outbox is full, but for the
\* files that are excused: those that did not open once, or that were deleted in the
\* middle of cancelUpload() or while the broker used the ID of one of our messages
\* (CODE_OVERVIEW.md:92-96, mqttmanager.cpp:56-57).
THEOREM NoLogLostAlways == Spec => []NoLogLost
  <1>1. IInv => NoLogLost
    BY DEF IInv
  <1> QED
    BY <1>1, InvAlways, PTL
================================================================================
