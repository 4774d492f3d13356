--------------------------- MODULE CardReaders_proofs ---------------------------
(***************************************************************************)
(* Proofs about CardReaders, for messages of any length, any cards, and    *)
(* any number of things that go wrong.  The first part is about a card all *)
(* of whose edges are handled in time: it is read.  The second part is     *)
(* about any of them: nothing is read but the card being shown.            *)
(***************************************************************************)
EXTENDS CardReaders, FiniteSetTheorems, SequenceTheorems, TLAPS

-----------------------------------------------------------------------------
(***************************************************************************)
(* Parity.  The bits that the reader adds make a message that the library  *)
(* accepts.                                                                *)
(***************************************************************************)
Ones(bits) == {i \in DOMAIN bits : bits[i] = 1}

LEMMA OnesFinite ==
  ASSUME NEW s \in Seq(Pins)
  PROVE  IsFiniteSet(Ones(s)) /\ Cardinality(Ones(s)) \in Nat /\ Ones(s) \subseteq 1..Len(s)
  <1>1. Ones(s) \in SUBSET (1..Len(s)) /\ IsFiniteSet(1..Len(s))
    BY FS_Interval DEF Ones
  <1>2. QED
    BY <1>1, FS_Subset, FS_CardinalityType

\* A one in front of a sequence, or behind it, is one more; a zero is not.
LEMMA OnesAppend ==
  ASSUME NEW s \in Seq(Pins), NEW b \in Pins
  PROVE  Cardinality(Ones(Append(s, b))) = Cardinality(Ones(s)) + b
  <1>1. /\ DOMAIN Append(s, b) = 1..(Len(s) + 1) /\ Len(s) \in Nat /\ DOMAIN s = 1..Len(s)
        /\ \A i \in 1..Len(s) : Append(s, b)[i] = s[i]
        /\ Append(s, b)[Len(s) + 1] = b
    OBVIOUS
  <1>2. CASE b = 1
    <2>1. Ones(Append(s, b)) = Ones(s) \cup {Len(s) + 1}
      BY <1>1, <1>2 DEF Ones
    <2>2. Len(s) + 1 \notin Ones(s)
      BY <1>1 DEF Ones
    <2>3. QED
      BY <1>2, <2>1, <2>2, OnesFinite, FS_AddElement
  <1>3. CASE b = 0
    <2>1. Ones(Append(s, b)) = Ones(s)
      BY <1>1, <1>3 DEF Ones
    <2>2. QED
      BY <1>3, <2>1, OnesFinite
  <1>4. QED
    BY <1>2, <1>3 DEF Pins

LEMMA OnesPrepend ==
  ASSUME NEW s \in Seq(Pins), NEW b \in Pins
  PROVE  Cardinality(Ones(<<b>> \o s)) = Cardinality(Ones(s)) + b
  <1> DEFINE r == <<b>> \o s
             S == {i + 1 : i \in Ones(s)}
             f == [i \in Ones(s) |-> i + 1]
  <1>1. /\ DOMAIN r = 1..(Len(s) + 1) /\ Len(s) \in Nat /\ DOMAIN s = 1..Len(s)
        /\ r[1] = b
        /\ \A i \in 1..Len(s) : r[i + 1] = s[i]
    OBVIOUS
  <1>2. Cardinality(S) = Cardinality(Ones(s)) /\ IsFiniteSet(S)
    <2>1. Ones(s) \subseteq Nat
      BY OnesFinite
    <2>2. f \in Bijection(Ones(s), S)
      BY <2>1 DEF Bijection, Injection, Surjection, IsInjective
    <2>3. ExistsBijection(Ones(s), S)
      BY <2>2 DEF ExistsBijection
    <2>4. QED
      BY <2>3, OnesFinite, FS_Bijection
  <1>3. Ones(r) \ {1} = S
    <2>1. ASSUME NEW j \in Ones(r), j # 1 PROVE j \in S
      <3>1. j - 1 \in 1..Len(s) /\ (j - 1) + 1 = j /\ r[j] = 1
        BY <1>1, <2>1 DEF Ones
      <3>2. j - 1 \in Ones(s)
        BY <1>1, <3>1 DEF Ones
      <3>3. QED
        BY <3>1, <3>2
    <2>2. ASSUME NEW i \in Ones(s) PROVE i + 1 \in Ones(r) /\ i + 1 # 1
      BY <1>1, <2>2 DEF Ones
    <2>3. QED
      BY <2>1, <2>2
  <1>4. CASE b = 1
    <2>1. Ones(r) = S \cup {1} /\ 1 \notin S
      BY <1>1, <1>3, <1>4 DEF Ones
    <2>2. QED
      BY <1>2, <1>4, <2>1, OnesFinite, FS_AddElement
  <1>5. CASE b = 0
    <2>1. Ones(r) = S
      BY <1>1, <1>3, <1>5 DEF Ones
    <2>2. Cardinality(Ones(r)) = Cardinality(Ones(s))
      BY <1>2, <2>1
    <2>3. QED
      BY <1>5, <2>2, OnesFinite
  <1>6. QED
    BY <1>4, <1>5 DEF Pins

Bit(b) == IF b THEN 1 ELSE 0

LEMMA OddFlip ==
  ASSUME NEW n \in Nat
  PROVE  /\ (n % 2 = 0 \/ n % 2 = 1)
         /\ ((n + 1) % 2 = 1 <=> n % 2 # 1)
  OBVIOUS

LEMMA EvenPrepend ==
  ASSUME NEW s \in Seq(Pins)
  PROVE  ~Odd(<<Bit(Odd(s))>> \o s)
  <1>1. Cardinality(Ones(s)) \in Nat
    BY OnesFinite
  <1>2. Bit(Odd(s)) \in Pins
    BY DEF Bit, Pins
  <1>3. Cardinality(Ones(<<Bit(Odd(s))>> \o s)) = Cardinality(Ones(s)) + Bit(Odd(s))
    BY <1>2, OnesPrepend
  <1>4. \A q : Odd(q) <=> Cardinality(Ones(q)) % 2 = 1
    BY DEF Odd, Ones
  <1>5. QED
    BY <1>1, <1>3, <1>4, OddFlip DEF Bit

LEMMA OddAppend ==
  ASSUME NEW s \in Seq(Pins)
  PROVE  Odd(Append(s, Bit(~Odd(s))))
  <1>1. Cardinality(Ones(s)) \in Nat
    BY OnesFinite
  <1>2. Bit(~Odd(s)) \in Pins
    BY DEF Bit, Pins
  <1>3. Cardinality(Ones(Append(s, Bit(~Odd(s))))) = Cardinality(Ones(s)) + Bit(~Odd(s))
    BY <1>2, OnesAppend
  <1>4. \A q : Odd(q) <=> Cardinality(Ones(q)) % 2 = 1
    BY DEF Odd, Ones
  <1>5. QED
    BY <1>1, <1>3, <1>4, OddFlip DEF Bit

Half == (ExpectedBits - 2) \div 2

LEMMA HalfFacts ==
  /\ ExpectedBits \in Nat /\ ExpectedBits >= 4
  /\ Half \in Nat /\ Half >= 1 /\ ExpectedBits = 2 * Half + 2 /\ ExpectedBits \div 2 = Half + 1
  <1>1. ExpectedBits \in Nat /\ ExpectedBits >= 4 /\ ExpectedBits % 2 = 0
    BY WiegandAssumption
  <1>2. QED
    BY <1>1 DEF Half

LEMMA SameBits ==
  ASSUME NEW p \in Seq(Pins), NEW q \in Seq(Pins), Len(p) = Len(q),
         \A i \in 1..Len(p) : p[i] = q[i]
  PROVE  p = q
OBVIOUS

LEMMA RightPart ==
  ASSUME NEW a \in Pins, NEW b \in Pins, NEW c \in Seq(Pins), NEW h \in Nat, Len(c) = 2 * h
  PROVE  SubSeq(<<a>> \o c \o <<b>>, h + 2, 2 * h + 2) = Append(SubSeq(c, h + 1, 2 * h), b)
  <1> DEFINE m == <<a>> \o c \o <<b>>
             p == SubSeq(m, h + 2, 2 * h + 2)
             r == SubSeq(c, h + 1, 2 * h)
             q == Append(r, b)
  <1>1. /\ m \in Seq(Pins) /\ Len(m) = 2 * h + 2 /\ m[2 * h + 2] = b
        /\ \A i \in 1..(2 * h) : m[i + 1] = c[i]
    OBVIOUS
  <1> HIDE DEF m
  <1>2. p \in Seq(Pins) /\ Len(p) = h + 1 /\ \A i \in 1..(h + 1) : p[i] = m[h + 1 + i]
    BY <1>1
  <1>3. r \in Seq(Pins) /\ Len(r) = h /\ \A i \in 1..h : r[i] = c[h + i]
    <2> DEFINE from == h + 1
               to == 2 * h
    <2>1. from \in Int /\ to \in Int /\ \A i \in from..to : c[i] \in Pins
      OBVIOUS
    <2>2. r = SubSeq(c, from, to)
      OBVIOUS
    <2> HIDE DEF from, to, r
    <2>3. SubSeq(c, from, to) \in Seq(Pins)
      BY <2>1, SubSeqProperties
    <2>4. Len(SubSeq(c, from, to)) = IF from <= to THEN to - from + 1 ELSE 0
      BY <2>1, SubSeqProperties
    <2>5. \A i \in 1..(to - from + 1) : SubSeq(c, from, to)[i] = c[from + i - 1]
      BY <2>1, SubSeqProperties
    <2>6. r \in Seq(Pins)
      BY <2>2, <2>3
    <2>7. Len(r) = h
      BY <2>2, <2>4 DEF from, to
    <2>8. \A i \in 1..h : r[i] = c[h + i]
      BY <2>2, <2>5 DEF from, to
    <2>9. QED
      BY <2>6, <2>7, <2>8
  <1> HIDE DEF p, r
  <1>4. q \in Seq(Pins) /\ Len(q) = h + 1 /\ q[h + 1] = b /\ \A i \in 1..h : q[i] = r[i]
    BY <1>3
  <1> HIDE DEF q
  <1>5. \A i \in 1..(h + 1) : p[i] = q[i]
    <2> TAKE i \in 1..(h + 1)
    <2>1. CASE i = h + 1
      <3>1. p[i] = m[2 * h + 2]
        BY <1>2, <2>1
      <3>2. QED
        BY <1>1, <1>4, <2>1, <3>1
    <2>2. CASE i \in 1..h
      <3>1. h + i \in 1..(2 * h) /\ h + 1 + i = (h + i) + 1
        BY <2>2
      <3>2. p[i] = c[h + i]
        BY <1>1, <1>2, <3>1
      <3>3. QED
        BY <1>3, <1>4, <2>2, <3>2
    <2>3. QED
      BY <2>1, <2>2
  <1>6. p = q
    BY <1>2, <1>4, <1>5, SameBits
  <1>7. QED
    BY <1>6 DEF m, p, q, r

\* The message of a card has ExpectedBits bits; the library accepts it, and takes
\* the parity bits away again.
LEMMA MessageFacts ==
  ASSUME NEW card \in Cards
  PROVE  /\ Message(card) \in Seq(Pins) /\ Len(Message(card)) = ExpectedBits
         /\ ParityOK(Message(card))
         /\ SubSeq(Message(card), 2, ExpectedBits - 1) = card
  <1> DEFINE L == SubSeq(card, 1, Half)
             R == SubSeq(card, Half + 1, Len(card))
             m == <<Bit(Odd(L))>> \o card \o <<Bit(~Odd(R))>>
  <1>1. card \in Seq(Pins) /\ Len(card) = 2 * Half
    BY HalfFacts, ReadersAssumption
  <1>2. L \in Seq(Pins) /\ R \in Seq(Pins) /\ Bit(Odd(L)) \in Pins /\ Bit(~Odd(R)) \in Pins
    BY <1>1, HalfFacts DEF Bit, Pins
  <1>3. Message(card) = m
    BY DEF Message, Half, Bit
  <1> HIDE DEF L, R
  <1>4. m \in Seq(Pins) /\ Len(m) = ExpectedBits
    BY <1>1, <1>2, HalfFacts
  <1>5. SubSeq(m, 2, ExpectedBits - 1) = card
    BY <1>1, <1>2, HalfFacts
  <1>6. LeftHalf(m) = <<Bit(Odd(L))>> \o L
    BY <1>1, <1>2, <1>4, HalfFacts DEF LeftHalf, L
  <1>7. RightHalf(m) = Append(R, Bit(~Odd(R)))
    <2>1. m = <<Bit(Odd(L))>> \o card \o <<Bit(~Odd(R))>> /\ R = SubSeq(card, Half + 1, 2 * Half)
      BY <1>1 DEF R
    <2>2. RightHalf(m) = SubSeq(m, Half + 2, 2 * Half + 2)
      BY <1>4, HalfFacts DEF RightHalf
    <2>3. QED
      BY <1>1, <1>2, <2>1, <2>2, HalfFacts, RightPart
  <1>8. ParityOK(m)
    BY <1>2, <1>6, <1>7, EvenPrepend, OddAppend DEF ParityOK
  <1>9. QED
    BY <1>3, <1>4, <1>5, <1>8

-----------------------------------------------------------------------------
(***************************************************************************)
(* The Wiegand object.                                                     *)
(***************************************************************************)
Object ==
  [high : SUBSET Pins, connected : BOOLEAN, error : BOOLEAN, bits : Seq(Pins), quiet : BOOLEAN]

LEMMA ObjectFields ==
  ASSUME NEW w \in Object
  PROVE  /\ w.high \in SUBSET Pins /\ w.connected \in BOOLEAN /\ w.error \in BOOLEAN
         /\ w.bits \in Seq(Pins) /\ w.quiet \in BOOLEAN
  <1>1. w.high \in SUBSET Pins
    BY DEF Object
  <1>2. w.connected \in BOOLEAN
    BY DEF Object
  <1>3. w.error \in BOOLEAN
    BY DEF Object
  <1>4. w.bits \in Seq(Pins)
    BY DEF Object
  <1>5. w.quiet \in BOOLEAN
    BY DEF Object
  <1>6. QED
    BY <1>1, <1>2, <1>3, <1>4, <1>5

WithBits(w, b) == [w EXCEPT !.bits = b]

LEMMA WithBitsFacts ==
  ASSUME NEW w \in Object, NEW b \in Seq(Pins)
  PROVE  /\ WithBits(w, b) \in Object /\ WithBits(w, b).high = w.high /\ WithBits(w, b).connected = w.connected
         /\ WithBits(w, b).error = w.error /\ WithBits(w, b).bits = b /\ WithBits(w, b).quiet = w.quiet
  <1>1. WithBits(w, b) \in Object
    BY DEF WithBits, Object
  <1>2. WithBits(w, b).high = w.high
    BY DEF WithBits, Object
  <1>3. WithBits(w, b).connected = w.connected
    BY DEF WithBits, Object
  <1>4. WithBits(w, b).error = w.error
    BY DEF WithBits, Object
  <1>5. WithBits(w, b).bits = b
    BY DEF WithBits, Object
  <1>6. WithBits(w, b).quiet = w.quiet
    BY DEF WithBits, Object
  <1>7. QED
    BY <1>1, <1>2, <1>3, <1>4, <1>5, <1>6, Zenon

Restarted(w, b, e) == [w EXCEPT !.bits = b, !.error = e]

LEMMA RestartedFacts ==
  ASSUME NEW w \in Object, NEW b \in Seq(Pins), NEW e \in BOOLEAN
  PROVE  /\ Restarted(w, b, e) \in Object /\ Restarted(w, b, e).high = w.high /\ Restarted(w, b, e).connected = w.connected
         /\ Restarted(w, b, e).error = e /\ Restarted(w, b, e).bits = b /\ Restarted(w, b, e).quiet = w.quiet
  <1>1. Restarted(w, b, e) \in Object
    BY DEF Restarted, Object
  <1>2. Restarted(w, b, e).high = w.high
    BY DEF Restarted, Object
  <1>3. Restarted(w, b, e).connected = w.connected
    BY DEF Restarted, Object
  <1>4. Restarted(w, b, e).error = e
    BY DEF Restarted, Object
  <1>5. Restarted(w, b, e).bits = b
    BY DEF Restarted, Object
  <1>6. Restarted(w, b, e).quiet = w.quiet
    BY DEF Restarted, Object
  <1>7. QED
    BY <1>1, <1>2, <1>3, <1>4, <1>5, <1>6, Zenon

Connects(w, c, e) == [w EXCEPT !.connected = c, !.error = e]

LEMMA ConnectsFacts ==
  ASSUME NEW w \in Object, NEW c \in BOOLEAN, NEW e \in BOOLEAN
  PROVE  /\ Connects(w, c, e) \in Object /\ Connects(w, c, e).high = w.high /\ Connects(w, c, e).connected = c
         /\ Connects(w, c, e).error = e /\ Connects(w, c, e).bits = w.bits /\ Connects(w, c, e).quiet = w.quiet
  <1>1. Connects(w, c, e) \in Object
    BY DEF Connects, Object
  <1>2. Connects(w, c, e).high = w.high
    BY DEF Connects, Object
  <1>3. Connects(w, c, e).connected = c
    BY DEF Connects, Object
  <1>4. Connects(w, c, e).error = e
    BY DEF Connects, Object
  <1>5. Connects(w, c, e).bits = w.bits
    BY DEF Connects, Object
  <1>6. Connects(w, c, e).quiet = w.quiet
    BY DEF Connects, Object
  <1>7. QED
    BY <1>1, <1>2, <1>3, <1>4, <1>5, <1>6, Zenon

Edge(w, h, q) == [w EXCEPT !.high = h, !.quiet = q]

LEMMA EdgeFacts ==
  ASSUME NEW w \in Object, NEW h \in SUBSET Pins, NEW q \in BOOLEAN
  PROVE  /\ Edge(w, h, q) \in Object /\ Edge(w, h, q).high = h /\ Edge(w, h, q).connected = w.connected
         /\ Edge(w, h, q).error = w.error /\ Edge(w, h, q).bits = w.bits /\ Edge(w, h, q).quiet = q
  <1>1. Edge(w, h, q) \in Object
    BY DEF Edge, Object
  <1>2. Edge(w, h, q).high = h
    BY DEF Edge, Object
  <1>3. Edge(w, h, q).connected = w.connected
    BY DEF Edge, Object
  <1>4. Edge(w, h, q).error = w.error
    BY DEF Edge, Object
  <1>5. Edge(w, h, q).bits = w.bits
    BY DEF Edge, Object
  <1>6. Edge(w, h, q).quiet = q
    BY DEF Edge, Object
  <1>7. QED
    BY <1>1, <1>2, <1>3, <1>4, <1>5, <1>6, Zenon

Rests(w, q) == [w EXCEPT !.quiet = q]

LEMMA RestsFacts ==
  ASSUME NEW w \in Object, NEW q \in BOOLEAN
  PROVE  /\ Rests(w, q) \in Object /\ Rests(w, q).high = w.high /\ Rests(w, q).connected = w.connected
         /\ Rests(w, q).error = w.error /\ Rests(w, q).bits = w.bits /\ Rests(w, q).quiet = q
  <1>1. Rests(w, q) \in Object
    BY DEF Rests, Object
  <1>2. Rests(w, q).high = w.high
    BY DEF Rests, Object
  <1>3. Rests(w, q).connected = w.connected
    BY DEF Rests, Object
  <1>4. Rests(w, q).error = w.error
    BY DEF Rests, Object
  <1>5. Rests(w, q).bits = w.bits
    BY DEF Rests, Object
  <1>6. Rests(w, q).quiet = q
    BY DEF Rests, Object
  <1>7. QED
    BY <1>1, <1>2, <1>3, <1>4, <1>5, <1>6, Zenon

LEMMA ResetFacts ==
  ASSUME NEW w \in Object
  PROVE  /\ reset(w) \in Object /\ reset(w).bits = <<>>
         /\ w.high = Pins => reset(w).error = FALSE
         /\ w.high # Pins => reset(w).error = TRUE
         /\ reset(w).high = w.high /\ reset(w).connected = w.connected /\ reset(w).quiet = w.quiet
  <1> DEFINE e == w.high # Pins
  <1>1. <<>> \in Seq(Pins)
    OBVIOUS
  <1>2. e \in BOOLEAN
    BY Zenon
  <1>3. reset(w) = Restarted(w, <<>>, e)
    BY Zenon DEF reset, Restarted
  <1>4. (w.high = Pins => e = FALSE) /\ (w.high # Pins => e = TRUE)
    BY <1>2, Zenon
  <1> DEFINE v == reset(w)
             b == <<>>
  <1> HIDE DEF e, b
  <1>5. v = Restarted(w, b, e) /\ b \in Seq(Pins)
    BY <1>1, <1>3, Zenon DEF b
  <1> HIDE DEF v
  <1>6. v \in Object
    BY <1>2, <1>5, RestartedFacts, Zenon
  <1>7. v.bits = b
    BY <1>2, <1>5, RestartedFacts
  <1>8. v.error = e
    BY <1>2, <1>5, RestartedFacts
  <1>9. v.high = w.high
    BY <1>2, <1>5, RestartedFacts
  <1>10. v.connected = w.connected
    BY <1>2, <1>5, RestartedFacts
  <1>11. v.quiet = w.quiet
    BY <1>2, <1>5, RestartedFacts
  <1>12. (w.high = Pins => v.error = FALSE) /\ (w.high # Pins => v.error = TRUE)
    BY <1>4, <1>8
  <1>13. v.bits = <<>>
    BY <1>7 DEF b
  <1>14. QED
    BY <1>6, <1>9, <1>10, <1>11, <1>12, <1>13, Zenon DEF v

\* A message ends with its last bit; a reader whose lines are both high is there.
Sane(w) == w \in Object /\ Len(w.bits) < ExpectedBits /\ (w.high = Pins => w.connected)

States == {"same", "plugged", "unplugged"}

LEMMA OutcomeFields ==
  ASSUME NEW after, NEW flushed, NEW state
  PROVE  /\ Outcome(after, flushed, state).after = after
         /\ Outcome(after, flushed, state).flushed = flushed
         /\ Outcome(after, flushed, state).state = state
BY DEF Outcome

LEMMA FlushFacts ==
  ASSUME NEW w, Sane(w)
  PROVE  /\ Sane(flush(w).after)
         /\ w.quiet => flush(w).after = reset(w) /\ flush(w).flushed = w
         /\ ~w.quiet => flush(w).after = w /\ flush(w).flushed.bits = <<>>
         /\ flush(w).after.high = w.high /\ flush(w).after.connected = w.connected
         /\ flush(w).after.quiet = w.quiet /\ flush(w).state = "same"
  <1>1. w \in Object /\ Len(w.bits) < ExpectedBits /\ (w.high = Pins => w.connected)
    BY DEF Sane
  <1>2. CASE w.quiet
    <2>1. flush(w) = Outcome(reset(w), w, "same")
      BY <1>2, Zenon DEF flush
    <2>2. flush(w).after = reset(w) /\ flush(w).flushed = w /\ flush(w).state = "same"
      BY <2>1 DEF Outcome
    <2>3. Len(<<>>) = 0 /\ 0 < ExpectedBits
      BY WiegandAssumption
    <2>4. /\ reset(w) \in Object /\ reset(w).bits = <<>>
          /\ reset(w).high = w.high /\ reset(w).connected = w.connected /\ reset(w).quiet = w.quiet
      BY <1>1, ResetFacts, Zenon
    <2>5. Len(reset(w).bits) < ExpectedBits
      BY <2>3, <2>4
    <2>6. Sane(reset(w))
      BY <1>1, <2>4, <2>5, Zenon DEF Sane
    <2>7. QED
      BY <1>2, <2>2, <2>4, <2>6, Zenon
  <1>3. CASE ~w.quiet
    <2>1. flush(w) = Outcome(w, NoMessage(w), "same")
      BY <1>3, Zenon DEF flush
    <2>2. flush(w).after = w /\ flush(w).flushed = NoMessage(w) /\ flush(w).state = "same"
      BY <2>1 DEF Outcome
    <2>3. NoMessage(w) = WithBits(w, <<>>) /\ <<>> \in Seq(Pins)
      BY DEF NoMessage, WithBits
    <2>4. WithBits(w, <<>>).bits = <<>>
      BY <1>1, <2>3, WithBitsFacts, Zenon
    <2>5. flush(w).flushed.bits = <<>>
      BY <2>2, <2>3, <2>4
    <2>6. QED
      BY <1>3, <2>2, <2>5, Zenon
  <1>4. QED
    BY <1>2, <1>3, Zenon

LEMMA EqualBooleans ==
  ASSUME NEW a \in BOOLEAN, NEW b \in BOOLEAN
  PROVE  (a = b) <=> (a <=> b)
OBVIOUS

HighAfter(w, pin, isHigh) == IF isHigh THEN w.high \cup {pin} ELSE w.high \ {pin}
Now(w, pin, isHigh) == Edge(flush(w).after, HighAfter(w, pin, isHigh), FALSE)

LEMMA NowFacts ==
  ASSUME NEW w, Sane(w), NEW pin \in Pins, NEW isHigh \in BOOLEAN
  PROVE  LET now == Now(w, pin, isHigh)
         IN  /\ now \in Object /\ now.high = HighAfter(w, pin, isHigh) /\ now.quiet = FALSE
             /\ now.bits = flush(w).after.bits /\ now.error = flush(w).after.error
             /\ now.connected = w.connected /\ Len(now.bits) < ExpectedBits
  <1> DEFINE a == flush(w).after
             h == HighAfter(w, pin, isHigh)
  <1>1. a \in Object /\ a.connected = w.connected /\ Len(a.bits) < ExpectedBits
    BY FlushFacts, Zenon DEF Sane
  <1>2. w.high \in SUBSET Pins
    BY ObjectFields, Zenon DEF Sane
  <1>3. h \in SUBSET Pins
    BY <1>2 DEF HighAfter
  <1>4. Now(w, pin, isHigh) = Edge(a, h, FALSE)
    BY DEF Now
  <1> HIDE DEF a, h
  <1>5. /\ Edge(a, h, FALSE) \in Object /\ Edge(a, h, FALSE).high = h
        /\ Edge(a, h, FALSE).connected = a.connected
        /\ Edge(a, h, FALSE).error = a.error /\ Edge(a, h, FALSE).bits = a.bits
        /\ Edge(a, h, FALSE).quiet = FALSE
    BY <1>1, <1>3, EdgeFacts
  <1>6. QED
    BY <1>1, <1>4, <1>5 DEF a, h

LEMMA SetPinCases ==
  ASSUME NEW w, Sane(w), NEW pin \in Pins, NEW isHigh \in BOOLEAN
  PROVE  LET now == Now(w, pin, isHigh)
             o == setPinState(w, pin, isHigh)
             moves == ~(pin \in w.high <=> isHigh)
             before == flush(w).flushed
         IN  /\ ~moves => o = flush(w)
             /\ moves /\ now.high = Pins /\ now.connected => o = addBitInternal(now, pin, before)
             /\ moves /\ now.high = Pins /\ ~now.connected => o = Plugged(now, before)
             /\ moves /\ now.high = {} /\ now.connected => o = Unplugged(now, before)
             /\ moves /\ now.high = {} /\ ~now.connected => o = Outcome(now, before, "same")
             /\ moves /\ now.high # Pins /\ now.high # {} => o = Outcome(now, before, "same")
  <1> DEFINE now == Now(w, pin, isHigh)
             here == pin \in w.high
             before == flush(w).flushed
             o == setPinState(w, pin, isHigh)
  <1>1. now = [flush(w).after EXCEPT
                 !.high = IF isHigh THEN @ \cup {pin} ELSE @ \ {pin}, !.quiet = FALSE]
    <2>1. flush(w).after.high = w.high
      BY FlushFacts
    <2>2. QED
      BY <2>1, Zenon DEF Now, Edge, HighAfter
  <1>2. o = CASE here = isHigh -> flush(w)
              [] here # isHigh /\ now.high = Pins /\ now.connected -> addBitInternal(now, pin, before)
              [] here # isHigh /\ now.high = Pins /\ ~now.connected -> Plugged(now, before)
              [] here # isHigh /\ now.high = {} /\ now.connected -> Unplugged(now, before)
              [] OTHER -> Outcome(now, before, "same")
    BY <1>1, Zenon DEF setPinState
  <1>3. here \in BOOLEAN
    OBVIOUS
  <1>4. (here = isHigh) <=> (here <=> isHigh)
    BY <1>3, EqualBooleans, Zenon
  <1>5. Pins # {}
    BY DEF Pins
  <1> HIDE DEF now, here, before, o
  <1>6. QED
    BY <1>2, <1>4, <1>5, Zenon DEF now, here, before, o

LEMMA AddBitCases ==
  ASSUME NEW w \in Object, NEW pin \in Pins, NEW before, Len(w.bits) < ExpectedBits
  PROVE  LET added == WithBits(w, Append(w.bits, pin))
             o == addBitInternal(w, pin, before)
         IN  /\ added \in Object /\ added.bits = Append(w.bits, pin) /\ added.high = w.high
             /\ added.connected = w.connected /\ added.error = w.error /\ added.quiet = w.quiet
             /\ Len(added.bits) = Len(w.bits) + 1 /\ Len(w.bits) \in Nat
             /\ o.state = "same"
             /\ Len(w.bits) + 1 = ExpectedBits => o.after = reset(added) /\ o.flushed = added
             /\ Len(w.bits) + 1 # ExpectedBits => o.after = added /\ o.flushed = before
  <1> DEFINE added == WithBits(w, Append(w.bits, pin))
             o == addBitInternal(w, pin, before)
  <1>1. w.bits \in Seq(Pins)
    BY ObjectFields
  <1>2. Append(w.bits, pin) \in Seq(Pins) /\ Len(Append(w.bits, pin)) = Len(w.bits) + 1 /\ Len(w.bits) \in Nat
    BY <1>1
  <1>3. /\ added \in Object /\ added.bits = Append(w.bits, pin) /\ added.high = w.high
        /\ added.connected = w.connected /\ added.error = w.error /\ added.quiet = w.quiet
    BY <1>2, WithBitsFacts
  <1>4. o = IF Len(added.bits) = ExpectedBits THEN Outcome(reset(added), added, "same")
            ELSE Outcome(added, before, "same")
    BY Zenon DEF addBitInternal, WithBits
  <1> HIDE DEF added, o
  <1>5. Len(w.bits) + 1 = ExpectedBits => o = Outcome(reset(added), added, "same")
    BY <1>2, <1>3, <1>4
  <1>6. Len(w.bits) + 1 # ExpectedBits => o = Outcome(added, before, "same")
    BY <1>2, <1>3, <1>4
  <1>7. /\ o.state = "same"
        /\ Len(w.bits) + 1 = ExpectedBits => o.after = reset(added) /\ o.flushed = added
        /\ Len(w.bits) + 1 # ExpectedBits => o.after = added /\ o.flushed = before
    BY <1>5, <1>6, OutcomeFields
  <1>8. Len(added.bits) = Len(w.bits) + 1
    BY <1>2, <1>3
  <1>9. QED
    BY <1>2, <1>3, <1>7, <1>8, Zenon DEF added, o

LEMMA SaneReset ==
  ASSUME NEW w \in Object, w.high = Pins => w.connected
  PROVE  Sane(reset(w)) /\ reset(w).high = w.high
  <1>1. /\ reset(w) \in Object /\ reset(w).bits = <<>>
        /\ reset(w).high = w.high /\ reset(w).connected = w.connected
    BY ResetFacts, Zenon
  <1>2. Len(<<>>) = 0 /\ 0 < ExpectedBits
    BY WiegandAssumption
  <1>3. Len(reset(w).bits) < ExpectedBits
    BY <1>1, <1>2
  <1>4. QED
    BY <1>1, <1>3, Zenon DEF Sane

\* What an edge, late or not, makes of an object.
LEMMA SetPinFacts ==
  ASSUME NEW w, Sane(w), NEW pin \in Pins, NEW isHigh \in BOOLEAN
  PROVE  LET o == setPinState(w, pin, isHigh)
         IN  /\ Sane(o.after) /\ o.state \in States
             /\ o.after.high = HighAfter(w, pin, isHigh)
  <1> DEFINE now == Now(w, pin, isHigh)
             high == HighAfter(w, pin, isHigh)
             moves == ~(pin \in w.high <=> isHigh)
             before == flush(w).flushed
             o == setPinState(w, pin, isHigh)
  <1>1. /\ now \in Object /\ now.high = high /\ Len(now.bits) < ExpectedBits
    BY NowFacts, Zenon
  <1>2. /\ ~moves => o = flush(w)
        /\ moves /\ now.high = Pins /\ now.connected => o = addBitInternal(now, pin, before)
        /\ moves /\ now.high = Pins /\ ~now.connected => o = Plugged(now, before)
        /\ moves /\ now.high = {} /\ now.connected => o = Unplugged(now, before)
        /\ moves /\ now.high = {} /\ ~now.connected => o = Outcome(now, before, "same")
        /\ moves /\ now.high # Pins /\ now.high # {} => o = Outcome(now, before, "same")
    BY SetPinCases, Zenon
  <1>3. CASE ~moves
    <2>1. high = w.high
      BY <1>3 DEF HighAfter
    <2>2. Sane(flush(w).after) /\ flush(w).after.high = w.high /\ flush(w).state = "same"
      BY FlushFacts, Zenon
    <2>3. QED
      BY <1>2, <1>3, <2>1, <2>2, Zenon DEF States
  <1> HIDE DEF now, high, before, o, moves
  <1>4. CASE moves /\ now.high = Pins /\ now.connected
    <2> DEFINE added == WithBits(now, Append(now.bits, pin))
    <2>1. o = addBitInternal(now, pin, before)
      BY <1>2, <1>4, Zenon
    <2>2. /\ added \in Object /\ added.high = high /\ added.connected
          /\ Len(added.bits) = Len(now.bits) + 1 /\ Len(now.bits) \in Nat
          /\ o.state = "same"
          /\ Len(now.bits) + 1 = ExpectedBits => o.after = reset(added)
          /\ Len(now.bits) + 1 # ExpectedBits => o.after = added
      BY <1>1, <1>4, <2>1, AddBitCases
    <2> HIDE DEF added
    <2>3. CASE Len(now.bits) + 1 = ExpectedBits
      BY <2>2, <2>3, SaneReset, Zenon DEF States, o, high
    <2>4. CASE Len(now.bits) + 1 # ExpectedBits
      <3>1. Len(added.bits) < ExpectedBits
        BY <1>1, <2>2, <2>4, WiegandAssumption
      <3>2. QED
        BY <2>2, <2>4, <3>1, Zenon DEF States, Sane, o, high
    <2>5. QED
      BY <2>3, <2>4, Zenon
  <1>5. CASE moves /\ now.high = Pins /\ ~now.connected
    <2>1. o = Outcome(Connects(now, TRUE, TRUE), before, "plugged")
      BY <1>2, <1>5, Zenon DEF Plugged, Connects
    <2>2. o.after = Connects(now, TRUE, TRUE) /\ o.state = "plugged"
      BY <2>1 DEF Outcome
    <2>3. /\ Connects(now, TRUE, TRUE) \in Object /\ Connects(now, TRUE, TRUE).connected = TRUE
          /\ Connects(now, TRUE, TRUE).high = now.high /\ Connects(now, TRUE, TRUE).bits = now.bits
      BY <1>1, ConnectsFacts
    <2>4. QED
      BY <1>1, <2>2, <2>3, Zenon DEF Sane, States, o, high
  <1>6. CASE moves /\ now.high = {} /\ now.connected
    <2> DEFINE r == reset(now)
               u == Connects(r, FALSE, FALSE)
    <2>1. o = Outcome(u, IF before.bits = <<>> THEN [now EXCEPT !.error = TRUE] ELSE before, "unplugged")
      BY <1>2, <1>6, Zenon DEF Unplugged, Connects
    <2>2. o.after = u /\ o.state = "unplugged"
      BY <2>1 DEF Outcome
    <2>3. Sane(r) /\ r.high = now.high
      BY <1>1, <1>6, SaneReset DEF Pins
    <2>4. r \in Object /\ Len(r.bits) < ExpectedBits
      BY <2>3, Zenon DEF Sane
    <2> HIDE DEF r
    <2>5. u \in Object /\ u.high = r.high /\ u.bits = r.bits
      BY <2>4, ConnectsFacts
    <2> HIDE DEF u
    <2>6. {} # Pins
      BY DEF Pins
    <2>7. QED
      BY <1>1, <1>6, <2>2, <2>3, <2>4, <2>5, <2>6, Zenon DEF Sane, States, o, high
  <1>7. CASE moves /\ ~(now.high = {} /\ now.connected) /\ now.high # Pins
    <2>1. o = Outcome(now, before, "same")
      BY <1>2, <1>7, Zenon
    <2>2. o.after = now /\ o.state = "same"
      BY <2>1 DEF Outcome
    <2>3. QED
      BY <1>1, <1>7, <2>2, Zenon DEF Sane, States, o, high
  <1>8. QED
    BY <1>3, <1>4, <1>5, <1>6, <1>7, Zenon DEF o, high

LEMMA Verdicts ==
  ASSUME NEW w
  PROVE  /\ flushData(w) \in {"ignored", "data", "error"}
         /\ w.bits = <<>> => flushData(w) = "ignored"
         /\ Len(w.bits) # ExpectedBits => flushData(w) # "data"
         /\ w.bits # <<>> /\ ~w.error /\ Len(w.bits) = ExpectedBits /\ ParityOK(w.bits) =>
              flushData(w) = "data"
  <1> DEFINE none == w.bits = <<>>
             good == ~w.error /\ Len(w.bits) = ExpectedBits /\ ParityOK(w.bits)
  <1>1. flushData(w) = CASE none -> "ignored" [] good -> "data" [] OTHER -> "error"
    BY Zenon DEF flushData
  <1>2. none => ~good
    BY WiegandAssumption
  <1> HIDE DEF none, good
  <1>3. none => flushData(w) = "ignored"
    BY <1>1, <1>2, Zenon
  <1>4. ~none /\ good => flushData(w) = "data"
    BY <1>1, Zenon
  <1>5. ~none /\ ~good => flushData(w) = "error"
    BY <1>1, Zenon
  <1>6. QED
    BY <1>3, <1>4, <1>5 DEF none, good

\* A line of a reader at rest, or between two bits, goes low.
LEMMA FallFacts ==
  ASSUME NEW w, Sane(w), NEW pin \in Pins, w.high = Pins
  PROVE  LET o == setPinState(w, pin, FALSE)
         IN  /\ o.state = "same" /\ o.after.high = Pins \ {pin} /\ o.after.quiet = FALSE
             /\ o.after.connected = w.connected
             /\ w.quiet => o.after.bits = <<>> /\ o.after.error = FALSE
             /\ ~w.quiet => o.after.bits = w.bits /\ o.after.error = w.error
             /\ flushData(o.flushed) # "data"
             /\ ~w.quiet => flushData(o.flushed) = "ignored"
  <1> DEFINE now == Now(w, pin, FALSE)
             before == flush(w).flushed
             o == setPinState(w, pin, FALSE)
  <1>1. pin \in w.high /\ Pins \ {pin} # Pins /\ Pins \ {pin} # {}
    BY DEF Pins
  <1>2. HighAfter(w, pin, FALSE) = Pins \ {pin}
    BY DEF HighAfter
  <1>3. /\ now.high = Pins \ {pin} /\ now.quiet = FALSE
        /\ now.bits = flush(w).after.bits /\ now.error = flush(w).after.error
        /\ now.connected = w.connected
    BY <1>2, NowFacts
  <1>4. ~(pin \in w.high <=> FALSE) /\ now.high # Pins /\ now.high # {} => o = Outcome(now, before, "same")
    BY SetPinCases
  <1>5. o = Outcome(now, before, "same")
    BY <1>1, <1>3, <1>4, Zenon
  <1> HIDE DEF now, before, o
  <1>6. o.after = now /\ o.flushed = before /\ o.state = "same"
    BY <1>5 DEF Outcome
  <1>7. /\ w.quiet => flush(w).after = reset(w) /\ before = w
        /\ ~w.quiet => flush(w).after = w /\ before.bits = <<>>
    BY FlushFacts, Zenon DEF before
  <1>8. w \in Object /\ Len(w.bits) < ExpectedBits
    BY Zenon DEF Sane
  <1>9. reset(w).bits = <<>> /\ reset(w).error = FALSE
    BY <1>8, ResetFacts, Zenon
  <1>10. CASE w.quiet
    <2>1. now.bits = <<>> /\ now.error = FALSE
      BY <1>3, <1>7, <1>9, <1>10, Zenon
    <2>2. Len(w.bits) # ExpectedBits
      BY <1>8, WiegandAssumption
    <2>3. flushData(before) # "data"
      BY <1>7, <1>10, <2>2, Verdicts, Zenon
    <2>4. QED
      BY <1>3, <1>6, <1>10, <2>1, <2>3, Zenon DEF o
  <1>11. CASE ~w.quiet
    <2>1. now.bits = w.bits /\ now.error = w.error
      BY <1>3, <1>7, <1>11, Zenon
    <2>2. flushData(before) = "ignored"
      BY <1>7, <1>11, Verdicts, Zenon
    <2>3. QED
      BY <1>3, <1>6, <1>11, <2>1, <2>2, Zenon DEF o
  <1>12. QED
    BY <1>10, <1>11, Zenon

\* It goes high again: a bit.
LEMMA RiseFacts ==
  ASSUME NEW w, Sane(w), NEW pin \in Pins, w.high = Pins \ {pin}, w.connected = TRUE,
         w.quiet = FALSE, w.error = FALSE
  PROVE  LET o == setPinState(w, pin, TRUE)
             bits == Append(w.bits, pin)
         IN  /\ o.state = "same"
             /\ Len(bits) = ExpectedBits /\ ParityOK(bits) => flushData(o.flushed) = "data"
             /\ Len(bits) # ExpectedBits =>
                  /\ flushData(o.flushed) = "ignored"
                  /\ o.after.bits = bits /\ o.after.error = FALSE /\ o.after.quiet = FALSE
                  /\ o.after.connected = TRUE
  <1> DEFINE now == Now(w, pin, TRUE)
             before == flush(w).flushed
             o == setPinState(w, pin, TRUE)
             bits == Append(w.bits, pin)
             added == WithBits(now, Append(now.bits, pin))
  <1>1. pin \notin w.high
    OBVIOUS
  <1>2. HighAfter(w, pin, TRUE) = Pins
    BY DEF HighAfter, Pins
  <1>3. flush(w).after = w /\ before.bits = <<>>
    BY FlushFacts, Zenon
  <1>4. /\ now \in Object /\ now.high = HighAfter(w, pin, TRUE) /\ now.quiet = FALSE
        /\ now.bits = flush(w).after.bits /\ now.error = flush(w).after.error
        /\ now.connected = w.connected /\ Len(now.bits) < ExpectedBits
    BY NowFacts, Zenon
  <1>5. /\ now \in Object /\ now.high = Pins /\ now.quiet = FALSE
        /\ now.bits = w.bits /\ now.error = FALSE
        /\ now.connected = TRUE /\ Len(now.bits) < ExpectedBits
    BY <1>4, <1>2, <1>3, Zenon
  <1>6. ~(pin \in w.high <=> TRUE) /\ now.high = Pins /\ now.connected => o = addBitInternal(now, pin, before)
    BY SetPinCases
  <1>7. o = addBitInternal(now, pin, before)
    BY <1>1, <1>5, <1>6, Zenon
  <1> HIDE DEF now, o, before
  <1>8. /\ added.bits = Append(now.bits, pin)
        /\ added.connected = now.connected /\ added.error = now.error /\ added.quiet = now.quiet
        /\ Len(added.bits) = Len(now.bits) + 1 /\ Len(now.bits) \in Nat
    BY <1>5, AddBitCases, Zenon
  <1>9. /\ o.state = "same"
        /\ Len(now.bits) + 1 = ExpectedBits => o.after = reset(added) /\ o.flushed = added
        /\ Len(now.bits) + 1 # ExpectedBits => o.after = added /\ o.flushed = before
    BY <1>5, <1>7, AddBitCases
  <1> HIDE DEF added
  <1>10. /\ added.bits = bits /\ added.error = FALSE /\ added.connected = TRUE /\ added.quiet = FALSE
        /\ Len(bits) = Len(now.bits) + 1 /\ Len(now.bits) \in Nat
    BY <1>5, <1>8, Zenon
  <1> HIDE DEF bits
  <1>11. bits # <<>>
    BY <1>10
  <1>12. Len(bits) = ExpectedBits /\ ParityOK(bits) => flushData(o.flushed) = "data"
    BY <1>9, <1>10, <1>11, Verdicts, Zenon
  <1>13. Len(bits) # ExpectedBits => flushData(o.flushed) = "ignored"
    BY <1>9, <1>3, <1>10, Verdicts, Zenon
  <1>14. QED
    BY <1>9, <1>10, <1>12, <1>13, Zenon DEF bits, o

-----------------------------------------------------------------------------
(***************************************************************************)
(* The bits of a message that were sent, and those that were not.          *)
(***************************************************************************)
First(m, n) == SubSeq(m, 1, n)
Rest(m, n) == SubSeq(m, n + 1, ExpectedBits)

LEMMA FirstAndRest ==
  ASSUME NEW m \in Seq(Pins), Len(m) = ExpectedBits, NEW n \in 0..(ExpectedBits - 1)
  PROVE  /\ m[n + 1] \in Pins
         /\ Rest(m, n) # <<>> /\ Head(Rest(m, n)) = m[n + 1] /\ Tail(Rest(m, n)) = Rest(m, n + 1)
         /\ Len(First(m, n)) = n /\ Append(First(m, n), m[n + 1]) = First(m, n + 1)
         /\ First(m, 0) = <<>> /\ First(m, ExpectedBits) = m /\ Rest(m, 0) = m
  <1>1. ExpectedBits \in Nat /\ n \in Nat /\ n + 1 \in 1..Len(m)
    BY WiegandAssumption
  <1>2. m[n + 1] \in Pins
    BY <1>1
  <1>3. Len(Rest(m, n)) = ExpectedBits - n /\ Rest(m, n) \in Seq(Pins)
    BY <1>1 DEF Rest
  <1>4. Rest(m, n) # <<>>
    BY <1>1, <1>3
  <1>5. Head(Rest(m, n)) = m[n + 1]
    BY <1>1 DEF Rest
  <1>6. Tail(Rest(m, n)) = Rest(m, n + 1)
    BY <1>1 DEF Rest
  <1>7. Len(First(m, n)) = n
    BY <1>1 DEF First
  <1>8. Append(First(m, n), m[n + 1]) = First(m, n + 1)
    BY <1>1 DEF First
  <1>9. First(m, 0) = <<>>
    BY DEF First
  <1>10. First(m, ExpectedBits) = m /\ Rest(m, 0) = m
    BY <1>1 DEF First, Rest
  <1>11. QED
    BY <1>2, <1>4, <1>5, <1>6, <1>7, <1>8, <1>9, <1>10

-----------------------------------------------------------------------------
(***************************************************************************)
(* The invariant.                                                          *)
(***************************************************************************)
Done == {"read", "answered", "forgotten"}

Fates == {"tooEarly", "cutOff", "unread", "replaced", "failed", "reported"} \cup Done

TypeInv ==
  /\ Sane(external)
  /\ level \in BOOLEAN
  /\ shown \in Seq(Cards)
  /\ fate \in [1..Len(shown) -> Fates]
  /\ sending \in 0..Len(shown) /\ owner \in 0..Len(shown)

\* Who polls the readers has attached both handlers.
SetupInv ==
  /\ main \in {"attach0", "attach1", "read0", "set0", "read1", "set1", "check", "copied",
               "messages", "busy"}
  /\ main # "attach0" => 0 \in attached
  /\ main \notin {"attach0", "attach1"} => 1 \in attached

Registered(pin) == Polling \/ (pin = 0 /\ main \in {"read1", "set1"})

\* Without a line that was registered wrong, the object has each line as it is, or
\* an interrupt is about to tell it.
AgreeInv ==
  ~stale => \A pin \in Pins :
              Registered(pin) => pin \in latched \/ (pin \in external.high <=> pin \in line)

\* A message of which the object has the first n bits, and whose next one, if there is
\* one, has not begun, has begun, the object knows that it has begun, or has ended.
Receives(m, n) ==
  LET next == m[n + 1]
  IN  /\ external.connected = TRUE
      /\ IF external.quiet THEN n = 0 /\ owner # sending
         ELSE external.bits = First(m, n) /\ external.error = FALSE
      /\ \/ line = Pins /\ latched = {} /\ external.high = Pins /\ tx = Rest(m, n)
         \/ line = Pins \ {next} /\ latched = {next} /\ external.high = Pins /\ tx = Rest(m, n)
         \/ /\ line = Pins \ {next} /\ latched = {} /\ external.high = Pins \ {next} /\ tx = Rest(m, n)
            /\ ~external.quiet
         \/ /\ line = Pins /\ latched = {next} /\ external.high = Pins \ {next} /\ tx = Rest(m, n + 1)
            /\ ~external.quiet

CleanInv ==
  clean /\ sending # 0 =>
    /\ Polling /\ ~stale
    /\ \/ fate[sending] \in Done
       \/ /\ fate[sending] = "unread"
          /\ \E n \in 0..(ExpectedBits - 1) : Receives(Message(shown[sending]), n)

IInv == TypeInv /\ SetupInv /\ AgreeInv /\ CleanInv

-----------------------------------------------------------------------------
(***************************************************************************)
(* The callbacks: what becomes of the cards.                               *)
(***************************************************************************)
LEMMA FailsFacts ==
  ASSUME TypeInv, NEW card \in 0..Len(shown), Fails(card)
  PROVE  /\ fate' \in [1..Len(shown) -> Fates]
         /\ sending # 0 /\ fate[sending] \in Done => fate'[sending] \in Done
         /\ sending # 0 /\ card # sending => fate'[sending] = fate[sending]
  <1>1. /\ fate \in [1..Len(shown) -> Fates] /\ Len(shown) \in Nat /\ sending \in 0..Len(shown)
    BY DEF TypeInv
  <1>2. fate' = [n \in DOMAIN fate |-> IF n = card /\ fate[n] = "unread" THEN "failed" ELSE fate[n]]
    BY DEF Fails
  <1>3. QED
    BY <1>1, <1>2 DEF Fates, Done

LEMMA CallbackFacts ==
  ASSUME TypeInv, NEW o, o.state \in States, Callbacks(o)
  PROVE  /\ external' = o.after
         /\ owner' \in 0..Len(shown) /\ (o.after.bits = <<>> => owner' = 0)
         /\ fate' \in [1..Len(shown) -> Fates]
         /\ sending # 0 /\ fate[sending] \in Done => fate'[sending] \in Done
         /\ sending # 0 /\ flushData(o.flushed) = "data" => fate'[sending] \in Done
         /\ sending # 0 /\ owner # sending /\ fate[sending] = "unread" /\ o.state = "same" =>
              fate'[sending] \in Done \cup {"unread"}
         /\ flushData(o.flushed) = "ignored" /\ o.state = "same" => fate' = fate
  <1> DEFINE verdict == flushData(o.flushed)
             message == IF o.state = "same" THEN {} ELSE {o.state}
  <1>1. /\ fate \in [1..Len(shown) -> Fates] /\ Len(shown) \in Nat
        /\ sending \in 0..Len(shown) /\ owner \in 0..Len(shown)
    BY DEF TypeInv
  <1>2. verdict \in {"ignored", "data", "error"}
    BY Verdicts
  <1>3. external' = o.after
    BY Zenon DEF Callbacks
  <1>4. owner' = CASE o.after.bits = <<>> -> 0
                   [] Len(o.after.bits) > Len(external.bits) -> sending
                   [] OTHER -> owner
    BY Zenon DEF Callbacks
  <1>5. owner' \in 0..Len(shown)
    BY <1>1, <1>4
  <1>6. ASSUME o.after.bits = <<>> PROVE owner' = 0
    BY <1>4, <1>6
  <1>7. CASE verdict = "data"
    <2>1. captureIncomingData(Payload(o.flushed))
      BY <1>7, Zenon DEF Callbacks
    <2>2. fate' = [n \in DOMAIN fate |->
                     IF n = sending THEN "read" ELSE IF fate[n] = "read" THEN "replaced" ELSE fate[n]]
      BY <2>1, Zenon DEF captureIncomingData
    <2>3. fate' \in [1..Len(shown) -> Fates] /\ (sending # 0 => fate'[sending] \in Done)
      BY <1>1, <2>2 DEF Fates, Done
    <2>4. QED
      BY <1>3, <1>5, <1>6, <1>7, <2>3
  <1>8. CASE verdict = "error"
    <2>1. Fails(owner)
      BY <1>8, Zenon DEF Callbacks
    <2>2. /\ fate' \in [1..Len(shown) -> Fates]
          /\ sending # 0 /\ fate[sending] \in Done => fate'[sending] \in Done
          /\ sending # 0 /\ owner # sending => fate'[sending] = fate[sending]
      BY <1>1, <2>1, FailsFacts
    <2>3. QED
      BY <1>3, <1>5, <1>6, <1>8, <2>2
  <1>9. CASE verdict = "ignored"
    <2>1. fate' = fate
      BY <1>9, Zenon DEF Callbacks
    <2>2. QED
      BY <1>1, <1>3, <1>5, <1>6, <1>9, <2>1
  <1>10. QED
    BY <1>2, <1>7, <1>8, <1>9

-----------------------------------------------------------------------------
(***************************************************************************)
(* The invariant is inductive.                                             *)
(***************************************************************************)
LEMMA InitInv == Init => IInv
  <1> SUFFICES ASSUME Init PROVE IInv
    OBVIOUS
  <1>1. TypeInv
    <2>1. external = begin /\ level = FALSE /\ shown = <<>> /\ fate = <<>> /\ sending = 0 /\ owner = 0
      BY DEF Init
    <2>2. begin.high = {} /\ begin.bits = <<>>
      BY DEF begin
    <2>3. begin \in Object
      BY DEF begin, Object
    <2>4. Len(begin.bits) < ExpectedBits /\ begin.high # Pins
      BY <2>2, WiegandAssumption DEF Pins
    <2>5. Sane(external)
      BY <2>1, <2>3, <2>4, Zenon DEF Sane
    <2>6. shown \in Seq(Cards) /\ Len(shown) = 0
      BY <2>1
    <2>7. fate \in [1..Len(shown) -> Fates]
      BY <2>1, <2>6
    <2>8. sending \in 0..Len(shown) /\ owner \in 0..Len(shown)
      BY <2>1, <2>6
    <2>9. level \in BOOLEAN
      BY <2>1
    <2>10. QED
      BY <2>5, <2>6, <2>7, <2>8, <2>9, Zenon DEF TypeInv
  <1>2. SetupInv
    BY DEF Init, SetupInv
  <1>3. AgreeInv
    BY DEF Init, AgreeInv, Registered, Polling
  <1>4. CleanInv
    BY DEF Init, CleanInv
  <1>5. QED
    BY <1>1, <1>2, <1>3, <1>4 DEF IInv

\* Once the reader has what a clean card is doing, nothing but the wires, the object
\* and the owner of its bits matters.
LEMMA CleanKept ==
  ASSUME TypeInv, CleanInv, Polling', stale' = stale, clean' = clean, sending' = sending,
         shown' = shown, external' = external, owner' = owner,
         line' = line, latched' = latched, tx' = tx,
         sending # 0 /\ fate[sending] \in Done => fate'[sending] \in Done,
         sending # 0 /\ fate[sending] = "unread" => fate'[sending] = "unread"
  PROVE  CleanInv'
BY DEF CleanInv, Receives, Rest, First

LEMMA ShowCardStep ==
  ASSUME IInv, NEW card \in Cards, ShowCard(card)
  PROVE  IInv'
  <1>1. TypeInv /\ SetupInv /\ AgreeInv
    BY DEF IInv
  <1>2. /\ tx = <<>> /\ line = Pins /\ latched = {} /\ (external.quiet \/ attached = {})
        /\ line' = line /\ latched' = latched /\ attached' = attached /\ external' = external
        /\ main' = main /\ level' = level /\ owner' = owner /\ stale' = stale
        /\ shown' = Append(shown, card) /\ sending' = Len(shown')
        /\ fate' = Append(fate, IF Polling /\ ~stale THEN "unread" ELSE "tooEarly")
        /\ (tx' = Message(card) /\ clean' = (Polling /\ ~stale)) \/ clean' = FALSE
    BY DEF ShowCard, AtRest, wires, task
  <1>3. /\ Sane(external) /\ level \in BOOLEAN /\ shown \in Seq(Cards) /\ Len(shown) \in Nat
        /\ fate \in [1..Len(shown) -> Fates] /\ owner \in 0..Len(shown)
    BY <1>1 DEF TypeInv
  <1>4. /\ shown' \in Seq(Cards) /\ Len(shown') = Len(shown) + 1 /\ shown'[Len(shown')] = card
    BY <1>2, <1>3
  <1>5. /\ fate' \in [1..Len(shown') -> Fates]
        /\ fate'[Len(shown')] = IF Polling /\ ~stale THEN "unread" ELSE "tooEarly"
    <2> DEFINE new == IF Polling /\ ~stale THEN "unread" ELSE "tooEarly"
    <2>1. fate \in Seq(Fates) /\ Len(fate) = Len(shown)
      BY <1>3
    <2>2. new \in Fates
      BY DEF Fates
    <2>3. fate' = Append(fate, new)
      BY <1>2
    <2> HIDE DEF new
    <2>4. fate' \in Seq(Fates) /\ Len(fate') = Len(shown) + 1 /\ fate'[Len(shown) + 1] = new
      BY <1>3, <2>1, <2>2, <2>3
    <2>5. fate' \in [1..Len(shown') -> Fates]
      BY <1>4, <2>4
    <2>6. QED
      BY <1>4, <2>4, <2>5 DEF new
  <1>6. TypeInv'
    BY <1>2, <1>3, <1>4, <1>5 DEF TypeInv
  <1>7. SetupInv'
    BY <1>1, <1>2 DEF SetupInv
  <1>8. AgreeInv'
    BY <1>1, <1>2 DEF AgreeInv, Registered, Polling
  <1>9. ASSUME clean' PROVE CleanInv'
    <2>1. Polling /\ ~stale /\ tx' = Message(card)
      BY <1>2, <1>9
    <2>2. 0 \in attached /\ external.quiet
      BY <1>1, <1>2, <2>1 DEF SetupInv, Polling
    <2>3. external.high = Pins
      <3>1. external.high \in SUBSET Pins
        BY <1>3, ObjectFields, Zenon DEF Sane
      <3>2. \A pin \in Pins : pin \in external.high
        BY <1>1, <1>2, <2>1 DEF AgreeInv, Registered
      <3>3. QED
        BY <3>1, <3>2
    <2>4. external.connected = TRUE
      <3>1. external.connected /\ external \in Object
        BY <1>3, <2>3, Zenon DEF Sane
      <3>2. external.connected \in BOOLEAN
        BY <3>1, ObjectFields, Zenon
      <3>3. QED
        BY <3>1, <3>2
    <2>5. owner # sending'
      BY <1>2, <1>3, <1>4
    <2>6. tx' = Rest(Message(card), 0)
      BY <2>1, MessageFacts, FirstAndRest, WiegandAssumption
    <2>7. Receives(Message(card), 0)'
      BY <1>2, <2>2, <2>3, <2>4, <2>5, <2>6 DEF Receives
    <2>8. fate'[sending'] = "unread" /\ shown'[sending'] = card
      BY <1>2, <1>4, <1>5, <2>1
    <2>9. Polling' /\ ~stale'
      BY <1>2, <2>1 DEF Polling
    <2>10. QED
      BY <2>7, <2>8, <2>9, WiegandAssumption DEF CleanInv
  <1>10. CleanInv'
    BY <1>9 DEF CleanInv
  <1>11. QED
    BY <1>6, <1>7, <1>8, <1>10 DEF IInv

LEMMA StrayPulseStep ==
  ASSUME IInv, NEW pin \in Pins, StrayPulse(pin)
  PROVE  IInv'
  <1>1. TypeInv /\ SetupInv /\ AgreeInv
    BY DEF IInv
  <1>2. /\ sending' = 0 /\ line' = line /\ latched' = latched /\ attached' = attached
        /\ external' = external /\ main' = main /\ level' = level /\ shown' = shown
        /\ fate' = fate /\ owner' = owner /\ stale' = stale
    BY DEF StrayPulse, wires, task
  <1>3. TypeInv'
    BY <1>1, <1>2 DEF TypeInv
  <1>4. SetupInv' /\ AgreeInv'
    BY <1>1, <1>2 DEF SetupInv, AgreeInv, Registered, Polling
  <1>5. CleanInv'
    BY <1>2 DEF CleanInv
  <1>6. QED
    BY <1>3, <1>4, <1>5 DEF IInv

\* An edge on a line whose handler is attached raises its interrupt.
LEMMA EdgesStep ==
  ASSUME TypeInv, SetupInv, AgreeInv, NEW now, Edges(now), fate' = fate
  PROVE  /\ TypeInv' /\ SetupInv' /\ AgreeInv'
         /\ latched # {} => clean' = FALSE
         /\ latched = {} => clean' = clean /\ latched' = attached \cap ((now \ line) \cup (line \ now))
         /\ line' = now /\ external' = external /\ main' = main /\ shown' = shown
         /\ sending' = sending /\ owner' = owner /\ stale' = stale
  <1>1. /\ line' = now
        /\ latched' = latched \cup (attached \cap ((now \ line) \cup (line \ now)))
        /\ latched # {} => clean' = FALSE
        /\ latched = {} => clean' = clean
        /\ external' = external /\ main' = main /\ level' = level /\ shown' = shown
        /\ sending' = sending /\ owner' = owner /\ stale' = stale /\ attached' = attached
    BY DEF Edges, task
  <1>2. TypeInv'
    BY <1>1 DEF TypeInv
  <1>3. SetupInv'
    BY <1>1 DEF SetupInv
  <1>4. AgreeInv'
    <2> SUFFICES ASSUME ~stale, NEW p \in Pins, Registered(p), p \notin latched'
                 PROVE  p \in external.high <=> p \in line'
      BY <1>1 DEF AgreeInv, Registered, Polling
    <2>1. p \in attached
      BY DEF SetupInv, Registered, Polling, Pins
    <2>2. (p \in line' <=> p \in line) /\ p \notin latched
      BY <1>1, <2>1
    <2>3. p \in external.high <=> p \in line
      BY <2>2 DEF AgreeInv
    <2>4. QED
      BY <2>2, <2>3
  <1>5. QED
    BY <1>1, <1>2, <1>3, <1>4

\* Where a clean card that is not read yet is.
LEMMA Under ==
  ASSUME TypeInv, CleanInv, clean, sending # 0, fate[sending] \notin Done
  PROVE  /\ Polling /\ ~stale /\ fate[sending] = "unread"
         /\ shown[sending] \in Cards
         /\ Message(shown[sending]) \in Seq(Pins) /\ Len(Message(shown[sending])) = ExpectedBits
         /\ \E n \in 0..(ExpectedBits - 1) : Receives(Message(shown[sending]), n)
  <1>1. shown[sending] \in Cards
    BY DEF TypeInv
  <1>2. QED
    BY <1>1, MessageFacts DEF CleanInv

LEMMA PulseBeginsStep ==
  ASSUME IInv, PulseBegins
  PROVE  IInv'
  <1>1. TypeInv /\ SetupInv /\ AgreeInv /\ CleanInv
    BY DEF IInv
  <1>2. /\ line = Pins /\ tx' = tx /\ fate' = fate /\ tx # <<>>
        /\ Edges(Pins \ {Head(tx)})
    BY DEF PulseBegins
  <1>3. /\ TypeInv' /\ SetupInv' /\ AgreeInv'
        /\ latched # {} => clean' = FALSE
        /\ latched = {} => clean' = clean /\ latched' = (attached \cap Pins) \cap {Head(tx)}
        /\ line' = Pins \ {Head(tx)} /\ external' = external /\ main' = main /\ shown' = shown
        /\ sending' = sending /\ owner' = owner /\ stale' = stale
    <2> DEFINE now == Pins \ {Head(tx)}
    <2>1. Edges(now)
      BY <1>2
    <2>2. line' = now
      BY <2>1 DEF Edges
    <2>3. /\ TypeInv' /\ SetupInv' /\ AgreeInv'
          /\ latched # {} => clean' = FALSE
          /\ latched = {} => clean' = clean /\ latched' = attached \cap ((now \ line) \cup (line \ now))
          /\ external' = external /\ main' = main /\ shown' = shown
          /\ sending' = sending /\ owner' = owner /\ stale' = stale
      BY <1>1, <1>2, <2>1, EdgesStep
    <2>4. attached \cap ((now \ line) \cup (line \ now)) = (attached \cap Pins) \cap {Head(tx)}
      BY <1>2
    <2>5. QED
      BY <2>2, <2>3, <2>4
  <1>4. ASSUME clean', sending' # 0 PROVE CleanInv'
    <2>1. clean /\ sending # 0 /\ latched = {}
      BY <1>3, <1>4
    <2>2. Polling' /\ ~stale'
      BY <1>1, <1>3, <2>1 DEF CleanInv, Polling
    <2>3. CASE fate[sending] \in Done
      BY <1>2, <1>3, <2>2, <2>3 DEF CleanInv
    <2>4. CASE fate[sending] \notin Done
      <3> DEFINE m == Message(shown[sending])
      <3>1. /\ fate[sending] = "unread" /\ m \in Seq(Pins) /\ Len(m) = ExpectedBits
            /\ \E n \in 0..(ExpectedBits - 1) : Receives(m, n)
        BY <1>1, <2>1, <2>4, Under
      <3>2. PICK n \in 0..(ExpectedBits - 1) : Receives(m, n)
        BY <3>1
      <3> HIDE DEF m
      <3>3. m[n + 1] \in Pins /\ Head(Rest(m, n)) = m[n + 1]
        BY <3>1, FirstAndRest
      <3>4. external.high = Pins /\ tx = Rest(m, n)
        BY <1>2, <2>1, <3>2, <3>3 DEF Receives
      <3>5. line' = Pins \ {m[n + 1]} /\ latched' = {m[n + 1]}
        <4>1. Pins \subseteq attached
          BY <1>1, <2>1 DEF CleanInv, SetupInv, Polling, Pins
        <4>2. QED
          BY <1>3, <2>1, <3>3, <3>4, <4>1
      <3>6. Receives(m, n)'
        BY <1>2, <1>3, <3>2, <3>4, <3>5 DEF Receives, Rest, First, m
      <3>7. QED
        BY <1>2, <1>3, <2>2, <3>1, <3>6 DEF CleanInv, m
    <2>5. QED
      BY <2>3, <2>4
  <1>5. CleanInv'
    BY <1>4 DEF CleanInv
  <1>6. QED
    BY <1>3, <1>5 DEF IInv

LEMMA PulseEndsStep ==
  ASSUME IInv, PulseEnds
  PROVE  IInv'
  <1>1. TypeInv /\ SetupInv /\ AgreeInv /\ CleanInv
    BY DEF IInv
  <1>2. line \notin {{}, Pins} /\ tx' = Tail(tx) /\ fate' = fate /\ Edges(Pins)
    BY DEF PulseEnds
  <1>3. /\ TypeInv' /\ SetupInv' /\ AgreeInv'
        /\ latched # {} => clean' = FALSE
        /\ latched = {} => clean' = clean /\ latched' = attached \cap ((Pins \ line) \cup (line \ Pins))
        /\ line' = Pins /\ external' = external /\ main' = main /\ shown' = shown
        /\ sending' = sending /\ owner' = owner /\ stale' = stale
    BY <1>1, <1>2, EdgesStep
  <1>4. ASSUME clean', sending' # 0 PROVE CleanInv'
    <2>1. clean /\ sending # 0 /\ latched = {}
      BY <1>3, <1>4
    <2>2. Polling' /\ ~stale'
      BY <1>1, <1>3, <2>1 DEF CleanInv, Polling
    <2>3. CASE fate[sending] \in Done
      BY <1>2, <1>3, <2>2, <2>3 DEF CleanInv
    <2>4. CASE fate[sending] \notin Done
      <3> DEFINE m == Message(shown[sending])
      <3>1. /\ fate[sending] = "unread" /\ m \in Seq(Pins) /\ Len(m) = ExpectedBits
            /\ \E n \in 0..(ExpectedBits - 1) : Receives(m, n)
        BY <1>1, <2>1, <2>4, Under
      <3>2. PICK n \in 0..(ExpectedBits - 1) : Receives(m, n)
        BY <3>1
      <3> HIDE DEF m
      <3>3. m[n + 1] \in Pins /\ Tail(Rest(m, n)) = Rest(m, n + 1)
        BY <3>1, FirstAndRest
      <3>4. /\ line = Pins \ {m[n + 1]} /\ external.high = Pins \ {m[n + 1]} /\ tx = Rest(m, n)
            /\ ~external.quiet
        BY <1>2, <2>1, <3>2 DEF Receives
      <3>5. latched' = {m[n + 1]}
        <4>1. Pins \subseteq attached
          BY <1>1, <2>1 DEF CleanInv, SetupInv, Polling, Pins
        <4>2. QED
          BY <1>3, <2>1, <3>3, <3>4, <4>1
      <3>6. Receives(m, n)'
        BY <1>2, <1>3, <3>2, <3>3, <3>4, <3>5 DEF Receives, Rest, First, m
      <3>7. QED
        BY <1>2, <1>3, <2>2, <3>1, <3>6 DEF CleanInv, m
    <2>5. QED
      BY <2>3, <2>4
  <1>5. CleanInv'
    BY <1>4 DEF CleanInv
  <1>6. QED
    BY <1>3, <1>5 DEF IInv

LEMMA PlugStep ==
  ASSUME IInv, Plug
  PROVE  IInv'
  <1>1. TypeInv /\ SetupInv /\ AgreeInv /\ CleanInv
    BY DEF IInv
  <1>2. line = {} /\ latched = {} /\ fate' = fate /\ Edges(Pins)
    BY DEF Plug
  <1>3. /\ TypeInv' /\ SetupInv' /\ AgreeInv'
        /\ clean' = clean
        /\ main' = main /\ shown' = shown /\ sending' = sending /\ stale' = stale
    BY <1>1, <1>2, EdgesStep
  <1>4. ASSUME clean', sending' # 0 PROVE CleanInv'
    <2>1. clean /\ sending # 0
      BY <1>3, <1>4
    <2>2. Polling' /\ ~stale'
      BY <1>1, <1>3, <2>1 DEF CleanInv, Polling
    <2>3. fate[sending] \in Done
      <3> SUFFICES ASSUME fate[sending] \notin Done PROVE FALSE
        OBVIOUS
      <3> DEFINE m == Message(shown[sending])
      <3>1. /\ m \in Seq(Pins) /\ Len(m) = ExpectedBits
            /\ \E n \in 0..(ExpectedBits - 1) : Receives(m, n)
        BY <1>1, <2>1, Under
      <3>2. PICK n \in 0..(ExpectedBits - 1) : Receives(m, n)
        BY <3>1
      <3> HIDE DEF m
      <3>3. m[n + 1] \in Pins
        BY <3>1, FirstAndRest
      <3>4. line = Pins \/ line = Pins \ {m[n + 1]}
        BY <3>2 DEF Receives
      <3>5. QED
        BY <1>2, <3>3, <3>4 DEF Pins
    <2>4. QED
      BY <1>2, <1>3, <2>2, <2>3 DEF CleanInv
  <1>5. CleanInv'
    BY <1>4 DEF CleanInv
  <1>6. QED
    BY <1>3, <1>5 DEF IInv

LEMMA UnplugStep ==
  ASSUME IInv, Unplug
  PROVE  IInv'
  <1>1. TypeInv /\ SetupInv /\ AgreeInv
    BY DEF IInv
  <1>2. /\ line' = {} /\ latched = {} /\ latched' = attached \cap line /\ clean' = FALSE
        /\ fate' = [n \in DOMAIN fate |-> IF n = sending /\ tx # <<>> THEN "cutOff" ELSE fate[n]]
        /\ attached' = attached /\ external' = external /\ main' = main /\ level' = level
        /\ shown' = shown /\ sending' = sending /\ owner' = owner /\ stale' = stale
    BY DEF Unplug, task
  <1>3. fate' \in [1..Len(shown) -> Fates]
    BY <1>1, <1>2 DEF TypeInv, Fates
  <1>4. TypeInv'
    BY <1>1, <1>2, <1>3 DEF TypeInv
  <1>5. SetupInv'
    BY <1>1, <1>2 DEF SetupInv
  <1>6. AgreeInv'
    <2> SUFFICES ASSUME ~stale, NEW p \in Pins, Registered(p), p \notin latched'
                 PROVE  p \in external.high <=> p \in line'
      BY <1>2 DEF AgreeInv, Registered, Polling
    <2>1. p \in attached
      BY <1>1 DEF SetupInv, Registered, Polling, Pins
    <2>2. p \notin line
      BY <1>2, <2>1
    <2>3. p \notin external.high
      BY <1>1, <1>2, <2>2 DEF AgreeInv
    <2>4. QED
      BY <1>2, <2>3
  <1>7. CleanInv'
    BY <1>2 DEF CleanInv
  <1>8. QED
    BY <1>4, <1>5, <1>6, <1>7 DEF IInv

LEMMA PauseStep ==
  ASSUME IInv, Pause
  PROVE  IInv'
  <1>1. TypeInv /\ SetupInv /\ AgreeInv /\ CleanInv
    BY DEF IInv
  <1>2. /\ tx = <<>> /\ latched = {} /\ external' = [external EXCEPT !.quiet = TRUE]
        /\ line' = line /\ latched' = latched /\ attached' = attached /\ main' = main
        /\ level' = level /\ shown' = shown /\ fate' = fate /\ sending' = sending
        /\ owner' = owner /\ clean' = clean /\ stale' = stale
    BY DEF Pause, wires, task
  <1>3. external' = Rests(external, TRUE) /\ external \in Object
    BY <1>1, <1>2, Zenon DEF Rests, TypeInv, Sane
  <1>4. /\ external' \in Object /\ external'.high = external.high
        /\ external'.connected = external.connected /\ external'.bits = external.bits
    BY <1>3, RestsFacts
  <1>5. Sane(external')
    BY <1>1, <1>4, Zenon DEF TypeInv, Sane
  <1>6. TypeInv'
    BY <1>1, <1>2, <1>5 DEF TypeInv
  <1>7. SetupInv' /\ AgreeInv'
    BY <1>1, <1>2, <1>4 DEF SetupInv, AgreeInv, Registered, Polling
  <1>8. ASSUME clean, sending # 0 PROVE CleanInv'
    <2>1. Polling' /\ ~stale'
      BY <1>1, <1>2, <1>8 DEF CleanInv, Polling
    <2>2. fate[sending] \in Done
      <3> SUFFICES ASSUME fate[sending] \notin Done PROVE FALSE
        OBVIOUS
      <3> DEFINE m == Message(shown[sending])
      <3>1. /\ m \in Seq(Pins) /\ Len(m) = ExpectedBits
            /\ \E n \in 0..(ExpectedBits - 1) : Receives(m, n)
        BY <1>1, <1>8, Under
      <3>2. PICK n \in 0..(ExpectedBits - 1) : Receives(m, n)
        BY <3>1
      <3> HIDE DEF m
      <3>3. tx = Rest(m, n)
        BY <1>2, <3>2 DEF Receives
      <3>4. QED
        BY <1>2, <3>1, <3>3, FirstAndRest
    <2>3. QED
      BY <1>2, <2>1, <2>2 DEF CleanInv
  <1>9. CleanInv'
    BY <1>2, <1>8 DEF CleanInv
  <1>10. QED
    BY <1>6, <1>7, <1>9 DEF IInv

\* The interrupts of a clean card: its line has gone low, or high again.
LEMMA ReceivesStep ==
  ASSUME TypeInv, NEW m \in Seq(Pins), Len(m) = ExpectedBits, ParityOK(m),
         NEW n \in 0..(ExpectedBits - 1), Receives(m, n),
         sending # 0, fate[sending] = "unread",
         NEW pin \in Pins, setExternalPinState(pin)
  PROVE  \/ fate'[sending] \in Done
         \/ fate'[sending] = "unread" /\ \E k \in 0..(ExpectedBits - 1) : Receives(m, k)'
  <1> DEFINE o == setPinState(external, pin, pin \in line)
             next == m[n + 1]
  <1>1. /\ Sane(external) /\ next \in Pins
        /\ Len(First(m, n)) = n /\ Append(First(m, n), next) = First(m, n + 1)
        /\ First(m, 0) = <<>> /\ First(m, ExpectedBits) = m /\ ExpectedBits \in Nat
    BY FirstAndRest, WiegandAssumption DEF TypeInv
  <1>2. /\ pin \in latched /\ latched' = latched \ {pin} /\ Callbacks(o)
        /\ line' = line /\ tx' = tx /\ sending' = sending
    BY DEF setExternalPinState
  <1>3. /\ external.connected = TRUE
        /\ external.quiet => n = 0 /\ owner # sending
        /\ ~external.quiet => external.bits = First(m, n) /\ external.error = FALSE
    BY Zenon DEF Receives
  <1>4. CASE line = Pins \ {next} /\ latched = {next} /\ external.high = Pins /\ tx = Rest(m, n)
    <2> DEFINE f == setPinState(external, pin, FALSE)
    <2>1. pin = next /\ pin \notin line
      BY <1>2, <1>4
    <2>2. Callbacks(f)
      <3>1. (pin \in line) = FALSE
        BY <2>1
      <3>2. QED
        BY <1>2, <3>1, Zenon
    <2>3. /\ f.state = "same" /\ f.after.high = Pins \ {pin} /\ f.after.quiet = FALSE
          /\ f.after.connected = external.connected
          /\ external.quiet => f.after.bits = <<>> /\ f.after.error = FALSE
          /\ ~external.quiet => f.after.bits = external.bits /\ f.after.error = external.error
          /\ flushData(f.flushed) # "data"
          /\ ~external.quiet => flushData(f.flushed) = "ignored"
      BY <1>1, <1>4, FallFacts, Zenon
    <2> HIDE DEF f
    <2>4. /\ external' = f.after
          /\ sending # 0 /\ owner # sending /\ fate[sending] = "unread" /\ f.state = "same" =>
               fate'[sending] \in Done \cup {"unread"}
          /\ flushData(f.flushed) = "ignored" /\ f.state = "same" => fate' = fate
      BY <2>2, <2>3, CallbackFacts DEF States
    <2>5. fate'[sending] \in Done \cup {"unread"}
      BY <1>3, <2>3, <2>4
    <2>6. external'.connected = TRUE /\ external'.high = Pins \ {next} /\ external'.quiet = FALSE
      BY <1>3, <2>1, <2>3, <2>4, Zenon
    <2>7. external'.bits = First(m, n)
      BY <1>1, <1>3, <2>3, <2>4
    <2>8. external'.error = FALSE
      BY <1>3, <2>3, <2>4, Zenon
    <2>9. latched' = {}
      BY <1>2, <1>4, <2>1
    <2>10. line' = Pins \ {next} /\ tx' = Rest(m, n)
      BY <1>2, <1>4
    <2>11. Receives(m, n)'
      BY <2>6, <2>7, <2>8, <2>9, <2>10 DEF Receives, Rest, First
    <2>12. QED
      BY <2>5, <2>11
  <1>5. CASE line = Pins /\ latched = {next} /\ external.high = Pins \ {next} /\ tx = Rest(m, n + 1)
             /\ ~external.quiet
    <2> DEFINE f == setPinState(external, pin, TRUE)
    <2>1. pin = next /\ pin \in line
      BY <1>2, <1>5
    <2>2. Callbacks(f)
      <3>1. (pin \in line) = TRUE
        BY <2>1
      <3>2. QED
        BY <1>2, <3>1, Zenon
    <2>3. external.quiet = FALSE
      <3>1. external.quiet \in BOOLEAN
        BY <1>1, ObjectFields, Zenon DEF Sane
      <3>2. QED
        BY <1>5, <3>1
    <2>4. Append(external.bits, pin) = First(m, n + 1)
      BY <1>1, <1>3, <1>5, <2>1
    <2>5. /\ f.state = "same"
          /\ Len(First(m, n + 1)) = ExpectedBits /\ ParityOK(First(m, n + 1)) =>
               flushData(f.flushed) = "data"
          /\ Len(First(m, n + 1)) # ExpectedBits =>
               /\ flushData(f.flushed) = "ignored"
               /\ f.after.bits = First(m, n + 1) /\ f.after.error = FALSE /\ f.after.quiet = FALSE
               /\ f.after.connected = TRUE
      <3>1. external.high = Pins \ {pin}
        BY <1>5, <2>1
      <3>2. external.error = FALSE
        BY <1>3, <1>5
      <3> DEFINE bits == Append(external.bits, pin)
      <3>3. /\ f.state = "same"
            /\ Len(bits) = ExpectedBits /\ ParityOK(bits) => flushData(f.flushed) = "data"
            /\ Len(bits) # ExpectedBits =>
                 /\ flushData(f.flushed) = "ignored"
                 /\ f.after.bits = bits /\ f.after.error = FALSE /\ f.after.quiet = FALSE
                 /\ f.after.connected = TRUE
        BY <1>1, <1>3, <2>3, <3>1, <3>2, RiseFacts, Zenon
      <3>4. bits = First(m, n + 1)
        BY <2>4
      <3> HIDE DEF bits, f
      <3>5. QED
        BY <3>3, <3>4, Zenon
    <2>6. f.after.high = Pins
      <3>1. f.after.high = HighAfter(external, pin, TRUE)
        BY <1>1, SetPinFacts, Zenon
      <3>2. QED
        BY <1>5, <2>1, <3>1 DEF HighAfter, Pins
    <2> HIDE DEF f
    <2>7. /\ external' = f.after
          /\ flushData(f.flushed) = "data" => fate'[sending] \in Done
          /\ flushData(f.flushed) = "ignored" /\ f.state = "same" => fate' = fate
      BY <2>2, <2>5, CallbackFacts DEF States
    <2>8. CASE n + 1 = ExpectedBits
      <3>1. Len(First(m, n + 1)) = ExpectedBits /\ ParityOK(First(m, n + 1))
        BY <1>1, <2>8
      <3>2. QED
        BY <2>5, <2>7, <3>1
    <2>9. CASE n + 1 # ExpectedBits
      <3>1. n + 1 \in 0..(ExpectedBits - 1) /\ Len(First(m, n + 1)) = n + 1
        BY <1>1, <2>9, FirstAndRest
      <3>2. /\ fate' = fate /\ external'.bits = First(m, n + 1) /\ external'.high = Pins
        BY <2>5, <2>6, <2>7, <2>9, <3>1
      <3>3. external'.error = FALSE /\ external'.quiet = FALSE /\ external'.connected = TRUE
        BY <2>5, <2>7, <2>9, <3>1, Zenon
      <3>4. line' = Pins /\ tx' = Rest(m, n + 1) /\ latched' = {}
        BY <1>2, <1>5, <2>1
      <3>5. Receives(m, n + 1)'
        BY <3>2, <3>3, <3>4 DEF Receives, Rest, First
      <3>6. QED
        BY <3>1, <3>2, <3>5
    <2>10. QED
      BY <2>8, <2>9
  <1>6. QED
    BY <1>2, <1>4, <1>5 DEF Receives

LEMMA InterruptStep ==
  ASSUME IInv, NEW pin \in Pins, setExternalPinState(pin)
  PROVE  IInv'
  <1> DEFINE o == setPinState(external, pin, pin \in line)
  <1>1. TypeInv /\ SetupInv /\ AgreeInv /\ CleanInv
    BY DEF IInv
  <1>2. /\ pin \in latched /\ latched' = latched \ {pin} /\ Callbacks(o)
        /\ stale' = (stale /\ external'.high # line)
        /\ line' = line /\ tx' = tx /\ attached' = attached /\ main' = main /\ level' = level
        /\ shown' = shown /\ sending' = sending /\ clean' = clean
    BY DEF setExternalPinState, task
  <1>3. Sane(o.after) /\ o.state \in States /\ o.after.high = HighAfter(external, pin, pin \in line)
    <2> DEFINE isHigh == pin \in line
    <2>1. isHigh \in BOOLEAN
      OBVIOUS
    <2>2. Sane(external)
      BY <1>1 DEF TypeInv
    <2> HIDE DEF isHigh
    <2>3. LET f == setPinState(external, pin, isHigh)
          IN  Sane(f.after) /\ f.state \in States /\ f.after.high = HighAfter(external, pin, isHigh)
      BY <2>1, <2>2, SetPinFacts, Zenon
    <2>4. QED
      BY <2>3, Zenon DEF isHigh
  <1> HIDE DEF o
  <1>4. /\ external' = o.after /\ owner' \in 0..Len(shown)
        /\ fate' \in [1..Len(shown) -> Fates]
        /\ sending # 0 /\ fate[sending] \in Done => fate'[sending] \in Done
    BY <1>1, <1>2, <1>3, CallbackFacts
  <1>5. TypeInv'
    BY <1>1, <1>2, <1>3, <1>4 DEF TypeInv
  <1>6. SetupInv'
    BY <1>1, <1>2 DEF SetupInv
  <1>7. external'.high = IF pin \in line THEN external.high \cup {pin} ELSE external.high \ {pin}
    BY <1>3, <1>4 DEF HighAfter
  <1>8. AgreeInv'
    <2> SUFFICES ASSUME ~stale', NEW p \in Pins, Registered(p), p \notin latched'
                 PROVE  p \in external'.high <=> p \in line
      BY <1>2 DEF AgreeInv, Registered, Polling
    <2>1. CASE stale
      BY <1>2, <2>1
    <2>2. CASE ~stale /\ p = pin
      BY <1>7, <2>2
    <2>3. CASE ~stale /\ p # pin
      <3>1. p \in external.high <=> p \in line
        BY <1>1, <1>2, <2>3 DEF AgreeInv
      <3>2. QED
        BY <1>7, <2>3, <3>1
    <2>4. QED
      BY <2>1, <2>2, <2>3
  <1>9. ASSUME clean, sending # 0 PROVE CleanInv'
    <2>1. Polling' /\ ~stale'
      BY <1>1, <1>2, <1>9 DEF CleanInv, Polling
    <2>2. CASE fate[sending] \in Done
      BY <1>2, <1>4, <1>9, <2>1, <2>2 DEF CleanInv
    <2>3. CASE fate[sending] \notin Done
      <3>1. /\ fate[sending] = "unread"
            /\ Message(shown[sending]) \in Seq(Pins) /\ Len(Message(shown[sending])) = ExpectedBits
            /\ ParityOK(Message(shown[sending]))
            /\ \E n \in 0..(ExpectedBits - 1) : Receives(Message(shown[sending]), n)
        BY <1>1, <1>9, <2>3, Under, MessageFacts
      <3>2. PICK m \in Seq(Pins) : m = Message(shown[sending])
        BY <3>1
      <3>3. Len(m) = ExpectedBits /\ ParityOK(m)
        BY <3>1, <3>2
      <3>4. PICK n \in 0..(ExpectedBits - 1) : Receives(m, n)
        BY <3>1, <3>2
      <3>5. \/ fate'[sending] \in Done
            \/ fate'[sending] = "unread" /\ \E k \in 0..(ExpectedBits - 1) : Receives(m, k)'
        BY <1>1, <1>9, <3>1, <3>3, <3>4, ReceivesStep
      <3>6. Message(shown'[sending']) = m
        BY <1>2, <3>2
      <3>7. QED
        BY <1>2, <2>1, <3>5, <3>6 DEF CleanInv
    <2>4. QED
      BY <2>2, <2>3
  <1>10. CleanInv'
    BY <1>2, <1>9 DEF CleanInv
  <1>11. QED
    BY <1>5, <1>6, <1>8, <1>10 DEF IInv

LEMMA AttachInterruptStep ==
  ASSUME IInv, NEW pin, NEW from, NEW to, AttachInterrupt(pin, from, to),
         <<pin, from, to>> \in {<<0, "attach0", "attach1">>, <<1, "attach1", "read0">>}
  PROVE  IInv'
  <1>1. TypeInv /\ SetupInv /\ AgreeInv /\ CleanInv
    BY DEF IInv
  <1>2. /\ main = from /\ main' = to /\ attached' = attached \cup {pin}
        /\ line' = line /\ latched' = latched /\ external' = external /\ level' = level
        /\ shown' = shown /\ fate' = fate /\ sending' = sending /\ owner' = owner
        /\ clean' = clean /\ stale' = stale
    BY DEF AttachInterrupt, MainGoes
  <1>3. TypeInv'
    BY <1>1, <1>2 DEF TypeInv
  <1>4. SetupInv'
    BY <1>1, <1>2 DEF SetupInv
  <1>5. AgreeInv'
    BY <1>2 DEF AgreeInv, Registered, Polling
  <1>6. CleanInv'
    BY <1>1, <1>2 DEF CleanInv, Polling
  <1>7. QED
    BY <1>3, <1>4, <1>5, <1>6 DEF IInv

LEMMA ReadLineStep ==
  ASSUME IInv, NEW pin, NEW from, NEW to, ReadLine(pin, from, to),
         <<pin, from, to>> \in {<<0, "read0", "set0">>, <<1, "read1", "set1">>}
  PROVE  IInv'
  <1>1. TypeInv /\ SetupInv /\ AgreeInv /\ CleanInv
    BY DEF IInv
  <1>2. /\ main = from /\ main' = to /\ level' = (pin \in line) /\ attached' = attached
        /\ line' = line /\ latched' = latched /\ external' = external
        /\ shown' = shown /\ fate' = fate /\ sending' = sending /\ owner' = owner
        /\ clean' = clean /\ stale' = stale
    BY DEF ReadLine, MainGoes
  <1>3. level' \in BOOLEAN
    BY <1>2
  <1>4. TypeInv'
    BY <1>1, <1>2, <1>3 DEF TypeInv
  <1>5. SetupInv'
    BY <1>1, <1>2 DEF SetupInv
  <1>6. AgreeInv'
    BY <1>1, <1>2 DEF AgreeInv, Registered, Polling
  <1>7. CleanInv'
    BY <1>1, <1>2 DEF CleanInv, Polling
  <1>8. QED
    BY <1>4, <1>5, <1>6, <1>7 DEF IInv

LEMMA RegisterLineStep ==
  ASSUME IInv, NEW pin \in Pins, NEW from, NEW to, RegisterLine(pin, from, to),
         <<pin, from, to>> \in {<<0, "set0", "read1">>, <<1, "set1", "check">>}
  PROVE  IInv'
  <1> DEFINE o == setPinState(external, pin, level)
  <1>1. TypeInv /\ SetupInv /\ AgreeInv /\ CleanInv
    BY DEF IInv
  <1>2. /\ main = from /\ main' = to /\ attached' = attached /\ Callbacks(o)
        /\ stale' = (stale \/ level # (pin \in line)) /\ level' = FALSE
        /\ line' = line /\ latched' = latched
        /\ shown' = shown /\ sending' = sending /\ clean' = clean
    BY DEF RegisterLine, MainGoes
  <1>3. Sane(o.after) /\ o.state \in States /\ o.after.high = HighAfter(external, pin, level)
    BY <1>1, SetPinFacts, Zenon DEF TypeInv
  <1> HIDE DEF o
  <1>4. /\ external' = o.after /\ owner' \in 0..Len(shown)
        /\ fate' \in [1..Len(shown) -> Fates]
    BY <1>1, <1>2, <1>3, CallbackFacts
  <1>5. level' \in BOOLEAN
    BY <1>2
  <1>6. TypeInv'
    BY <1>1, <1>2, <1>3, <1>4, <1>5 DEF TypeInv
  <1>7. SetupInv'
    BY <1>1, <1>2 DEF SetupInv
  <1>8. external'.high = IF level THEN external.high \cup {pin} ELSE external.high \ {pin}
    BY <1>3, <1>4 DEF HighAfter
  <1>9. AgreeInv'
    <2> SUFFICES ASSUME ~stale', NEW p \in Pins, Registered(p)', p \notin latched'
                 PROVE  p \in external'.high <=> p \in line
      BY <1>2 DEF AgreeInv
    <2>1. ~stale /\ (level <=> pin \in line)
      <3>1. ~(stale \/ level # (pin \in line))
        BY <1>2, Zenon
      <3>2. level \in BOOLEAN
        BY <1>1 DEF TypeInv
      <3>3. QED
        BY <3>1, <3>2
    <2>2. CASE p = pin
      BY <1>8, <2>1, <2>2
    <2>3. CASE p # pin
      <3>1. Registered(p)
        BY <1>2, <2>3 DEF Registered, Polling, Pins
      <3>2. p \in external.high <=> p \in line
        BY <1>1, <1>2, <2>1, <3>1 DEF AgreeInv
      <3>3. QED
        BY <1>8, <2>3, <3>2
    <2>4. QED
      BY <2>2, <2>3
  <1>10. CleanInv'
    BY <1>1, <1>2 DEF CleanInv, Polling
  <1>11. QED
    BY <1>6, <1>7, <1>9, <1>10 DEF IInv

\* The main task takes a card, or reports one: nothing else than its fate changes.
LEMMA MainStep ==
  ASSUME IInv, NEW from, NEW to, MainGoes(from, to), {from, to} \subseteq {"check", "copied", "messages", "busy"},
         attached' = attached, external' = external, level' = level, owner' = owner, stale' = stale,
         fate' \in [1..Len(shown) -> Fates],
         \A n \in 1..Len(shown) : /\ fate[n] \in Done => fate'[n] \in Done
                                  /\ fate[n] = "unread" => fate'[n] = "unread"
  PROVE  IInv'
  <1>1. TypeInv /\ SetupInv /\ AgreeInv /\ CleanInv
    BY DEF IInv
  <1>2. /\ main = from /\ main' = to /\ line' = line /\ tx' = tx /\ latched' = latched
        /\ shown' = shown /\ sending' = sending /\ clean' = clean
    BY DEF MainGoes
  <1>3. Polling /\ Polling'
    BY <1>2 DEF Polling
  <1>4. TypeInv'
    BY <1>1, <1>2 DEF TypeInv
  <1>5. SetupInv'
    BY <1>1, <1>2, <1>3 DEF SetupInv, Polling
  <1>6. AgreeInv'
    BY <1>1, <1>2, <1>3 DEF AgreeInv, Registered
  <1>7. sending # 0 => sending \in 1..Len(shown)
    BY <1>1 DEF TypeInv
  <1>8. CleanInv'
    BY <1>1, <1>2, <1>3, <1>7, CleanKept
  <1>9. QED
    BY <1>4, <1>5, <1>6, <1>8 DEF IInv

LEMMA CopyCardStep ==
  ASSUME IInv, CopyCard
  PROVE  IInv'
  <1>1. /\ fate \in [1..Len(shown) -> Fates]
        /\ fate' = [n \in DOMAIN fate |-> IF fate[n] = "read" THEN "answered" ELSE fate[n]]
    BY DEF IInv, TypeInv, CopyCard
  <1>2. /\ fate' \in [1..Len(shown) -> Fates]
        /\ \A n \in 1..Len(shown) : /\ fate[n] \in Done => fate'[n] \in Done
                                    /\ fate[n] = "unread" => fate'[n] = "unread"
    BY <1>1 DEF Fates, Done
  <1>3. QED
    BY <1>2, MainStep DEF CopyCard

LEMMA ClearNewAccessStep ==
  ASSUME IInv, ClearNewAccess
  PROVE  IInv'
  <1>1. /\ fate \in [1..Len(shown) -> Fates]
        /\ fate' = [n \in DOMAIN fate |-> IF fate[n] = "read" THEN "forgotten" ELSE fate[n]]
    BY DEF IInv, TypeInv, ClearNewAccess
  <1>2. /\ fate' \in [1..Len(shown) -> Fates]
        /\ \A n \in 1..Len(shown) : /\ fate[n] \in Done => fate'[n] \in Done
                                    /\ fate[n] = "unread" => fate'[n] = "unread"
    BY <1>1 DEF Fates, Done
  <1>3. QED
    BY <1>2, MainStep DEF ClearNewAccess

LEMMA LogMessagesStep ==
  ASSUME IInv, LogMessages
  PROVE  IInv'
  <1> DEFINE to == IF "readError" \in messages THEN "busy" ELSE "check"
  <1>1. /\ fate \in [1..Len(shown) -> Fates]
        /\ fate' = [n \in DOMAIN fate |-> IF fate[n] = "failed" /\ "readError" \in messages
                                          THEN "reported" ELSE fate[n]]
    BY DEF IInv, TypeInv, LogMessages
  <1>2. /\ fate' \in [1..Len(shown) -> Fates]
        /\ \A n \in 1..Len(shown) : /\ fate[n] \in Done => fate'[n] \in Done
                                    /\ fate[n] = "unread" => fate'[n] = "unread"
    BY <1>1 DEF Fates, Done
  <1>3. MainGoes("messages", to) /\ to \in {"busy", "check"}
    BY DEF LogMessages
  <1> HIDE DEF to
  <1>4. attached' = attached /\ external' = external /\ level' = level /\ owner' = owner /\ stale' = stale
    BY DEF LogMessages
  <1>5. PICK t \in {"busy", "check"} : MainGoes("messages", t)
    BY <1>3
  <1>6. QED
    BY <1>2, <1>4, <1>5, MainStep

LEMMA ReadyOrStartStep ==
  ASSUME IInv, Ready \/ StartLoop
  PROVE  IInv'
  <1>1. fate \in [1..Len(shown) -> Fates]
    BY DEF IInv, TypeInv
  <1>2. CASE Ready
    BY <1>1, <1>2, MainStep DEF Ready
  <1>3. CASE StartLoop
    BY <1>1, <1>3, MainStep DEF StartLoop
  <1>4. QED
    BY <1>2, <1>3

\* A flush ends a message only when the reader has been quiet for a while, and then a
\* card that is being sent has not begun.
LEMMA FlushReadersStep ==
  ASSUME IInv, FlushReaders
  PROVE  IInv'
  <1> DEFINE o == flush(external)
  <1>1. TypeInv /\ SetupInv /\ AgreeInv /\ CleanInv
    BY DEF IInv
  <1>2. /\ main = "check" /\ main' = "messages" /\ Callbacks(o)
        /\ line' = line /\ tx' = tx /\ latched' = latched /\ attached' = attached /\ level' = level
        /\ shown' = shown /\ sending' = sending /\ clean' = clean /\ stale' = stale
    BY DEF FlushReaders, MainGoes
  <1>3. /\ Sane(o.after)
        /\ external.quiet => o.after = reset(external) /\ o.flushed = external
        /\ ~external.quiet => o.after = external /\ o.flushed.bits = <<>>
        /\ o.after.high = external.high /\ o.after.connected = external.connected
        /\ o.after.quiet = external.quiet /\ o.state = "same"
    BY <1>1, FlushFacts, Zenon DEF TypeInv
  <1>4. external.quiet => o.after.bits = <<>>
    <2>1. external \in Object
      BY <1>1, Zenon DEF TypeInv, Sane
    <2>2. QED
      BY <1>3, <2>1, ResetFacts, Zenon
  <1> HIDE DEF o
  <1>5. /\ external' = o.after
        /\ owner' \in 0..Len(shown) /\ (o.after.bits = <<>> => owner' = 0)
        /\ fate' \in [1..Len(shown) -> Fates]
        /\ sending # 0 /\ fate[sending] \in Done => fate'[sending] \in Done
        /\ sending # 0 /\ owner # sending /\ fate[sending] = "unread" /\ o.state = "same" =>
             fate'[sending] \in Done \cup {"unread"}
        /\ flushData(o.flushed) = "ignored" /\ o.state = "same" => fate' = fate
    BY <1>1, <1>2, <1>3, CallbackFacts DEF States
  <1>6. TypeInv'
    BY <1>1, <1>2, <1>3, <1>5 DEF TypeInv
  <1>7. SetupInv'
    BY <1>1, <1>2 DEF SetupInv
  <1>8. AgreeInv'
    BY <1>1, <1>2, <1>3, <1>5 DEF AgreeInv, Registered, Polling
  <1>9. ASSUME clean, sending # 0 PROVE CleanInv'
    <2>1. Polling' /\ ~stale'
      BY <1>1, <1>2, <1>9 DEF CleanInv, Polling
    <2>2. CASE fate[sending] \in Done
      BY <1>2, <1>5, <1>9, <2>1, <2>2 DEF CleanInv
    <2>3. CASE fate[sending] \notin Done
      <3> DEFINE m == Message(shown[sending])
      <3>1. /\ fate[sending] = "unread"
            /\ \E n \in 0..(ExpectedBits - 1) : Receives(m, n)
        BY <1>1, <1>9, <2>3, Under
      <3>2. PICK n \in 0..(ExpectedBits - 1) : Receives(m, n)
        BY <3>1
      <3>3. m' = m
        BY <1>2 DEF Message
      <3> HIDE DEF m
      <3>4. CASE external.quiet
        <4>1. n = 0 /\ owner # sending /\ external.connected = TRUE
          BY <3>2, <3>4 DEF Receives
        <4>2. owner' = 0 /\ owner' # sending'
          BY <1>2, <1>3, <1>4, <1>5, <1>9, <3>4
        <4>3. external'.connected = TRUE /\ external'.quiet /\ external'.high = external.high
          BY <1>3, <1>5, <3>4, <4>1, Zenon
        <4>4. Receives(m, n)'
          BY <1>2, <3>2, <3>3, <3>4, <4>1, <4>2, <4>3 DEF Receives, Rest, First
        <4>5. fate'[sending] \in Done \cup {"unread"}
          BY <1>3, <1>5, <1>9, <3>1, <4>1
        <4>6. QED
          BY <1>2, <2>1, <4>4, <4>5 DEF CleanInv, m
      <3>5. CASE ~external.quiet
        <4>1. external' = external /\ flushData(o.flushed) = "ignored"
          BY <1>3, <1>5, <3>5, Verdicts, Zenon
        <4>2. fate' = fate
          BY <1>3, <1>5, <4>1
        <4>3. Receives(m, n)'
          BY <1>2, <3>2, <3>3, <3>5, <4>1 DEF Receives, Rest, First
        <4>4. QED
          BY <1>2, <2>1, <3>1, <4>2, <4>3 DEF CleanInv, m
      <3>6. QED
        BY <3>4, <3>5
    <2>4. QED
      BY <2>2, <2>3
  <1>10. CleanInv'
    BY <1>2, <1>9 DEF CleanInv
  <1>11. QED
    BY <1>6, <1>7, <1>8, <1>10 DEF IInv

LEMMA StepInv ==
  ASSUME IInv, [Next]_vars
  PROVE  IInv'
  <1>1. CASE UNCHANGED vars
    BY <1>1 DEF vars, wires, access, task, IInv, TypeInv, SetupInv, AgreeInv, CleanInv, Registered,
              Polling, Receives, Rest, First, Message
  <1>2. CASE initCardReaders
    BY <1>2, AttachInterruptStep, ReadLineStep, RegisterLineStep DEF initCardReaders, Pins
  <1>3. CASE checkCardReaders
    BY <1>3, CopyCardStep, ClearNewAccessStep, FlushReadersStep, LogMessagesStep, ReadyOrStartStep
       DEF checkCardReaders
  <1>4. CASE Interrupt
    BY <1>4, InterruptStep DEF Interrupt
  <1>5. CASE Reader
    BY <1>5, PulseBeginsStep, PulseEndsStep, PlugStep DEF Reader
  <1>6. QED
    BY <1>1, <1>2, <1>3, <1>4, <1>5, ShowCardStep, StrayPulseStep, UnplugStep, PauseStep,
       ReadyOrStartStep DEF Next

\* cardreader.cpp:59-73 and Wiegand.cpp:56: whatever happened before, with messages of
\* any length and any number of things that went wrong, a card none of whose edges came
\* late is read when its last edge is handled.
THEOREM GoodCardsAreReadAlways == Spec => []GoodCardsAreRead
  <1>1. Init => IInv
    BY InitInv
  <1>2. IInv /\ [Next]_vars => IInv'
    BY StepInv
  <1>3. IInv => GoodCardsAreRead
    <2> SUFFICES ASSUME IInv, clean, sending # 0, tx = <<>>, latched = {}, fate[sending] \notin Done
                 PROVE  FALSE
      BY DEF GoodCardsAreRead, Done
    <2> DEFINE m == Message(shown[sending])
    <2>1. m \in Seq(Pins) /\ Len(m) = ExpectedBits /\ \E n \in 0..(ExpectedBits - 1) : Receives(m, n)
      BY Under DEF IInv
    <2>2. PICK n \in 0..(ExpectedBits - 1) : Receives(m, n)
      BY <2>1
    <2> HIDE DEF m
    <2>3. tx = Rest(m, n)
      BY <2>2 DEF Receives
    <2>4. QED
      BY <2>1, <2>3, FirstAndRest
  <1>4. QED
    BY <1>1, <1>2, <1>3, PTL DEF Spec

-----------------------------------------------------------------------------
(***************************************************************************)
(* Part two.  A message with one wrong bit has the wrong parity.           *)
(***************************************************************************)
LEMMA OddFlips ==
  ASSUME NEW s \in Seq(Pins), NEW i \in 1..Len(s)
  PROVE  Odd([s EXCEPT ![i] = 1 - @]) <=> ~Odd(s)
  <1> DEFINE f == [s EXCEPT ![i] = 1 - @]
             c == Cardinality(Ones(s))
  <1>1. DOMAIN s = 1..Len(s) /\ s[i] \in Pins
    OBVIOUS
  <1>2. DOMAIN f = DOMAIN s /\ f[i] = 1 - s[i] /\ \A j \in DOMAIN s : j # i => f[j] = s[j]
    BY <1>1
  <1> HIDE DEF f
  <1>3. IsFiniteSet(Ones(s)) /\ c \in Nat
    BY OnesFinite
  <1>4. CASE s[i] = 1
    <2>1. Ones(f) = Ones(s) \ {i} /\ i \in Ones(s)
      BY <1>1, <1>2, <1>4 DEF Ones
    <2>2. Cardinality(Ones(f)) = c - 1
      BY <1>3, <2>1, FS_RemoveElement
    <2>3. c # 0
      BY <1>3, <2>1, FS_EmptySet
    <2>4. c - 1 \in Nat
      BY <1>3, <2>3
    <2>5. (c % 2 = 1 <=> (c - 1) % 2 # 1)
      BY <1>3, <2>4
    <2>6. QED
      BY <2>2, <2>5 DEF Odd, Ones, f
  <1>5. CASE s[i] = 0
    <2>1. Ones(f) = Ones(s) \cup {i} /\ i \notin Ones(s)
      BY <1>1, <1>2, <1>5 DEF Ones
    <2>2. Cardinality(Ones(f)) = c + 1
      BY <1>3, <2>1, FS_AddElement
    <2>3. ((c + 1) % 2 = 1 <=> c % 2 # 1)
      BY <1>3
    <2>4. QED
      BY <2>2, <2>3 DEF Odd, Ones, f
  <1>6. QED
    BY <1>1, <1>4, <1>5 DEF Pins

LEMMA Part ==
  ASSUME NEW s \in Seq(Pins), NEW a \in 1..Len(s), NEW b \in a..Len(s)
  PROVE  /\ SubSeq(s, a, b) \in Seq(Pins) /\ Len(SubSeq(s, a, b)) = b - a + 1
         /\ \A j \in 1..(b - a + 1) : SubSeq(s, a, b)[j] = s[a + j - 1]
BY SubSeqProperties

\* A message with one wrong bit is found out.
LEMMA WrongBit ==
  ASSUME NEW m \in Seq(Pins), Len(m) = ExpectedBits, ParityOK(m), NEW i \in 1..ExpectedBits
  PROVE  LET f == [m EXCEPT ![i] = 1 - @]
         IN  f \in Seq(Pins) /\ Len(f) = ExpectedBits /\ ~ParityOK(f)
  <1> DEFINE f == [m EXCEPT ![i] = 1 - @]
             h == ExpectedBits \div 2
             L == SubSeq(m, 1, h)
             R == SubSeq(m, h + 1, 2 * h)
  <1>1. h \in Nat /\ ExpectedBits = 2 * h /\ DOMAIN m = 1..(2 * h)
    BY HalfFacts
  <1>2. 1 - m[i] \in Pins
    BY DEF Pins
  <1>3. /\ f \in Seq(Pins) /\ Len(f) = 2 * h /\ f[i] = 1 - m[i]
        /\ \A j \in 1..(2 * h) : j # i => f[j] = m[j]
    BY <1>1, <1>2
  <1>4. LeftHalf(m) = L /\ RightHalf(m) = R /\ ~Odd(L) /\ Odd(R)
    BY <1>1 DEF LeftHalf, RightHalf, ParityOK
  <1>5. LeftHalf(f) = SubSeq(f, 1, h) /\ RightHalf(f) = SubSeq(f, h + 1, 2 * h)
    BY <1>1, <1>3 DEF LeftHalf, RightHalf
  <1> HIDE DEF f, h
  <1>6. CASE i \in 1..h
    <2> DEFINE p == SubSeq(f, 1, h)
               q == [L EXCEPT ![i] = 1 - @]
    <2>1. L \in Seq(Pins) /\ Len(L) = h /\ \A j \in 1..h : L[j] = m[j]
      BY <1>1
    <2>2. p \in Seq(Pins) /\ Len(p) = h /\ \A j \in 1..h : p[j] = f[j]
      BY <1>1, <1>3
    <2> HIDE DEF p, L
    <2>3. q \in Seq(Pins) /\ Len(q) = h /\ q[i] = 1 - L[i] /\ \A j \in 1..h : j # i => q[j] = L[j]
      BY <1>2, <1>6, <2>1
    <2> HIDE DEF q
    <2>4. \A j \in 1..h : p[j] = q[j]
      BY <1>1, <1>3, <1>6, <2>1, <2>2, <2>3
    <2>5. p = q
      BY <2>2, <2>3, <2>4, SameBits
    <2>6. Odd(q)
      BY <1>4, <1>6, <2>1, OddFlips DEF q
    <2>7. QED
      BY <1>1, <1>3, <1>5, <2>5, <2>6 DEF ParityOK, p, f
  <1>7. CASE i \in (h + 1)..(2 * h)
    <2> DEFINE k == i - h
               p == SubSeq(f, h + 1, 2 * h)
               q == [R EXCEPT ![k] = 1 - @]
    <2>1. /\ h + 1 \in Int /\ 2 * h \in Int /\ 2 * h - (h + 1) + 1 = h
          /\ k \in 1..h /\ h + k = i
          /\ \A j \in (h + 1)..(2 * h) : m[j] \in Pins /\ f[j] \in Pins
      BY <1>1, <1>3, <1>7
    <2> HIDE DEF k
    <2>2. R \in Seq(Pins) /\ Len(R) = h /\ \A j \in 1..h : R[j] = m[h + j]
      <3> DEFINE a == h + 1
                 b == 2 * h
      <3>1. a \in 1..Len(m) /\ b \in a..Len(m) /\ b - a + 1 = h
        BY <1>1, <1>3, <2>1
      <3>2. R = SubSeq(m, a, b)
        OBVIOUS
      <3> HIDE DEF a, b, R
      <3>3. R \in Seq(Pins) /\ Len(R) = h /\ \A j \in 1..h : R[j] = m[a + j - 1]
        BY <1>3, <3>1, <3>2, Part
      <3>4. \A j \in 1..h : a + j - 1 = h + j
        BY <1>1 DEF a
      <3>5. QED
        BY <3>3, <3>4
    <2>3. p \in Seq(Pins) /\ Len(p) = h /\ \A j \in 1..h : p[j] = f[h + j]
      <3> DEFINE a == h + 1
                 b == 2 * h
      <3>1. a \in 1..Len(f) /\ b \in a..Len(f) /\ b - a + 1 = h
        BY <1>1, <1>3, <2>1
      <3>2. p = SubSeq(f, a, b)
        OBVIOUS
      <3> HIDE DEF a, b, p
      <3>3. p \in Seq(Pins) /\ Len(p) = h /\ \A j \in 1..h : p[j] = f[a + j - 1]
        BY <1>3, <3>1, <3>2, Part
      <3>4. \A j \in 1..h : a + j - 1 = h + j
        BY <1>1 DEF a
      <3>5. QED
        BY <3>3, <3>4
    <2> HIDE DEF p, R
    <2>4. q \in Seq(Pins) /\ Len(q) = h /\ q[k] = 1 - R[k] /\ \A j \in 1..h : j # k => q[j] = R[j]
      <3>1. R[k] = m[i]
        BY <2>1, <2>2
      <3>2. QED
        BY <1>2, <2>1, <2>2, <3>1
    <2> HIDE DEF q
    <2>5. \A j \in 1..h : p[j] = q[j]
      <3> TAKE j \in 1..h
      <3>1. h + j \in 1..(2 * h)
        BY <1>1
      <3>2. CASE j = k
        BY <1>3, <2>1, <2>2, <2>3, <2>4, <3>2
      <3>3. CASE j # k
        <4>1. h + j # i
          BY <1>1, <2>1, <3>3
        <4>2. QED
          BY <1>3, <2>2, <2>3, <2>4, <3>1, <3>3, <4>1
      <3>4. QED
        BY <3>2, <3>3
    <2>6. p = q
      BY <2>3, <2>4, <2>5, SameBits
    <2>7. ~Odd(q)
      BY <1>4, <2>1, <2>2, OddFlips DEF q
    <2>8. QED
      BY <1>1, <1>3, <1>5, <2>6, <2>7 DEF ParityOK, p, f
  <1>8. QED
    BY <1>1, <1>6, <1>7

Sent(card) == {Message(card)} \cup {[Message(card) EXCEPT ![i] = 1 - @] : i \in 1..ExpectedBits}

\* What the reader may send for a card: the library takes it only if it is right.
LEMMA SentFacts ==
  ASSUME NEW card \in Cards, NEW m \in Sent(card)
  PROVE  /\ m \in Seq(Pins) /\ Len(m) = ExpectedBits
         /\ ParityOK(m) => SubSeq(m, 2, ExpectedBits - 1) = card
  <1>1. /\ Message(card) \in Seq(Pins) /\ Len(Message(card)) = ExpectedBits
        /\ ParityOK(Message(card)) /\ SubSeq(Message(card), 2, ExpectedBits - 1) = card
    BY MessageFacts
  <1>2. CASE m = Message(card)
    BY <1>1, <1>2
  <1>3. CASE \E i \in 1..ExpectedBits : m = [Message(card) EXCEPT ![i] = 1 - @]
    <2>1. PICK i \in 1..ExpectedBits : m = [Message(card) EXCEPT ![i] = 1 - @]
      BY <1>3
    <2>2. m \in Seq(Pins) /\ Len(m) = ExpectedBits /\ ~ParityOK(m)
      BY <1>1, <2>1, WrongBit, Zenon
    <2>3. QED
      BY <2>2
  <1>4. QED
    BY <1>2, <1>3 DEF Sent

-----------------------------------------------------------------------------
(***************************************************************************)
(* What an edge makes of the bits that the object of the library has: it   *)
(* adds none, or the one of its line, and never to a message that is full. *)
(***************************************************************************)
\* The bits that the next one is added to, and whether the message will be refused: what
\* flush() makes of the object before it is told of an edge.
Bits(w) == IF w.quiet THEN <<>> ELSE w.bits
Failed(w) == IF w.quiet THEN w.high # Pins ELSE w.error

\* A reader that is not there has no bits; one that is has a line that is high.
Present(w) == (w.connected => w.high # {}) /\ (~w.connected => w.bits = <<>>)

LEMMA AfterFlush ==
  ASSUME NEW w, Sane(w)
  PROVE  /\ flush(w).after.bits = Bits(w) /\ (flush(w).after.error <=> Failed(w))
         /\ Bits(flush(w).after) = Bits(w) /\ (Failed(flush(w).after) <=> Failed(w))
         /\ Bits(w) \in Seq(Pins) /\ Len(Bits(w)) \in Nat /\ Len(Bits(w)) < ExpectedBits
         /\ flushData(flush(w).flushed) # "data"
         /\ ~w.quiet => flushData(flush(w).flushed) = "ignored"
  <1>1. /\ w \in Object /\ Len(w.bits) < ExpectedBits
        /\ w.bits \in Seq(Pins) /\ w.error \in BOOLEAN
    BY ObjectFields, Zenon DEF Sane
  <1>2. /\ w.quiet => flush(w).after = reset(w) /\ flush(w).flushed = w
        /\ ~w.quiet => flush(w).after = w /\ flush(w).flushed.bits = <<>>
        /\ flush(w).after.high = w.high /\ flush(w).after.quiet = w.quiet
    BY FlushFacts, Zenon
  <1>3. CASE w.quiet
    <2>1. /\ reset(w).bits = <<>>
          /\ w.high = Pins => reset(w).error = FALSE
          /\ w.high # Pins => reset(w).error = TRUE
      BY <1>1, ResetFacts, Zenon
    <2>2. Bits(w) = <<>> /\ (Failed(w) <=> w.high # Pins)
      BY <1>3, Zenon DEF Bits, Failed
    <2>3. flush(w).after.bits = <<>> /\ (flush(w).after.error <=> Failed(w))
      BY <1>2, <1>3, <2>1, <2>2, Zenon
    <2>4. Bits(flush(w).after) = <<>> /\ (Failed(flush(w).after) <=> Failed(w))
      BY <1>2, <1>3, <2>2, Zenon DEF Bits, Failed
    <2>5. <<>> \in Seq(Pins) /\ Len(<<>>) = 0 /\ 0 < ExpectedBits
      BY WiegandAssumption
    <2>6. Len(w.bits) # ExpectedBits
      BY <1>1, WiegandAssumption
    <2>7. flushData(flush(w).flushed) # "data"
      BY <1>2, <1>3, <2>6, Verdicts, Zenon
    <2>8. QED
      BY <1>3, <2>2, <2>3, <2>4, <2>5, <2>7
  <1>4. CASE ~w.quiet
    <2>1. Bits(w) = w.bits /\ (Failed(w) <=> w.error) /\ flush(w).after = w
      BY <1>2, <1>4, Zenon DEF Bits, Failed
    <2>2. Len(w.bits) \in Nat
      BY <1>1
    <2>3. flushData(flush(w).flushed) = "ignored"
      BY <1>2, <1>4, Verdicts, Zenon
    <2>4. QED
      BY <1>1, <1>4, <2>1, <2>2, <2>3, Zenon
  <1>5. QED
    BY <1>3, <1>4, Zenon

\* What an edge, late or not, makes of a message: nothing, if it completes no bit
\* and the reader neither comes nor goes; ...
NoBit(w, pin, isHigh) ==
  \/ (pin \in w.high <=> isHigh)
  \/ HighAfter(w, pin, isHigh) \notin {{}, Pins}
  \/ HighAfter(w, pin, isHigh) = {} /\ ~w.connected

LEMMA EdgeKeeps ==
  ASSUME NEW w, Sane(w), Present(w), NEW pin \in Pins, NEW isHigh \in BOOLEAN,
         NoBit(w, pin, isHigh)
  PROVE  LET o == setPinState(w, pin, isHigh)
         IN  /\ o.state = "same" /\ (o.after.connected <=> w.connected) /\ Present(o.after)
             /\ Bits(o.after) = Bits(w) /\ (Failed(o.after) <=> Failed(w))
             /\ flushData(o.flushed) # "data"
             /\ ~w.quiet => flushData(o.flushed) = "ignored" /\ ~o.after.quiet
             /\ w.quiet => o.after.bits = <<>>
  <1> DEFINE now == Now(w, pin, isHigh)
             high == HighAfter(w, pin, isHigh)
             moves == ~(pin \in w.high <=> isHigh)
             before == flush(w).flushed
             a == flush(w).after
             o == setPinState(w, pin, isHigh)
  <1>1. /\ now.high = high /\ now.bits = a.bits /\ now.error = a.error
        /\ now.connected = w.connected /\ now.quiet = FALSE
    BY NowFacts, Zenon
  <1>2. /\ ~moves => o = flush(w)
        /\ moves /\ now.high = {} /\ ~now.connected => o = Outcome(now, before, "same")
        /\ moves /\ now.high # Pins /\ now.high # {} => o = Outcome(now, before, "same")
    BY SetPinCases, Zenon
  <1>3. /\ a.bits = Bits(w) /\ (a.error <=> Failed(w))
        /\ Bits(a) = Bits(w) /\ (Failed(a) <=> Failed(w))
        /\ flushData(before) # "data"
        /\ ~w.quiet => flushData(before) = "ignored"
    BY AfterFlush, Zenon
  <1>4. /\ a.high = w.high /\ a.connected = w.connected /\ a.quiet = w.quiet /\ flush(w).state = "same"
    BY FlushFacts, Zenon
  <1>5. w.quiet => Bits(w) = <<>>
    BY Zenon DEF Bits
  <1>6. ~w.connected => a.bits = <<>>
    BY <1>3, Zenon DEF Present, Bits
  <1>7. CASE ~moves
    <2>1. o = flush(w)
      BY <1>2, <1>7, Zenon
    <2>2. Present(a)
      BY <1>4, <1>6, Zenon DEF Present
    <2>3. QED
      BY <1>3, <1>4, <1>5, <2>1, <2>2, Zenon
  <1>8. CASE moves
    <2>1. high \notin {{}, Pins} \/ (high = {} /\ ~w.connected)
      BY <1>8 DEF NoBit
    <2> HIDE DEF now, high, before, o, moves, a
    <2>2. o = Outcome(now, before, "same")
      BY <1>1, <1>2, <1>8, <2>1
    <2>3. o.after = now /\ o.flushed = before /\ o.state = "same"
      BY <2>2 DEF Outcome
    <2>4. Bits(now) = a.bits /\ (Failed(now) <=> a.error)
      BY <1>1, Zenon DEF Bits, Failed
    <2>5. Present(now)
      <3>1. now.connected => now.high # {}
        BY <1>1, <2>1
      <3>2. QED
        BY <1>1, <1>6, <3>1, Zenon DEF Present
    <2>6. QED
      BY <1>1, <1>3, <1>5, <2>3, <2>4, <2>5, Zenon DEF o
  <1>9. QED
    BY <1>7, <1>8, Zenon

\* ... the reader comes, and is not trusted until it has been quiet, or goes; ...
LEMMA EdgeConnects ==
  ASSUME NEW w, Sane(w), Present(w), NEW pin \in Pins, NEW isHigh \in BOOLEAN,
         ~(pin \in w.high <=> isHigh), HighAfter(w, pin, isHigh) = Pins, ~w.connected
  PROVE  LET o == setPinState(w, pin, isHigh)
         IN  /\ o.after.connected /\ ~o.after.quiet /\ Bits(o.after) = <<>> /\ Failed(o.after)
             /\ Present(o.after) /\ flushData(o.flushed) # "data"
  <1> DEFINE now == Now(w, pin, isHigh)
             before == flush(w).flushed
             a == flush(w).after
             u == Connects(now, TRUE, TRUE)
             o == setPinState(w, pin, isHigh)
  <1>1. /\ now \in Object /\ now.high = HighAfter(w, pin, isHigh) /\ now.bits = a.bits
        /\ now.connected = w.connected /\ now.quiet = FALSE
    BY NowFacts, Zenon
  <1>2. o = Plugged(now, before)
    BY <1>1, SetPinCases, Zenon
  <1> HIDE DEF now, o, before
  <1>3. o.after = u /\ o.flushed = before
    <2>1. o = Outcome(u, before, "plugged")
      BY <1>2, Zenon DEF Plugged, Connects
    <2> HIDE DEF u
    <2>2. QED
      BY <2>1 DEF Outcome
  <1>4. /\ u.connected = TRUE /\ u.error = TRUE /\ u.high = now.high /\ u.bits = now.bits
        /\ u.quiet = now.quiet
    BY <1>1, ConnectsFacts
  <1>5. a.bits = <<>> /\ flushData(before) # "data"
    BY AfterFlush, Zenon DEF Present, Bits, before
  <1>6. Pins # {}
    BY DEF Pins
  <1> HIDE DEF u, a
  <1>7. u.connected /\ ~u.quiet /\ Bits(u) = <<>> /\ Failed(u)
    BY <1>1, <1>4, <1>5, Zenon DEF Bits, Failed
  <1>8. Present(u)
    BY <1>1, <1>4, <1>5, <1>6, Zenon DEF Present
  <1>9. QED
    BY <1>3, <1>5, <1>7, <1>8, Zenon DEF o

LEMMA EdgeDisconnects ==
  ASSUME NEW w, Sane(w), Present(w), NEW pin \in Pins, NEW isHigh \in BOOLEAN,
         ~(pin \in w.high <=> isHigh), HighAfter(w, pin, isHigh) = {}, w.connected
  PROVE  LET o == setPinState(w, pin, isHigh)
         IN  /\ ~o.after.connected /\ ~o.after.quiet /\ Bits(o.after) = <<>>
             /\ Present(o.after) /\ flushData(o.flushed) # "data"
  <1> DEFINE now == Now(w, pin, isHigh)
             before == flush(w).flushed
             r == reset(now)
             u == Connects(r, FALSE, FALSE)
             e == Connects(now, now.connected, TRUE)
             o == setPinState(w, pin, isHigh)
             f == IF before.bits = <<>> THEN e ELSE before
  <1>1. /\ now \in Object /\ now.high = HighAfter(w, pin, isHigh)
        /\ now.connected = w.connected /\ now.quiet = FALSE /\ Len(now.bits) < ExpectedBits
    BY NowFacts, Zenon
  <1>2. o = Unplugged(now, before)
    BY <1>1, SetPinCases, Zenon
  <1>3. now.bits \in Seq(Pins) /\ now.connected \in BOOLEAN
    BY <1>1, ObjectFields, Zenon
  <1> HIDE DEF now, o, before
  <1>4. o.after = u /\ (o.flushed = before \/ o.flushed = [now EXCEPT !.error = TRUE])
    <2>1. o = Outcome(u, IF before.bits = <<>> THEN [now EXCEPT !.error = TRUE] ELSE before, "unplugged")
      BY <1>2, Zenon DEF Unplugged, Connects
    <2> HIDE DEF u
    <2>2. QED
      BY <2>1 DEF Outcome
  <1>5. r \in Object /\ r.bits = <<>> /\ r.quiet = now.quiet
    BY <1>1, ResetFacts, Zenon
  <1> HIDE DEF r
  <1>6. u.connected = FALSE /\ u.bits = r.bits /\ u.quiet = r.quiet
    BY <1>5, ConnectsFacts
  <1>7. flushData(o.flushed) # "data"
    <2>1. CASE o.flushed = before
      BY <2>1, AfterFlush, Zenon DEF before
    <2>2. CASE o.flushed = [now EXCEPT !.error = TRUE]
      <3>1. [now EXCEPT !.error = TRUE].bits = now.bits
        BY <1>1 DEF Object
      <3>2. Len(now.bits) # ExpectedBits
        BY <1>1, <1>3, WiegandAssumption
      <3>3. QED
        BY <2>2, <3>1, <3>2, Verdicts, Zenon
    <2>3. QED
      BY <1>4, <2>1, <2>2
  <1> HIDE DEF u
  <1>8. ~u.connected /\ ~u.quiet /\ Bits(u) = <<>> /\ Present(u)
    BY <1>1, <1>5, <1>6, Zenon DEF Bits, Present
  <1>9. QED
    BY <1>4, <1>7, <1>8, Zenon DEF o

\* ... or a bit is complete.
LEMMA EdgeCompletes ==
  ASSUME NEW w, Sane(w), Present(w), NEW pin \in Pins, NEW isHigh \in BOOLEAN,
         ~(pin \in w.high <=> isHigh), HighAfter(w, pin, isHigh) = Pins, w.connected
  PROVE  LET o == setPinState(w, pin, isHigh)
             bits == Append(Bits(w), pin)
         IN  /\ o.state = "same" /\ o.after.connected /\ ~o.after.quiet /\ Present(o.after)
             /\ Len(bits) = Len(Bits(w)) + 1
             /\ Len(bits) = ExpectedBits =>
                  /\ Bits(o.after) = <<>> /\ o.flushed.bits = bits
                  /\ flushData(o.flushed) = "data" => ~Failed(w) /\ ParityOK(bits)
             /\ Len(bits) # ExpectedBits =>
                  /\ Bits(o.after) = bits /\ (Failed(o.after) <=> Failed(w))
                  /\ flushData(o.flushed) # "data"
                  /\ ~w.quiet => flushData(o.flushed) = "ignored"
  <1> DEFINE now == Now(w, pin, isHigh)
             before == flush(w).flushed
             a == flush(w).after
             added == WithBits(now, Append(now.bits, pin))
             bits == Append(Bits(w), pin)
             o == setPinState(w, pin, isHigh)
  <1>1. /\ now \in Object /\ now.high = HighAfter(w, pin, isHigh) /\ now.bits = a.bits
        /\ now.error = a.error
        /\ now.connected = w.connected /\ now.quiet = FALSE /\ Len(now.bits) < ExpectedBits
    BY NowFacts, Zenon
  <1>2. /\ a.bits = Bits(w) /\ (a.error <=> Failed(w)) /\ flushData(before) # "data"
        /\ ~w.quiet => flushData(before) = "ignored"
    BY AfterFlush, Zenon
  <1>3. o = addBitInternal(now, pin, before)
    BY <1>1, SetPinCases, Zenon
  <1> HIDE DEF now, o, before, a
  <1>4. /\ added \in Object /\ added.bits = Append(now.bits, pin) /\ added.high = now.high
        /\ added.connected = now.connected /\ added.error = now.error /\ added.quiet = now.quiet
        /\ Len(added.bits) = Len(now.bits) + 1 /\ Len(now.bits) \in Nat
    BY <1>1, AddBitCases, Zenon
  <1>5. /\ o.state = "same"
        /\ Len(now.bits) + 1 = ExpectedBits => o.after = reset(added) /\ o.flushed = added
        /\ Len(now.bits) + 1 # ExpectedBits => o.after = added /\ o.flushed = before
    BY <1>1, <1>3, AddBitCases
  <1> HIDE DEF added
  <1>6. /\ added.bits = bits /\ Len(bits) = Len(Bits(w)) + 1 /\ Len(bits) = Len(now.bits) + 1
        /\ (added.error <=> Failed(w)) /\ added.connected /\ ~added.quiet /\ added.high = Pins
    <2>1. now.bits = Bits(w)
      BY <1>1, <1>2
    <2>2. added.bits = bits
      BY <1>4, <2>1
    <2>3. (added.error <=> Failed(w)) /\ added.connected /\ ~added.quiet /\ added.high = Pins
      BY <1>1, <1>2, <1>4, Zenon
    <2>4. QED
      BY <1>4, <2>1, <2>2, <2>3
  <1>7. Pins # {}
    BY DEF Pins
  <1> HIDE DEF bits
  <1>8. CASE Len(bits) = ExpectedBits
    <2>1. o.after = reset(added) /\ o.flushed = added
      BY <1>5, <1>6, <1>8
    <2>2. /\ reset(added).bits = <<>> /\ reset(added).high = added.high
          /\ reset(added).connected = added.connected /\ reset(added).quiet = added.quiet
      BY <1>4, ResetFacts, Zenon
    <2>3. /\ o.after.connected /\ ~o.after.quiet /\ o.after.bits = <<>> /\ o.after.high = Pins
      BY <1>6, <2>1, <2>2, Zenon
    <2>4. flushData(added) = "data" => ~added.error /\ ParityOK(added.bits)
      <3> DEFINE none == added.bits = <<>>
                 good == ~added.error /\ Len(added.bits) = ExpectedBits /\ ParityOK(added.bits)
      <3>1. flushData(added) = CASE none -> "ignored" [] good -> "data" [] OTHER -> "error"
        BY Zenon DEF flushData
      <3>2. ~good => flushData(added) # "data"
        <4> HIDE DEF none, good
        <4>1. none /\ ~good => flushData(added) = "ignored"
          BY <3>1, Zenon
        <4>2. ~none /\ ~good => flushData(added) = "error"
          BY <3>1, Zenon
        <4>3. QED
          BY <4>1, <4>2
      <3>3. QED
        BY <3>2, Zenon
    <2>5. Present(o.after) /\ Bits(o.after) = <<>>
      BY <1>7, <2>3, Zenon DEF Present, Bits
    <2>6. QED
      BY <1>5, <1>6, <1>8, <2>1, <2>3, <2>4, <2>5, Zenon DEF o, bits
  <1>9. CASE Len(bits) # ExpectedBits
    <2>1. o.after = added /\ o.flushed = before
      BY <1>5, <1>6, <1>9
    <2>2. Bits(added) = bits /\ (Failed(added) <=> Failed(w)) /\ Present(added)
      BY <1>6, <1>7, Zenon DEF Bits, Failed, Present
    <2>3. QED
      BY <1>2, <1>5, <1>6, <1>9, <2>1, <2>2, Zenon DEF o, bits
  <1>10. QED
    BY <1>8, <1>9, Zenon

-----------------------------------------------------------------------------
(***************************************************************************)
(* Counting.  The object may have lost bits of what was on the wires, seen *)
(* a bit where there was none, or been told of an error.  What keeps it    *)
(* from reading something else is how many bits it can still get before the*)
(* next pause: too few for a message (Exhausted); enough for one that will *)
(* be refused, and not for another (Spoilt); or exactly those of the card  *)
(* that is being shown (ExactInv).                                         *)
(***************************************************************************)
\* What the callbacks leave for the main task and the log.
AccessInv ==
  /\ newAccess \in BOOLEAN /\ cardIDRaw \in Cards \cup {<<>>}
  /\ messages \subseteq {"plugged", "unplugged", "readError"}
  /\ Len(shown) <= MaxCards

\* The lines and what the interrupts and the object know of them: a line is low only for
\* the bit that is next, or both are as there is no power.
WiresInv ==
  /\ tx \in Seq(Pins) /\ Len(tx) <= ExpectedBits
  /\ line \subseteq Pins /\ attached \subseteq Pins
  /\ latched \subseteq attached /\ external.high \subseteq attached
  /\ line \notin {{}, Pins} => tx # <<>> /\ line = Pins \ {Head(tx)}
  /\ line = {} => tx = <<>>
  /\ main = "attach0" => attached = {}
  /\ main \in {"set0", "set1"} /\ line = {} => ~level
  /\ Present(external)

\* The object knows of a bit that is not complete although its pulse is over, or takes
\* the end of a power cut for one.
Extra ==
  /\ external.connected
  /\ IF line = {} THEN external.high \ latched # {} ELSE line \ external.high # {}

\* Each line that initCardReaders() has to register may be taken for another bit.
ToRegister == IF Polling THEN 0 ELSE IF main \in {"read1", "set1"} THEN 1 ELSE 2

\* The bits that the object has, and those that it may have before the next pause.
Coming == Len(Bits(external)) + Len(tx) + ToRegister + (IF Extra THEN 1 ELSE 0)

\* There are not enough for a message.
Exhausted == Coming < ExpectedBits

\* The next message will be refused, and there are not enough for another after it.
Spoilt == (~external.connected \/ Failed(external)) /\ Coming < 2 * ExpectedBits

\* The object will get all bits of m, and no other.
Exact(m) ==
  /\ Polling /\ external.connected
  /\ external.high \subseteq line \cup latched
  /\ external.quiet => owner # sending
  /\ \/ line \subseteq external.high /\ Bits(external) \o tx = m
     \/ \E pin \in Pins : line \ external.high = {pin} /\ Append(Bits(external), pin) \o tx = m

\* The bits are those of the card being shown, of which at most one is wrong.
ExactInv ==
  /\ sending # 0 /\ fate[sending] \in {"unread", "tooEarly"}
  /\ \E m \in Sent(shown[sending]) : Exact(m)

CountInv == Exhausted \/ Spoilt \/ ExactInv

LEMMA Numbers ==
  ASSUME TypeInv, WiresInv
  PROVE  /\ Len(Bits(external)) \in Nat /\ Len(Bits(external)) < ExpectedBits
         /\ Bits(external) \in Seq(Pins)
         /\ Len(tx) \in Nat /\ Len(tx) <= ExpectedBits /\ ToRegister \in 0..2
         /\ Coming \in Nat /\ (Extra => Coming = Len(Bits(external)) + Len(tx) + ToRegister + 1)
         /\ (~Extra => Coming = Len(Bits(external)) + Len(tx) + ToRegister)
         /\ ExpectedBits \in Nat /\ ExpectedBits >= 4
  <1>1. /\ Len(Bits(external)) \in Nat /\ Len(Bits(external)) < ExpectedBits
        /\ Bits(external) \in Seq(Pins)
    BY AfterFlush, Zenon DEF TypeInv
  <1>2. Len(tx) \in Nat /\ Len(tx) <= ExpectedBits
    BY DEF WiresInv
  <1>3. ToRegister \in 0..2
    BY DEF ToRegister
  <1>4. QED
    BY <1>1, <1>2, <1>3, WiegandAssumption DEF Coming

LEMMA HeadToLast ==
  ASSUME NEW s \in Seq(Pins), NEW t \in Seq(Pins), t # <<>>
  PROVE  Append(s, Head(t)) \o Tail(t) = s \o t /\ Len(Tail(t)) = Len(t) - 1 /\ Tail(t) \in Seq(Pins)
  <1> DEFINE a == Append(s, Head(t)) \o Tail(t)
             b == s \o t
  <1>1. Head(t) \in Pins /\ Tail(t) \in Seq(Pins) /\ Len(Tail(t)) = Len(t) - 1 /\ Len(t) \in Nat \ {0}
        /\ Head(t) = t[1] /\ \A i \in 1..(Len(t) - 1) : Tail(t)[i] = t[i + 1]
    OBVIOUS
  <1>2. a \in Seq(Pins) /\ b \in Seq(Pins) /\ Len(a) = Len(b) /\ Len(b) = Len(s) + Len(t)
    BY <1>1
  <1>3. \A i \in 1..Len(b) : a[i] = b[i]
    <2> TAKE i \in 1..Len(b)
    <2>1. CASE i <= Len(s)
      BY <1>1, <2>1
    <2>2. CASE i = Len(s) + 1
      BY <1>1, <2>2
    <2>3. CASE i > Len(s) + 1
      <3>1. a[i] = Tail(t)[i - (Len(s) + 1)] /\ b[i] = t[i - Len(s)]
        BY <1>1, <1>2, <2>3
      <3>2. QED
        BY <1>1, <1>2, <2>3, <3>1
    <2>4. QED
      BY <1>2, <2>1, <2>2, <2>3
  <1>4. a = b
    BY <1>2, <1>3, SameBits
  <1>5. QED
    BY <1>1, <1>4

LEMMA ExactFacts ==
  ASSUME TypeInv, WiresInv, ExactInv
  PROVE  /\ Coming = ExpectedBits /\ Polling /\ ToRegister = 0 /\ external.connected
         /\ external.high \subseteq line \cup latched /\ shown[sending] \in Cards
  <1>1. PICK m \in Sent(shown[sending]) : Exact(m)
    BY DEF ExactInv
  <1>2. shown[sending] \in Cards
    BY DEF ExactInv, TypeInv
  <1>3. m \in Seq(Pins) /\ Len(m) = ExpectedBits
    BY <1>2, SentFacts
  <1>4. /\ Polling /\ external.connected /\ external.high \subseteq line \cup latched
    BY <1>1 DEF Exact
  <1>5. ToRegister = 0
    BY <1>4 DEF ToRegister
  <1>6. tx \in Seq(Pins)
    BY DEF WiresInv
  <1>7. CASE line \subseteq external.high /\ Bits(external) \o tx = m
    <2>1. ~Extra
      BY <1>4, <1>7 DEF Extra
    <2>2. Len(Bits(external)) + Len(tx) = ExpectedBits
      BY <1>3, <1>6, <1>7, Numbers
    <2>3. QED
      BY <1>2, <1>4, <1>5, <2>1, <2>2, Numbers
  <1>8. CASE \E pin \in Pins : line \ external.high = {pin} /\ Append(Bits(external), pin) \o tx = m
    <2>1. PICK pin \in Pins : line \ external.high = {pin} /\ Append(Bits(external), pin) \o tx = m
      BY <1>8
    <2>2. Extra
      BY <1>4, <2>1 DEF Extra
    <2>3. Len(Bits(external)) + 1 + Len(tx) = ExpectedBits
      BY <1>3, <1>6, <2>1, Numbers
    <2>4. QED
      BY <1>2, <1>4, <1>5, <2>2, <2>3, Numbers
  <1>9. QED
    BY <1>1, <1>7, <1>8 DEF Exact

LEMMA ComingBound ==
  ASSUME TypeInv, WiresInv, CountInv
  PROVE  Coming < 2 * ExpectedBits
BY Numbers, ExactFacts DEF CountInv, Exhausted, Spoilt

LEMMA FateKept ==
  ASSUME TypeInv, NEW o, Callbacks(o), o.state = "same", flushData(o.flushed) # "data",
         flushData(o.flushed) # "ignored" => owner # sending, sending # 0
  PROVE  fate'[sending] = fate[sending]
  <1>1. /\ fate \in [1..Len(shown) -> Fates] /\ Len(shown) \in Nat
        /\ sending \in 0..Len(shown) /\ owner \in 0..Len(shown)
    BY DEF TypeInv
  <1>2. CASE flushData(o.flushed) = "error"
    <2>1. Fails(owner)
      BY <1>2, Zenon DEF Callbacks
    <2>2. QED
      BY <1>1, <1>2, <2>1, FailsFacts
  <1>3. CASE flushData(o.flushed) = "ignored"
    BY <1>3, CallbackFacts DEF States
  <1>4. QED
    BY <1>2, <1>3, Verdicts

LEMMA AccessFacts ==
  ASSUME NEW o, o.state \in States, Callbacks(o), messages \subseteq {"plugged", "unplugged", "readError"}
  PROVE  /\ messages' \subseteq {"plugged", "unplugged", "readError"}
         /\ flushData(o.flushed) # "data" => access' = access
         /\ flushData(o.flushed) = "data" => newAccess' = TRUE /\ cardIDRaw' = Payload(o.flushed)
  <1> DEFINE message == IF o.state = "same" THEN {} ELSE {o.state}
             verdict == flushData(o.flushed)
  <1>1. message \subseteq {"plugged", "unplugged"}
    BY DEF States
  <1>2. verdict \in {"ignored", "data", "error"}
    BY Verdicts
  <1>3. CASE verdict = "data"
    <2>1. captureIncomingData(Payload(o.flushed)) /\ messages' = messages \cup message
      BY <1>3, Zenon DEF Callbacks
    <2>2. newAccess' = TRUE /\ cardIDRaw' = Payload(o.flushed)
      BY <2>1, Zenon DEF captureIncomingData
    <2>3. QED
      BY <1>1, <1>3, <2>1, <2>2
  <1>4. CASE verdict = "error"
    <2>1. Leave(message \cup {"readError"})
      BY <1>4, Zenon DEF Callbacks
    <2>2. messages' = messages \cup (message \cup {"readError"}) /\ access' = access
      BY <2>1 DEF Leave, access
    <2>3. QED
      BY <1>1, <1>4, <2>2
  <1>5. CASE verdict = "ignored"
    <2>1. Leave(message)
      BY <1>5, Zenon DEF Callbacks
    <2>2. messages' = messages \cup message /\ access' = access
      BY <2>1 DEF Leave, access
    <2>3. QED
      BY <1>1, <1>5, <2>2
  <1>6. QED
    BY <1>2, <1>3, <1>4, <1>5

-----------------------------------------------------------------------------
(***************************************************************************)
(* The steps that tell the object how a line is.                           *)
(***************************************************************************)
\* The object is told how a line is: by a handler, or, maybe wrongly, by the main task
\* as it registers the lines.
Told(pin, isHigh) ==
  /\ pin \in attached /\ Callbacks(setPinState(external, pin, isHigh))
  /\ line' = line /\ tx' = tx /\ shown' = shown /\ sending' = sending
  /\ latched \ {pin} \subseteq latched' /\ latched' \subseteq latched
  /\ line = {} => ~isHigh
  /\ \/ (isHigh <=> pin \in line) /\ ToRegister' <= ToRegister /\ (Polling => Polling')
     \/ latched' = latched /\ ToRegister' = ToRegister - 1

LEMMA ToldFacts ==
  ASSUME TypeInv, WiresInv, NEW pin \in Pins, NEW isHigh \in BOOLEAN, Told(pin, isHigh)
  PROVE  LET o == setPinState(external, pin, isHigh)
         IN  /\ o.state \in States /\ Callbacks(o) /\ external' = o.after
             /\ Sane(external) /\ Sane(external')
             /\ external'.high = HighAfter(external, pin, isHigh)
             /\ Present(external) /\ external.high \in SUBSET Pins
             /\ ToRegister' \in 0..2 /\ ToRegister' <= ToRegister
             /\ (external.connected => external.high # {})
  <1> DEFINE o == setPinState(external, pin, isHigh)
  <1>1. Sane(external) /\ Present(external)
    BY DEF TypeInv, WiresInv
  <1>2. Sane(o.after) /\ o.state \in States /\ o.after.high = HighAfter(external, pin, isHigh)
    BY <1>1, SetPinFacts, Zenon
  <1>3. Callbacks(o)
    BY DEF Told
  <1>4. external.high \in SUBSET Pins
    BY <1>1, ObjectFields, Zenon DEF Sane
  <1> HIDE DEF o
  <1>5. external' = o.after
    BY <1>2, <1>3, CallbackFacts
  <1>6. ToRegister' \in 0..2 /\ ToRegister \in 0..2
    BY DEF ToRegister
  <1>7. ToRegister' <= ToRegister
    BY <1>6 DEF Told
  <1>8. external.connected => external.high # {}
    BY <1>1 DEF Present
  <1>9. QED
    BY <1>1, <1>2, <1>3, <1>4, <1>5, <1>6, <1>7, <1>8, Zenon DEF o

\* No bit is completed, and the reader neither comes nor goes.
LEMMA ToldKeeps ==
  ASSUME TypeInv, WiresInv, CountInv, NEW pin \in Pins, NEW isHigh \in BOOLEAN, Told(pin, isHigh),
         NoBit(external, pin, isHigh)
  PROVE  CountInv' /\ Present(external') /\ flushData(setPinState(external, pin, isHigh).flushed) # "data"
  <1> DEFINE o == setPinState(external, pin, isHigh)
  <1>1. /\ o.state = "same" /\ (o.after.connected <=> external.connected) /\ Present(o.after)
        /\ Bits(o.after) = Bits(external) /\ (Failed(o.after) <=> Failed(external))
        /\ flushData(o.flushed) # "data"
        /\ ~external.quiet => flushData(o.flushed) = "ignored" /\ ~o.after.quiet
        /\ external.quiet => o.after.bits = <<>>
    <2>1. Sane(external) /\ Present(external)
      BY DEF TypeInv, WiresInv
    <2>2. QED
      BY <2>1, EdgeKeeps, Zenon
  <1>2. /\ Callbacks(o) /\ external' = o.after
        /\ external'.high = HighAfter(external, pin, isHigh) /\ external.high \in SUBSET Pins
        /\ ToRegister' \in 0..2 /\ ToRegister' <= ToRegister
        /\ (external.connected => external.high # {})
    BY ToldFacts, Zenon
  <1>3. /\ line' = line /\ tx' = tx /\ shown' = shown /\ sending' = sending
        /\ latched \ {pin} \subseteq latched' /\ latched' \subseteq latched
        /\ line = {} => ~isHigh
        /\ \/ (isHigh <=> pin \in line) /\ (Polling => Polling')
           \/ latched' = latched /\ ToRegister' = ToRegister - 1
    BY DEF Told
  <1> HIDE DEF o
  <1>4. /\ (external'.connected <=> external.connected)
        /\ Bits(external') = Bits(external) /\ (Failed(external') <=> Failed(external))
        /\ Present(external')
    BY <1>1, <1>2, Zenon
  <1>5. external.connected => external'.high = external.high \/ external'.high = external.high \ {pin}
    BY <1>2 DEF HighAfter, NoBit, Pins
  <1>6. line = {} => external'.high \ latched' \subseteq external.high \ latched
    <2>1. line = {} => pin \notin external'.high
      BY <1>2, <1>3 DEF HighAfter
    <2>2. line = {} => external'.high \subseteq external.high
      BY <1>2, <1>3 DEF HighAfter
    <2>3. QED
      BY <1>3, <2>1, <2>2
  <1>7. external.connected /\ (isHigh <=> pin \in line) => line \ external'.high \subseteq line \ external.high
    BY <1>2, <1>5 DEF HighAfter
  <1>8. Extra' => Extra \/ ToRegister' < ToRegister
    <2> SUFFICES ASSUME Extra' PROVE Extra \/ ToRegister' < ToRegister
      OBVIOUS
    <2>1. external.connected
      BY <1>4 DEF Extra
    <2>2. CASE line = {}
      BY <1>3, <1>6, <2>1, <2>2 DEF Extra
    <2>3. CASE line # {} /\ (isHigh <=> pin \in line)
      BY <1>3, <1>7, <2>1, <2>3 DEF Extra
    <2>4. CASE ToRegister' = ToRegister - 1
      BY <1>2, <2>4, Numbers
    <2>5. QED
      BY <1>3, <2>2, <2>3, <2>4
  <1>9. Coming' = Len(Bits(external)) + Len(tx) + ToRegister' + (IF Extra' THEN 1 ELSE 0)
    BY <1>3, <1>4 DEF Coming
  <1>10. Coming' <= Coming
    BY <1>2, <1>8, <1>9, Numbers
  <1>11. CASE Exhausted
    <2>1. Coming' \in Nat
      BY <1>2, <1>9, Numbers
    <2>2. Exhausted'
      BY <1>10, <1>11, <2>1, Numbers DEF Exhausted
    <2>3. QED
      BY <1>1, <1>4, <2>2 DEF CountInv, o
  <1>12. CASE Spoilt
    <2>1. Coming' < 2 * ExpectedBits
      BY <1>2, <1>9, <1>10, <1>12, Numbers DEF Spoilt
    <2>2. ~external'.connected \/ Failed(external')
      BY <1>4, <1>12 DEF Spoilt
    <2>3. Spoilt'
      BY <2>1, <2>2 DEF Spoilt, Failed
    <2>4. QED
      BY <1>1, <1>4, <2>3 DEF CountInv, o
  <1>13. CASE ExactInv
    <2>1. PICK m \in Sent(shown[sending]) : Exact(m)
      BY <1>13 DEF ExactInv
    <2>2. Polling /\ ToRegister = 0 /\ external.connected /\ external.high \subseteq line \cup latched
      BY <1>13, ExactFacts
    <2>3. Polling' /\ (isHigh <=> pin \in line)
      BY <1>2, <1>3, <2>2
    <2>4. external'.high \subseteq line' \cup latched'
      BY <1>2, <1>3, <2>2, <2>3 DEF HighAfter
    <2>5. line \ external'.high = line \ external.high
      BY <1>2, <1>5, <1>7, <2>2, <2>3 DEF HighAfter
    <2>6. sending # 0 /\ fate[sending] \in {"unread", "tooEarly"}
      BY <1>13 DEF ExactInv
    <2>7. external.quiet => owner # sending
      BY <2>1 DEF Exact
    <2>8. external'.quiet => owner' # sending'
      <3>1. external'.quiet => external'.bits = <<>>
        BY <1>1, <1>2, Zenon
      <3>2. external'.bits = <<>> => owner' = 0
        BY <1>1, <1>2, CallbackFacts DEF States
      <3>3. QED
        BY <1>3, <2>6, <3>1, <3>2
    <2>9. fate'[sending] = fate[sending]
      BY <1>1, <1>2, <2>6, <2>7, FateKept
    <2>10. Exact(m)'
      <3> DEFINE b == Bits(external)
      <3>1. \/ line \subseteq external.high /\ b \o tx = m
            \/ \E p \in Pins : line \ external.high = {p} /\ Append(b, p) \o tx = m
        BY <2>1 DEF Exact
      <3>2. Bits(external') = b
        BY <1>4
      <3> HIDE DEF b
      <3>3. \/ line' \subseteq external'.high /\ Bits(external') \o tx' = m
            \/ \E p \in Pins : line' \ external'.high = {p} /\ Append(Bits(external'), p) \o tx' = m
        BY <1>3, <2>5, <3>1, <3>2
      <3>4. QED
        BY <1>4, <2>2, <2>3, <2>4, <2>8, <3>3 DEF Exact, Bits
    <2>11. m \in Sent(shown'[sending'])
      BY <1>3, <2>1
    <2>12. ExactInv'
      BY <1>3, <2>6, <2>9, <2>10, <2>11 DEF ExactInv, Sent, Message
    <2>13. QED
      BY <1>1, <1>4, <2>12 DEF CountInv, o
  <1>14. QED
    BY <1>1, <1>4, <1>11, <1>12, <1>13 DEF CountInv, o

LEMMA ToldConnects ==
  ASSUME TypeInv, WiresInv, CountInv, NEW pin \in Pins, NEW isHigh \in BOOLEAN, Told(pin, isHigh),
         ~(pin \in external.high <=> isHigh),
         \/ HighAfter(external, pin, isHigh) = Pins /\ ~external.connected
         \/ HighAfter(external, pin, isHigh) = {} /\ external.connected
  PROVE  CountInv' /\ Present(external') /\ flushData(setPinState(external, pin, isHigh).flushed) # "data"
  <1> DEFINE o == setPinState(external, pin, isHigh)
  <1>1. Sane(external) /\ Present(external)
    BY DEF TypeInv, WiresInv
  <1>2. /\ Bits(o.after) = <<>> /\ Present(o.after) /\ flushData(o.flushed) # "data"
        /\ ~o.after.connected \/ (Failed(o.after) /\ HighAfter(external, pin, isHigh) = Pins)
    BY <1>1, EdgeConnects, EdgeDisconnects, Zenon
  <1>3. /\ external' = o.after
        /\ external'.high = HighAfter(external, pin, isHigh) /\ external.high \in SUBSET Pins
        /\ ToRegister' \in 0..2 /\ ToRegister' <= ToRegister
    BY ToldFacts, Zenon
  <1> HIDE DEF o
  <1>4. /\ line' = line /\ tx' = tx /\ (line = {} => ~isHigh)
    BY DEF Told
  <1>5. ~Extra'
    <2> SUFFICES ASSUME external'.connected PROVE ~Extra'
      BY DEF Extra
    <2>1. external'.high = Pins
      BY <1>2, <1>3
    <2>2. isHigh
      BY <1>3, <2>1 DEF HighAfter
    <2>3. line' # {} /\ line' \ external'.high = {}
      BY <1>4, <2>1, <2>2 DEF WiresInv
    <2>4. QED
      BY <2>3 DEF Extra
  <1>6. Bits(external') = <<>>
    BY <1>2, <1>3
  <1>7. Coming' = Len(tx) + ToRegister'
    <2>1. Coming' = Len(Bits(external')) + Len(tx) + ToRegister' + 0
      BY <1>4, <1>5 DEF Coming
    <2>2. Len(Bits(external')) = 0
      BY <1>6
    <2>3. QED
      BY <1>3, <2>1, <2>2, Numbers
  <1>8. Coming' < 2 * ExpectedBits
    BY <1>3, <1>7, Numbers, ComingBound
  <1>9. Spoilt'
    BY <1>2, <1>3, <1>8 DEF Spoilt, Failed
  <1>10. QED
    BY <1>2, <1>3, <1>9 DEF CountInv, o

LEMMA ToldCompletes ==
  ASSUME TypeInv, WiresInv, CountInv, NEW pin \in Pins, NEW isHigh \in BOOLEAN, Told(pin, isHigh),
         ~(pin \in external.high <=> isHigh), HighAfter(external, pin, isHigh) = Pins,
         external.connected
  PROVE  LET o == setPinState(external, pin, isHigh)
         IN  /\ CountInv' /\ Present(external')
             /\ flushData(o.flushed) = "data" =>
                  /\ sending # 0 /\ fate[sending] \in {"unread", "tooEarly"}
                  /\ Payload(o.flushed) = shown[sending]
  <1> DEFINE o == setPinState(external, pin, isHigh)
             b == Bits(external)
             bits == Append(Bits(external), pin)
  <1>1. /\ o.state = "same" /\ o.after.connected /\ ~o.after.quiet /\ Present(o.after)
        /\ Len(bits) = Len(b) + 1
        /\ Len(bits) = ExpectedBits =>
             /\ Bits(o.after) = <<>> /\ o.flushed.bits = bits
             /\ flushData(o.flushed) = "data" => ~Failed(external) /\ ParityOK(bits)
        /\ Len(bits) # ExpectedBits =>
             /\ Bits(o.after) = bits /\ (Failed(o.after) <=> Failed(external))
             /\ flushData(o.flushed) # "data"
             /\ ~external.quiet => flushData(o.flushed) = "ignored"
    <2>1. Sane(external) /\ Present(external)
      BY DEF TypeInv, WiresInv
    <2>2. QED
      BY <2>1, EdgeCompletes, Zenon
  <1>2. /\ Callbacks(o) /\ external' = o.after
        /\ external'.high = HighAfter(external, pin, isHigh) /\ external.high \in SUBSET Pins
        /\ ToRegister' \in 0..2 /\ ToRegister' <= ToRegister
        /\ (external.connected => external.high # {})
    BY ToldFacts, Zenon
  <1>3. /\ line' = line /\ tx' = tx /\ shown' = shown /\ sending' = sending
        /\ line = {} => ~isHigh
        /\ \/ (isHigh <=> pin \in line) /\ (Polling => Polling')
           \/ ToRegister' = ToRegister - 1
    BY DEF Told
  <1> HIDE DEF o, bits
  <1>4. /\ external'.connected /\ ~external'.quiet /\ Present(external') /\ external'.high = Pins
    BY <1>1, <1>2
  <1>5. isHigh /\ pin \notin external.high /\ line # {} /\ external.high = Pins \ {pin}
    BY <1>2, <1>3 DEF HighAfter
  <1>6. line \subseteq Pins /\ tx \in Seq(Pins)
    BY DEF WiresInv
  <1>7. ~Extra'
    BY <1>3, <1>4, <1>5, <1>6 DEF Extra
  <1>8. Extra \/ ToRegister' = ToRegister - 1
    BY <1>3, <1>5 DEF Extra
  <1>9. Coming' = Len(Bits(external')) + Len(tx) + ToRegister'
    BY <1>2, <1>3, <1>7 DEF Coming
  <1>10. Len(b) + 1 + Len(tx) + ToRegister' <= Coming
    BY <1>2, <1>8, Numbers
  <1>11. ASSUME ExactInv
         PROVE  /\ Polling' /\ sending # 0 /\ fate[sending] \in {"unread", "tooEarly"}
                /\ external'.high \subseteq line' \cup latched'
                /\ \E m \in Sent(shown[sending]) : bits \o tx = m
    <2>1. PICK m \in Sent(shown[sending]) : Exact(m)
      BY <1>11 DEF ExactInv
    <2>2. Polling /\ ToRegister = 0
      BY <1>11, ExactFacts
    <2>3. Polling' /\ pin \in line
      BY <1>2, <1>3, <1>5, <2>2
    <2>4. line \ external.high = {pin}
      BY <1>5, <1>6, <2>3
    <2>5. bits \o tx = m
      BY <2>1, <2>4 DEF Exact, bits
    <2>6. external'.high \subseteq line' \cup latched'
      <3>1. external.high \subseteq line \cup latched /\ latched \ {pin} \subseteq latched'
        BY <2>1 DEF Exact, Told
      <3>2. QED
        BY <1>3, <1>4, <1>5, <2>3, <3>1
    <2>7. QED
      BY <1>11, <2>3, <2>5, <2>6 DEF ExactInv
  <1>12. CASE Len(bits) = ExpectedBits
    <2>1. Len(Bits(external')) = 0
      BY <1>1, <1>2, <1>12
    <2>2. Coming' < ExpectedBits
      BY <1>1, <1>2, <1>9, <1>10, <1>12, <2>1, Numbers, ComingBound
    <2>3. Exhausted'
      BY <2>2 DEF Exhausted
    <2>4. ASSUME flushData(o.flushed) = "data"
          PROVE  /\ sending # 0 /\ fate[sending] \in {"unread", "tooEarly"}
                 /\ Payload(o.flushed) = shown[sending]
      <3>1. ~Failed(external) /\ ParityOK(bits) /\ o.flushed.bits = bits
        BY <1>1, <1>12, <2>4
      <3>2. ~Exhausted
        BY <1>1, <1>2, <1>10, <1>12, Numbers DEF Exhausted
      <3>3. ExactInv
        BY <3>1, <3>2 DEF CountInv, Spoilt
      <3>4. PICK m \in Sent(shown[sending]) : bits \o tx = m
        BY <1>11, <3>3
      <3>5. shown[sending] \in Cards
        BY <3>3, ExactFacts
      <3>6. /\ m \in Seq(Pins) /\ Len(m) = ExpectedBits
            /\ ParityOK(m) => SubSeq(m, 2, ExpectedBits - 1) = shown[sending]
        BY <3>5, SentFacts
      <3>7. bits \in Seq(Pins)
        BY Numbers DEF bits
      <3>8. bits = m
        <4>1. Len(tx) = 0
          BY <1>6, <1>12, <3>4, <3>6, <3>7
        <4>2. QED
          BY <1>6, <3>4, <3>7, <4>1
      <3>9. Payload(o.flushed) = shown[sending]
        BY <1>12, <3>1, <3>6, <3>8 DEF Payload
      <3>10. QED
        BY <1>11, <3>3, <3>9
    <2>5. QED
      BY <1>4, <2>3, <2>4 DEF CountInv, o
  <1>13. CASE Len(bits) # ExpectedBits
    <2>1. /\ Bits(external') = bits /\ (Failed(external') <=> Failed(external))
          /\ flushData(o.flushed) # "data"
      BY <1>1, <1>2, <1>13
    <2>2. Coming' <= Coming
      BY <1>1, <1>2, <1>9, <1>10, <2>1, Numbers
    <2>3. Coming' \in Nat
      BY <1>1, <1>2, <1>9, <2>1, Numbers
    <2>4. CASE Exhausted
      BY <1>4, <2>1, <2>2, <2>3, <2>4, Numbers DEF Exhausted, CountInv, o
    <2>5. CASE Spoilt
      <3>1. Spoilt'
        BY <2>1, <2>2, <2>3, <2>5, Numbers DEF Spoilt, Failed
      <3>2. QED
        BY <1>4, <2>1, <3>1 DEF CountInv, o
    <2>6. CASE ExactInv
      <3>1. PICK m \in Sent(shown[sending]) : bits \o tx = m
        BY <1>11, <2>6
      <3>2. Polling' /\ sending # 0 /\ fate[sending] \in {"unread", "tooEarly"}
        BY <1>11, <2>6
      <3>3. external.quiet => owner # sending
        BY <2>6 DEF ExactInv, Exact
      <3>4. fate'[sending] = fate[sending]
        BY <1>1, <1>2, <2>1, <1>13, <3>2, <3>3, FateKept
      <3>5. Exact(m)'
        <4>1. Bits(external') \o tx' = m
          BY <1>3, <2>1, <3>1
        <4>2. external'.high \subseteq line' \cup latched'
          BY <1>11, <2>6
        <4>3. line' \subseteq external'.high
          BY <1>3, <1>4, <1>6
        <4>4. QED
          BY <1>4, <3>2, <4>1, <4>2, <4>3 DEF Exact, Bits
      <3>6. ExactInv'
        BY <1>3, <3>1, <3>2, <3>4, <3>5 DEF ExactInv, Sent, Message
      <3>7. QED
        BY <1>4, <2>1, <3>6 DEF CountInv, o
    <2>7. QED
      BY <2>4, <2>5, <2>6 DEF CountInv
  <1>14. QED
    BY <1>12, <1>13

LEMMA ToldStep ==
  ASSUME TypeInv, WiresInv, CountInv, NEW pin \in Pins, NEW isHigh \in BOOLEAN, Told(pin, isHigh)
  PROVE  LET o == setPinState(external, pin, isHigh)
         IN  /\ CountInv' /\ Present(external') /\ external'.high \subseteq attached
             /\ flushData(o.flushed) = "data" =>
                  /\ sending # 0 /\ fate[sending] \in {"unread", "tooEarly"}
                  /\ Payload(o.flushed) = shown[sending]
  <1> DEFINE o == setPinState(external, pin, isHigh)
  <1>1. external'.high \subseteq attached
    <2>1. external'.high = HighAfter(external, pin, isHigh) /\ pin \in attached /\ external.high \subseteq attached
      BY ToldFacts, Zenon DEF Told, WiresInv
    <2>2. QED
      BY <2>1 DEF HighAfter
  <1>2. /\ CountInv' /\ Present(external')
        /\ flushData(o.flushed) = "data" =>
             /\ sending # 0 /\ fate[sending] \in {"unread", "tooEarly"}
             /\ Payload(o.flushed) = shown[sending]
    <2>1. CASE NoBit(external, pin, isHigh)
      BY <2>1, ToldKeeps, Zenon
    <2>2. CASE ~NoBit(external, pin, isHigh)
      <3>1. /\ ~(pin \in external.high <=> isHigh)
            /\ HighAfter(external, pin, isHigh) \in {{}, Pins}
            /\ HighAfter(external, pin, isHigh) = {} => external.connected
        BY <2>2 DEF NoBit
      <3>2. CASE HighAfter(external, pin, isHigh) = Pins /\ external.connected
        BY <3>1, <3>2, ToldCompletes, Zenon
      <3>3. CASE ~(HighAfter(external, pin, isHigh) = Pins /\ external.connected)
        BY <3>1, <3>3, ToldConnects
      <3>4. QED
        BY <3>2, <3>3, Zenon
    <2>3. QED
      BY <2>1, <2>2, Zenon
  <1>3. QED
    BY <1>1, <1>2

-----------------------------------------------------------------------------
(***************************************************************************)
(* The steps of the invariant of the second part.                          *)
(***************************************************************************)
ShownInv == AccessInv /\ WiresInv /\ CountInv

LEMMA InitShown == Init => ShownInv
  <1> SUFFICES ASSUME Init PROVE ShownInv
    OBVIOUS
  <1>1. TypeInv
    BY InitInv DEF IInv
  <1>2. /\ external.high = {} /\ external.bits = <<>> /\ external.connected = FALSE
        /\ external.error = TRUE /\ external.quiet = FALSE
    BY DEF Init, begin
  <1>3. AccessInv
    <2>1. Len(shown) = 0 /\ MaxCards \in Nat
      BY ReadersAssumption DEF Init
    <2>2. Len(shown) <= MaxCards
      BY <2>1
    <2>3. newAccess = FALSE /\ cardIDRaw = <<>> /\ messages = {}
      BY DEF Init
    <2>4. QED
      BY <2>2, <2>3 DEF AccessInv
  <1>4. WiresInv
    BY <1>2, WiegandAssumption DEF Init, WiresInv, Present, Pins
  <1>5. Len(Bits(external)) = 0 /\ Len(tx) = 0 /\ ~Extra
    <2>1. Bits(external) = <<>> /\ ~Extra
      BY <1>2 DEF Bits, Extra
    <2>2. QED
      BY <2>1 DEF Init
  <1>6. Exhausted
    BY <1>1, <1>4, <1>5, Numbers DEF Exhausted
  <1>7. QED
    BY <1>3, <1>4, <1>6 DEF ShownInv, CountInv

\* Steps that neither the bits of the object nor the reader's change.
LEMMA CountKept ==
  ASSUME TypeInv, WiresInv, CountInv, external' = external, line' = line, latched' = latched,
         tx' = tx, shown' = shown, sending' = sending, owner' = owner,
         ToRegister' = ToRegister, Polling => Polling',
         ExactInv => fate'[sending] = fate[sending]
  PROVE  CountInv'
  <1>1. Coming' = Coming
    BY DEF Coming, Extra, Bits
  <1>2. Exhausted => Exhausted'
    BY <1>1 DEF Exhausted
  <1>3. Spoilt => Spoilt'
    BY <1>1 DEF Spoilt, Failed
  <1>4. ExactInv => ExactInv'
    <2> SUFFICES ASSUME ExactInv PROVE ExactInv'
      OBVIOUS
    <2>1. PICK m \in Sent(shown[sending]) : Exact(m)
      BY DEF ExactInv
    <2>2. Exact(m)'
      BY <2>1 DEF Exact, Bits
    <2>3. QED
      BY <2>1, <2>2 DEF ExactInv, Sent, Message
  <1>5. QED
    BY <1>2, <1>3, <1>4 DEF CountInv

\* Between two messages the object owes one bit at most.
LEMMA CountAtRest ==
  ASSUME TypeInv, SetupInv, WiresInv, AtRest
  PROVE  /\ Bits(external) = <<>> /\ Coming <= ToRegister + 1
         /\ ~external.connected => Coming = ToRegister
         /\ Polling => external.quiet /\ ToRegister = 0
         /\ ~Polling => ~external.connected
  <1>1. tx = <<>> /\ line = Pins /\ latched = {} /\ (Polling \/ main = "attach0")
        /\ (external.quiet \/ attached = {})
    BY DEF AtRest, Steady
  <1>2. attached = {} => ~external.connected /\ external.bits = <<>>
    BY DEF WiresInv, Present
  <1>3. Bits(external) = <<>>
    BY <1>1, <1>2 DEF Bits
  <1>4. Len(Bits(external)) = 0 /\ Len(tx) = 0
    BY <1>1, <1>3
  <1>5. Coming <= ToRegister + 1
    BY <1>4, Numbers
  <1>6. ~external.connected => ~Extra
    BY DEF Extra
  <1>7. ~external.connected => Coming = ToRegister
    BY <1>4, <1>6, Numbers
  <1>8. Polling => external.quiet /\ ToRegister = 0
    BY <1>1 DEF ToRegister, SetupInv, Polling
  <1>9. ~Polling => ~external.connected
    BY <1>1, <1>2 DEF WiresInv
  <1>10. QED
    BY <1>3, <1>5, <1>7, <1>8, <1>9

LEMMA ShowCardShown ==
  ASSUME IInv, ShownInv, NEW card \in Cards, ShowCard(card)
  PROVE  ShownInv'
  <1>1. TypeInv /\ SetupInv /\ AccessInv /\ WiresInv /\ AtRest /\ TypeInv'
    BY ShowCardStep DEF IInv, ShownInv, ShowCard
  <1>2. /\ tx = <<>> /\ line = Pins /\ latched = {} /\ Len(shown) < MaxCards
        /\ shown' = Append(shown, card) /\ sending' = Len(shown')
        /\ fate' = Append(fate, IF Polling /\ ~stale THEN "unread" ELSE "tooEarly")
        /\ line' = line /\ latched' = latched /\ attached' = attached /\ external' = external
        /\ newAccess' = newAccess /\ cardIDRaw' = cardIDRaw /\ messages' = messages
        /\ main' = main /\ level' = level /\ owner' = owner
        /\ tx' \in Sent(card)
    BY DEF ShowCard, AtRest, wires, task, access, Sent
  <1>3. /\ shown \in Seq(Cards) /\ Len(shown) \in Nat /\ fate \in [1..Len(shown) -> Fates]
        /\ owner \in 0..Len(shown) /\ Sane(external)
    BY <1>1 DEF TypeInv
  <1>4. /\ Len(shown') = Len(shown) + 1 /\ shown'[sending'] = card /\ sending' # 0 /\ owner' # sending'
    BY <1>2, <1>3
  <1>5. fate'[sending'] \in {"unread", "tooEarly"}
    <2> DEFINE new == IF Polling /\ ~stale THEN "unread" ELSE "tooEarly"
    <2>1. fate \in Seq(Fates) /\ Len(fate) = Len(shown)
      BY <1>3
    <2>2. new \in {"unread", "tooEarly"} /\ new \in Fates
      BY DEF Fates
    <2>3. fate' = Append(fate, new)
      BY <1>2
    <2> HIDE DEF new
    <2>4. fate'[Len(shown) + 1] = new
      BY <2>1, <2>2, <2>3
    <2>5. QED
      BY <1>2, <1>4, <2>2, <2>4
  <1>6. tx' \in Seq(Pins) /\ Len(tx') = ExpectedBits
    BY <1>2, SentFacts
  <1>7. AccessInv'
    BY <1>1, <1>2, <1>4, <1>3, ReadersAssumption DEF AccessInv
  <1>8. WiresInv'
    <2>1. Pins # {}
      BY DEF Pins
    <2>2. QED
      BY <1>1, <1>2, <1>6, <2>1 DEF WiresInv, Present
  <1>9. /\ Bits(external) = <<>> /\ Coming <= ToRegister + 1
        /\ ~external.connected => Coming = ToRegister
        /\ Polling => external.quiet /\ ToRegister = 0
        /\ ~Polling => ~external.connected
    BY <1>1, CountAtRest
  <1>10. Coming' = Coming + ExpectedBits
    <2>1. Coming' = Len(Bits(external)) + Len(tx') + ToRegister + (IF Extra THEN 1 ELSE 0)
      BY <1>2 DEF Coming, Extra, Bits, ToRegister, Polling
    <2>2. Len(tx) = 0
      BY <1>2
    <2>3. QED
      BY <1>1, <1>6, <2>1, <2>2, Numbers
  <1>11. CASE ~external.connected
    <2>1. Coming' < 2 * ExpectedBits
      BY <1>1, <1>9, <1>10, <1>11, Numbers
    <2>2. Spoilt'
      BY <1>2, <1>11, <2>1 DEF Spoilt
    <2>3. QED
      BY <1>7, <1>8, <2>2 DEF ShownInv, CountInv
  <1>12. CASE external.connected /\ external.high # Pins
    <2>1. Failed(external)
      BY <1>9, <1>12 DEF Failed
    <2>2. Coming' < 2 * ExpectedBits
      BY <1>1, <1>9, <1>10, <1>12, Numbers
    <2>3. Spoilt'
      BY <1>2, <2>1, <2>2 DEF Spoilt, Failed
    <2>4. QED
      BY <1>7, <1>8, <2>3 DEF ShownInv, CountInv
  <1>13. CASE external.connected /\ external.high = Pins
    <2>1. Polling' /\ Bits(external') = <<>>
      BY <1>2, <1>9, <1>13 DEF Polling, Bits
    <2>2. Bits(external') \o tx' = tx'
      BY <1>6, <2>1
    <2>3. Exact(tx)'
      BY <1>2, <1>4, <1>13, <2>1, <2>2 DEF Exact, Bits
    <2>4. tx' \in Sent(shown'[sending'])
      BY <1>2, <1>4
    <2>5. ExactInv'
      BY <1>4, <1>5, <2>3, <2>4 DEF ExactInv, Sent, Message
    <2>6. QED
      BY <1>7, <1>8, <2>5 DEF ShownInv, CountInv
  <1>14. QED
    BY <1>11, <1>12, <1>13

LEMMA StrayPulseShown ==
  ASSUME IInv, ShownInv, NEW pin \in Pins, StrayPulse(pin)
  PROVE  ShownInv'
  <1>1. TypeInv /\ SetupInv /\ AccessInv /\ WiresInv /\ AtRest
    BY DEF IInv, ShownInv, StrayPulse
  <1>2. /\ tx = <<>> /\ line = Pins /\ tx' = <<pin>>
        /\ line' = line /\ latched' = latched /\ attached' = attached /\ external' = external
        /\ newAccess' = newAccess /\ cardIDRaw' = cardIDRaw /\ messages' = messages
        /\ main' = main /\ level' = level /\ shown' = shown
    BY DEF StrayPulse, AtRest, wires, task, access
  <1>3. AccessInv'
    BY <1>1, <1>2 DEF AccessInv
  <1>4. WiresInv'
    <2>1. Pins # {} /\ tx' \in Seq(Pins) /\ Len(tx') = 1
      BY <1>2 DEF Pins
    <2>2. QED
      BY <1>1, <1>2, <2>1, WiegandAssumption DEF WiresInv, Present
  <1>5. /\ Coming <= ToRegister + 1 /\ (~external.connected => Coming = ToRegister)
        /\ (Polling => ToRegister = 0) /\ (~Polling => ~external.connected)
    BY <1>1, CountAtRest
  <1>6. Coming' = Coming + 1
    <2>1. Coming' = Len(Bits(external)) + Len(tx') + ToRegister + (IF Extra THEN 1 ELSE 0)
      BY <1>2 DEF Coming, Extra, Bits, ToRegister, Polling
    <2>2. Len(tx) = 0 /\ Len(tx') = 1
      BY <1>2
    <2>3. QED
      BY <1>1, <2>1, <2>2, Numbers
  <1>7. Exhausted'
    BY <1>1, <1>5, <1>6, Numbers DEF Exhausted
  <1>8. QED
    BY <1>3, <1>4, <1>7 DEF ShownInv, CountInv

LEMMA PulseBeginsShown ==
  ASSUME IInv, ShownInv, PulseBegins
  PROVE  ShownInv'
  <1>1. TypeInv /\ AccessInv /\ WiresInv /\ CountInv
    BY DEF IInv, ShownInv
  <1> DEFINE pin == Head(tx)
  <1>2. /\ tx # <<>> /\ line = Pins /\ tx' = tx /\ fate' = fate /\ line' = Pins \ {pin}
        /\ latched' = latched \cup (attached \cap {pin})
        /\ attached' = attached /\ external' = external
        /\ newAccess' = newAccess /\ cardIDRaw' = cardIDRaw /\ messages' = messages
        /\ main' = main /\ level' = level /\ shown' = shown /\ sending' = sending /\ owner' = owner
    <2>1. attached \subseteq Pins
      BY <1>1 DEF WiresInv
    <2>2. QED
      BY <2>1 DEF PulseBegins, Edges, access, task
  <1>3. pin \in Pins
    BY <1>1, <1>2 DEF WiresInv
  <1> HIDE DEF pin
  <1>4. line' # {} /\ line' # Pins
    <2>1. CASE pin = 0
      BY <1>2, <2>1 DEF Pins
    <2>2. CASE pin = 1
      BY <1>2, <2>2 DEF Pins
    <2>3. QED
      BY <1>3, <2>1, <2>2 DEF Pins
  <1>5. AccessInv'
    BY <1>1, <1>2 DEF AccessInv
  <1>6. WiresInv'
    BY <1>1, <1>2, <1>4 DEF WiresInv, Present, pin
  <1>7. Extra' => Extra
    <2>1. Pins # {}
      BY DEF Pins
    <2>2. QED
      BY <1>2, <1>4, <2>1 DEF Extra
  <1>8. /\ Coming' = Len(Bits(external)) + Len(tx) + ToRegister + (IF Extra' THEN 1 ELSE 0)
        /\ Coming' <= Coming /\ Coming' \in Nat /\ (Extra /\ ~Extra' => Coming' < Coming)
    <2>1. Coming' = Len(Bits(external)) + Len(tx) + ToRegister + (IF Extra' THEN 1 ELSE 0)
      BY <1>2 DEF Coming, Bits, ToRegister, Polling
    <2>2. QED
      BY <1>1, <1>7, <2>1, Numbers
  <1>9. CASE Exhausted
    BY <1>1, <1>5, <1>6, <1>8, <1>9, Numbers DEF Exhausted, ShownInv, CountInv
  <1>10. CASE Spoilt
    BY <1>1, <1>2, <1>5, <1>6, <1>8, <1>10, Numbers DEF Spoilt, Failed, ShownInv, CountInv
  <1>11. CASE ExactInv
    <2>1. PICK m \in Sent(shown[sending]) : Exact(m)
      BY <1>11 DEF ExactInv
    <2>2. external.high \subseteq line' \cup latched'
      BY <1>1, <1>2, <2>1 DEF WiresInv, Exact
    <2>3. CASE Extra /\ ~Extra'
      BY <1>1, <1>5, <1>6, <1>8, <1>11, <2>3, ExactFacts, Numbers DEF Exhausted, ShownInv, CountInv
    <2>4. CASE ~(Extra /\ ~Extra')
      <3>1. line' \ external.high = line \ external.high
        <4>1. external.connected
          BY <2>1 DEF Exact
        <4>2. line \ external.high # {} => line' \ external.high # {}
          BY <1>2, <1>4, <2>4, <4>1 DEF Extra, Pins
        <4>3. line' \ external.high \subseteq line \ external.high
          BY <1>2
        <4>4. \A p \in Pins : line \ external.high = {p} => line' \ external.high = {p}
          BY <4>2, <4>3
        <4>5. line \subseteq external.high \/ \E p \in Pins : line \ external.high = {p}
          BY <2>1 DEF Exact
        <4>6. QED
          BY <4>3, <4>4, <4>5
      <3>2. Exact(m)'
        BY <1>2, <2>1, <2>2, <3>1 DEF Exact, Bits, Polling
      <3>3. ExactInv'
        BY <1>2, <1>11, <2>1, <3>2 DEF ExactInv, Sent, Message
      <3>4. QED
        BY <1>5, <1>6, <3>3 DEF ShownInv, CountInv
    <2>5. QED
      BY <2>3, <2>4
  <1>12. QED
    BY <1>1, <1>9, <1>10, <1>11 DEF CountInv

LEMMA PulseEndsShown ==
  ASSUME IInv, ShownInv, PulseEnds
  PROVE  ShownInv'
  <1>1. TypeInv /\ AccessInv /\ WiresInv /\ CountInv
    BY DEF IInv, ShownInv
  <1> DEFINE pin == Head(tx)
  <1>2. /\ tx # <<>> /\ line = Pins \ {pin} /\ line # {} /\ tx' = Tail(tx) /\ fate' = fate
        /\ line' = Pins /\ latched \subseteq latched' /\ latched' \subseteq latched \cup attached
        /\ attached' = attached /\ external' = external
        /\ newAccess' = newAccess /\ cardIDRaw' = cardIDRaw /\ messages' = messages
        /\ main' = main /\ level' = level /\ shown' = shown /\ sending' = sending /\ owner' = owner
    <2>1. tx # <<>> /\ line = Pins \ {pin} /\ line # {}
      BY <1>1 DEF WiresInv, PulseEnds
    <2>2. QED
      BY <2>1 DEF PulseEnds, Edges, access, task
  <1>3. /\ pin \in Pins /\ Tail(tx) \in Seq(Pins) /\ Len(Tail(tx)) = Len(tx) - 1 /\ tx \in Seq(Pins)
        /\ Append(Bits(external), pin) \o Tail(tx) = Bits(external) \o tx
    BY <1>1, <1>2, HeadToLast, Numbers DEF WiresInv
  <1> HIDE DEF pin
  <1>4. AccessInv'
    BY <1>1, <1>2 DEF AccessInv
  <1>5. WiresInv'
    <2>1. Pins # {}
      BY DEF Pins
    <2>2. Len(tx') <= ExpectedBits
      BY <1>1, <1>2, <1>3, Numbers
    <2>3. QED
      BY <1>1, <1>2, <1>3, <2>1, <2>2 DEF WiresInv, Present
  <1>6. external.connected => external.high # {} /\ external.high \in SUBSET Pins
    BY <1>1 DEF WiresInv, Present
  <1>7. Coming' = Len(Bits(external)) + (Len(tx) - 1) + ToRegister + (IF Extra' THEN 1 ELSE 0)
    BY <1>2, <1>3 DEF Coming, Bits, ToRegister, Polling
  <1>8. Coming' \in Nat /\ Coming' <= Coming
    <2>1. Len(tx) >= 1
      BY <1>1, <1>2, <1>3, Numbers
    <2>2. QED
      BY <1>1, <1>7, <2>1, Numbers
  <1>9. CASE Exhausted
    BY <1>1, <1>4, <1>5, <1>8, <1>9, Numbers DEF Exhausted, ShownInv, CountInv
  <1>10. CASE Spoilt
    BY <1>1, <1>2, <1>4, <1>5, <1>8, <1>10, Numbers DEF Spoilt, Failed, ShownInv, CountInv
  <1>11. CASE ExactInv
    <2>1. PICK m \in Sent(shown[sending]) : Exact(m)
      BY <1>11 DEF ExactInv
    <2>2. external.connected /\ external.high \subseteq line' \cup latched'
      BY <1>1, <1>2, <1>6, <2>1 DEF Exact
    <2>3. CASE Extra \/ ~Extra'
      <3>1. Coming' < Coming
        BY <1>1, <1>7, <2>3, Numbers
      <3>2. QED
        BY <1>1, <1>4, <1>5, <1>8, <1>11, <3>1, ExactFacts, Numbers DEF Exhausted, ShownInv, CountInv
    <2>4. CASE ~Extra /\ Extra'
      <3>1. line \subseteq external.high
        BY <1>2, <2>2, <2>4 DEF Extra
      <3>2. line' \ external.high = {pin}
        <4>1. Pins \ external.high # {}
          BY <1>2, <2>4 DEF Extra
        <4>2. QED
          BY <1>2, <1>3, <3>1, <4>1
      <3>3. Bits(external) \o tx = m
        BY <2>1, <3>1 DEF Exact
      <3>4. Append(Bits(external'), pin) \o tx' = m
        BY <1>2, <1>3, <3>3
      <3>5. Exact(m)'
        BY <1>2, <1>3, <2>1, <2>2, <3>2, <3>4 DEF Exact, Bits, Polling
      <3>6. ExactInv'
        BY <1>2, <1>11, <2>1, <3>5 DEF ExactInv, Sent, Message
      <3>7. QED
        BY <1>4, <1>5, <3>6 DEF ShownInv, CountInv
    <2>5. QED
      BY <2>3, <2>4
  <1>12. QED
    BY <1>1, <1>9, <1>10, <1>11 DEF CountInv

LEMMA PlugShown ==
  ASSUME IInv, ShownInv, Plug
  PROVE  ShownInv'
  <1>1. TypeInv /\ AccessInv /\ WiresInv /\ CountInv
    BY DEF IInv, ShownInv
  <1>2. /\ line = {} /\ latched = {} /\ line' = Pins /\ tx' = tx /\ latched' \subseteq attached
        /\ attached' = attached /\ external' = external
        /\ newAccess' = newAccess /\ cardIDRaw' = cardIDRaw /\ messages' = messages
        /\ main' = main /\ level' = level /\ shown' = shown
    BY DEF Plug, Edges, access, task
  <1>3. AccessInv'
    BY <1>1, <1>2 DEF AccessInv
  <1>4. WiresInv'
    <2>1. Pins # {}
      BY DEF Pins
    <2>2. QED
      BY <1>1, <1>2, <2>1 DEF WiresInv, Present
  <1>5. external.connected => external.high # {}
    BY <1>1 DEF WiresInv, Present
  <1>6. Extra' => Extra
    BY <1>2, <1>5 DEF Extra
  <1>7. Coming' = Len(Bits(external)) + Len(tx) + ToRegister + (IF Extra' THEN 1 ELSE 0)
    BY <1>2 DEF Coming, Bits, ToRegister, Polling
  <1>8. Coming' \in Nat /\ Coming' <= Coming
    BY <1>1, <1>6, <1>7, Numbers
  <1>9. CASE Exhausted
    BY <1>1, <1>3, <1>4, <1>8, <1>9, Numbers DEF Exhausted, ShownInv, CountInv
  <1>10. CASE Spoilt
    BY <1>1, <1>2, <1>3, <1>4, <1>8, <1>10, Numbers DEF Spoilt, Failed, ShownInv, CountInv
  <1>11. ~ExactInv
    BY <1>1, <1>2, <1>5, ExactFacts
  <1>12. QED
    BY <1>1, <1>9, <1>10, <1>11 DEF CountInv

\* A card is cut off, and what the object has of it is too little.
LEMMA UnplugShown ==
  ASSUME IInv, ShownInv, Unplug
  PROVE  ShownInv'
  <1>1. TypeInv /\ SetupInv /\ AccessInv /\ WiresInv /\ CountInv
    BY DEF IInv, ShownInv
  <1>2. /\ line # {} /\ latched = {} /\ (main = "attach0" \/ Polling)
        /\ line' = {} /\ latched' = attached \cap line /\ tx' = <<>>
        /\ attached' = attached /\ external' = external
        /\ newAccess' = newAccess /\ cardIDRaw' = cardIDRaw /\ messages' = messages
        /\ main' = main /\ level' = level /\ shown' = shown
    BY DEF Unplug, Steady, access, task
  <1>3. AccessInv'
    BY <1>1, <1>2 DEF AccessInv
  <1>4. WiresInv'
    <2>1. <<>> \in Seq(Pins) /\ Len(<<>>) = 0
      OBVIOUS
    <2>2. main \notin {"set0", "set1"}
      BY <1>2 DEF Polling
    <2>3. QED
      BY <1>1, <1>2, <2>1, <2>2, WiegandAssumption DEF WiresInv, Present
  <1>5. Coming' = Len(Bits(external)) + ToRegister + (IF Extra' THEN 1 ELSE 0)
    <2>1. Coming' = Len(Bits(external)) + Len(tx') + ToRegister + (IF Extra' THEN 1 ELSE 0)
      BY <1>2 DEF Coming, Bits, ToRegister, Polling
    <2>2. Len(tx') = 0
      BY <1>2
    <2>3. QED
      BY <1>1, <2>1, <2>2, Numbers
  <1>6. ASSUME Extra' PROVE tx # <<>> /\ ~(external.high \subseteq line)
    <2>1. external.connected /\ external.high \ latched' # {}
      BY <1>2, <1>6 DEF Extra
    <2>2. external.high \subseteq attached /\ line \subseteq Pins
      BY <1>1 DEF WiresInv
    <2>3. ~(external.high \subseteq line)
      BY <1>2, <2>1, <2>2
    <2>4. line # Pins
      BY <1>1, <2>2, <2>3 DEF WiresInv
    <2>5. QED
      BY <1>1, <1>2, <2>3, <2>4 DEF WiresInv
  <1>7. Coming' \in Nat /\ Coming' <= Coming
    <2>1. Extra' => Len(tx) >= 1
      BY <1>1, <1>6, Numbers DEF WiresInv
    <2>2. QED
      BY <1>1, <1>5, <2>1, Numbers
  <1>8. CASE Exhausted
    BY <1>1, <1>3, <1>4, <1>7, <1>8, Numbers DEF Exhausted, ShownInv, CountInv
  <1>9. CASE Spoilt
    BY <1>1, <1>2, <1>3, <1>4, <1>7, <1>9, Numbers DEF Spoilt, Failed, ShownInv, CountInv
  <1>10. CASE ExactInv
    <2>1. external.high \subseteq line /\ ToRegister = 0
      BY <1>1, <1>2, <1>10, ExactFacts
    <2>2. Coming' < ExpectedBits
      BY <1>1, <1>5, <1>6, <2>1, Numbers
    <2>3. QED
      BY <1>3, <1>4, <2>2 DEF Exhausted, ShownInv, CountInv
  <1>11. QED
    BY <1>1, <1>8, <1>9, <1>10 DEF CountInv

LEMMA PauseShown ==
  ASSUME IInv, ShownInv, Pause
  PROVE  ShownInv'
  <1>1. TypeInv /\ AccessInv /\ WiresInv /\ CountInv /\ TypeInv'
    BY PauseStep DEF IInv, ShownInv
  <1>2. /\ tx = <<>> /\ external' = Rests(external, TRUE)
        /\ line' = line /\ latched' = latched /\ tx' = tx /\ attached' = attached
        /\ newAccess' = newAccess /\ cardIDRaw' = cardIDRaw /\ messages' = messages
        /\ main' = main /\ level' = level /\ shown' = shown
    BY Zenon DEF Pause, wires, access, task, Rests
  <1>3. AccessInv'
    BY <1>1, <1>2 DEF AccessInv
  <1>4. /\ external'.high = external.high /\ external'.connected = external.connected
        /\ external'.bits = external.bits /\ external'.quiet = TRUE
    <2>1. external \in Object
      BY <1>1, Zenon DEF TypeInv, Sane
    <2>2. QED
      BY <1>2, <2>1, RestsFacts
  <1>5. Present(external')
    BY <1>1, <1>4, Zenon DEF WiresInv, Present
  <1>6. WiresInv'
    BY <1>1, <1>2, <1>4, <1>5 DEF WiresInv
  <1>7. Len(Bits(external')) = 0 /\ Len(tx') = 0
    <2>1. Bits(external') = <<>>
      BY <1>4 DEF Bits
    <2>2. QED
      BY <1>2, <2>1
  <1>8. Exhausted'
    <2>1. ToRegister' \in 0..2
      BY DEF ToRegister
    <2>2. Coming' = Len(Bits(external')) + Len(tx') + ToRegister' + (IF Extra' THEN 1 ELSE 0)
      BY DEF Coming
    <2>3. Coming' \in 0..3
      <3>1. PICK extra \in 0..1 : extra = IF Extra' THEN 1 ELSE 0
        OBVIOUS
      <3>2. PICK lines \in 0..2 : lines = ToRegister'
        BY <2>1
      <3>3. Coming' = 0 + 0 + lines + extra
        BY <1>7, <2>2, <3>1, <3>2, Zenon
      <3>4. 0 + 0 + lines + extra \in 0..3
        OBVIOUS
      <3>5. QED
        BY <3>3, <3>4, Zenon
    <2>4. QED
      BY <2>3, WiegandAssumption DEF Exhausted
  <1>9. QED
    BY <1>3, <1>6, <1>8 DEF ShownInv, CountInv

\* What is left for the main task in a step.
Left ==
  Delivers => /\ sending # 0 /\ cardIDRaw' = shown[sending]
              /\ fate[sending] \in {"unread", "tooEarly"}

\* What all steps that tell the object of a line have in common.
LEMMA ToldShown ==
  ASSUME IInv, ShownInv, TypeInv', NEW pin \in Pins, NEW isHigh \in BOOLEAN, Told(pin, isHigh),
         attached' = attached, latched' \subseteq latched,
         main' # "attach0", main' \notin {"set0", "set1"} \/ (main' = main /\ level' = level)
  PROVE  ShownInv' /\ Left
  <1> DEFINE o == setPinState(external, pin, isHigh)
  <1>1. TypeInv /\ AccessInv /\ WiresInv /\ CountInv
    BY DEF IInv, ShownInv
  <1>2. /\ CountInv' /\ Present(external') /\ external'.high \subseteq attached
        /\ flushData(o.flushed) = "data" =>
             /\ sending # 0 /\ fate[sending] \in {"unread", "tooEarly"}
             /\ Payload(o.flushed) = shown[sending]
    BY <1>1, ToldStep, Zenon
  <1>3. o.state \in States /\ Callbacks(o)
    BY <1>1, ToldFacts, Zenon
  <1> HIDE DEF o
  <1>4. /\ messages' \subseteq {"plugged", "unplugged", "readError"}
        /\ flushData(o.flushed) # "data" => access' = access
        /\ flushData(o.flushed) = "data" => newAccess' = TRUE /\ cardIDRaw' = Payload(o.flushed)
    BY <1>1, <1>3, AccessFacts DEF AccessInv
  <1>5. line' = line /\ tx' = tx /\ shown' = shown /\ sending' = sending
    BY DEF Told
  <1>6. newAccess' \in BOOLEAN /\ cardIDRaw' \in Cards \cup {<<>>}
    <2>1. CASE flushData(o.flushed) = "data"
      <3>1. shown[sending] \in Cards
        BY <1>1, <1>2, <2>1 DEF TypeInv
      <3>2. QED
        BY <1>2, <1>4, <2>1, <3>1
    <2>2. CASE flushData(o.flushed) # "data"
      BY <1>1, <1>4, <2>2 DEF access, AccessInv
    <2>3. QED
      BY <2>1, <2>2
  <1>7. AccessInv'
    BY <1>1, <1>4, <1>5, <1>6 DEF AccessInv
  <1>8. WiresInv'
    BY <1>1, <1>2, <1>5 DEF WiresInv
  <1>9. Left
    BY <1>2, <1>4 DEF Left, Delivers
  <1>10. QED
    BY <1>2, <1>7, <1>8, <1>9 DEF ShownInv

LEMMA InterruptShown ==
  ASSUME IInv, ShownInv, NEW pin \in Pins, setExternalPinState(pin)
  PROVE  ShownInv' /\ Left
  <1>1. TypeInv /\ WiresInv /\ TypeInv'
    BY InterruptStep DEF IInv, ShownInv
  <1> DEFINE isHigh == pin \in line
  <1>2. /\ pin \in latched /\ latched' = latched \ {pin}
        /\ Callbacks(setPinState(external, pin, isHigh))
        /\ line' = line /\ tx' = tx /\ attached' = attached /\ main' = main /\ level' = level
        /\ shown' = shown /\ sending' = sending
    BY DEF setExternalPinState, task
  <1>3. ToRegister' = ToRegister /\ (Polling => Polling') /\ ToRegister \in 0..2
    BY <1>2 DEF ToRegister, Polling
  <1>4. pin \in attached /\ main # "attach0"
    BY <1>1, <1>2 DEF WiresInv
  <1>5. isHigh \in BOOLEAN /\ (line = {} => ~isHigh) /\ (isHigh <=> pin \in line)
    OBVIOUS
  <1> HIDE DEF isHigh
  <1>6. Told(pin, isHigh)
    <2>1. ToRegister' <= ToRegister
      BY <1>3
    <2>2. latched \ {pin} \subseteq latched' /\ latched' \subseteq latched
      BY <1>2
    <2>3. QED
      BY <1>2, <1>3, <1>4, <1>5, <2>1, <2>2, Zenon DEF Told
  <1>7. QED
    BY <1>1, <1>2, <1>4, <1>5, <1>6, ToldShown

LEMMA RegisterLineShown ==
  ASSUME IInv, ShownInv, NEW pin \in Pins, NEW from, NEW to, RegisterLine(pin, from, to),
         <<pin, from, to>> \in {<<0, "set0", "read1">>, <<1, "set1", "check">>}
  PROVE  ShownInv' /\ Left
  <1>1. TypeInv /\ SetupInv /\ WiresInv /\ TypeInv'
    BY RegisterLineStep DEF IInv, ShownInv
  <1>2. /\ main = from /\ main' = to /\ attached' = attached
        /\ Callbacks(setPinState(external, pin, level))
        /\ line' = line /\ tx' = tx /\ latched' = latched
        /\ shown' = shown /\ sending' = sending
    BY DEF RegisterLine, MainGoes
  <1>3. ToRegister' = ToRegister - 1 /\ ~Polling
    BY <1>2 DEF ToRegister, Polling
  <1>4. pin \in attached /\ main' \notin {"attach0", "set0", "set1"} /\ (line = {} => ~level)
    BY <1>1, <1>2 DEF SetupInv, WiresInv
  <1>5. level \in BOOLEAN
    BY <1>1 DEF TypeInv
  <1>6. Told(pin, level)
    BY <1>2, <1>3, <1>4 DEF Told
  <1>7. QED
    BY <1>1, <1>2, <1>4, <1>5, <1>6, ToldShown

LEMMA AttachInterruptShown ==
  ASSUME IInv, ShownInv, NEW pin \in Pins, NEW from, NEW to, AttachInterrupt(pin, from, to),
         <<from, to>> \in {<<"attach0", "attach1">>, <<"attach1", "read0">>}
  PROVE  ShownInv' /\ Left
  <1>1. TypeInv /\ AccessInv /\ WiresInv /\ CountInv
    BY DEF IInv, ShownInv
  <1>2. /\ main = from /\ main' = to /\ attached' = attached \cup {pin}
        /\ line' = line /\ tx' = tx /\ latched' = latched /\ external' = external /\ level' = level
        /\ newAccess' = newAccess /\ cardIDRaw' = cardIDRaw /\ messages' = messages
        /\ shown' = shown /\ fate' = fate /\ sending' = sending /\ owner' = owner
    BY DEF AttachInterrupt, MainGoes, access
  <1>3. AccessInv' /\ Left
    BY <1>1, <1>2 DEF AccessInv, Left, Delivers, access
  <1>4. WiresInv'
    BY <1>1, <1>2 DEF WiresInv, Present
  <1>5. ToRegister' = ToRegister /\ ~Polling
    BY <1>2 DEF ToRegister, Polling
  <1>6. CountInv'
    BY <1>1, <1>2, <1>5, CountKept
  <1>7. QED
    BY <1>3, <1>4, <1>6 DEF ShownInv

LEMMA ReadLineShown ==
  ASSUME IInv, ShownInv, NEW pin \in Pins, NEW from, NEW to, ReadLine(pin, from, to),
         <<from, to>> \in {<<"read0", "set0">>, <<"read1", "set1">>}
  PROVE  ShownInv' /\ Left
  <1>1. TypeInv /\ AccessInv /\ WiresInv /\ CountInv
    BY DEF IInv, ShownInv
  <1>2. /\ main = from /\ main' = to /\ attached' = attached /\ level' = (pin \in line)
        /\ line' = line /\ tx' = tx /\ latched' = latched /\ external' = external
        /\ newAccess' = newAccess /\ cardIDRaw' = cardIDRaw /\ messages' = messages
        /\ shown' = shown /\ fate' = fate /\ sending' = sending /\ owner' = owner
    BY DEF ReadLine, MainGoes, access
  <1>3. AccessInv' /\ Left
    BY <1>1, <1>2 DEF AccessInv, Left, Delivers, access
  <1>4. WiresInv'
    <2>1. line = {} => ~level'
      BY <1>2
    <2>2. QED
      BY <1>1, <1>2, <2>1 DEF WiresInv, Present
  <1>5. ToRegister' = ToRegister /\ ~Polling
    BY <1>2 DEF ToRegister, Polling
  <1>6. CountInv'
    BY <1>1, <1>2, <1>5, CountKept
  <1>7. QED
    BY <1>3, <1>4, <1>6 DEF ShownInv

\* The main task takes a card, or reports one.
LEMMA MainShown ==
  ASSUME IInv, ShownInv, CopyCard \/ ClearNewAccess \/ LogMessages \/ Ready \/ StartLoop
  PROVE  ShownInv' /\ Left
  <1>1. TypeInv /\ AccessInv /\ WiresInv /\ CountInv
    BY DEF IInv, ShownInv
  <1>2. /\ Polling /\ Polling'
        /\ line' = line /\ tx' = tx /\ latched' = latched /\ external' = external /\ level' = level
        /\ attached' = attached /\ shown' = shown /\ sending' = sending /\ owner' = owner
        /\ messages' \in {messages, {}} /\ cardIDRaw' = cardIDRaw
        /\ newAccess' \in {newAccess, FALSE}
    BY DEF CopyCard, ClearNewAccess, LogMessages, Ready, StartLoop, MainGoes, Polling, access
  <1>3. AccessInv'
    BY <1>1, <1>2 DEF AccessInv
  <1>4. Left
    BY <1>1, <1>2 DEF Left, Delivers, access, AccessInv
  <1>5. WiresInv'
    <2>1. main' \notin {"attach0", "set0", "set1"}
      BY <1>2 DEF Polling
    <2>2. QED
      BY <1>1, <1>2, <2>1 DEF WiresInv, Present
  <1>6. ToRegister' = ToRegister
    BY <1>2 DEF ToRegister
  <1>7. ExactInv => fate'[sending] = fate[sending]
    <2> SUFFICES ASSUME ExactInv PROVE fate'[sending] = fate[sending]
      OBVIOUS
    <2>1. /\ sending \in 1..Len(shown) /\ DOMAIN fate = 1..Len(shown)
          /\ fate[sending] \in {"unread", "tooEarly"}
      BY <1>1 DEF ExactInv, TypeInv
    <2>2. QED
      BY <2>1 DEF CopyCard, ClearNewAccess, LogMessages, Ready, StartLoop
  <1>8. CountInv'
    BY <1>1, <1>2, <1>6, <1>7, CountKept
  <1>9. QED
    BY <1>3, <1>4, <1>5, <1>8 DEF ShownInv

LEMMA FlushReadersShown ==
  ASSUME IInv, ShownInv, FlushReaders
  PROVE  ShownInv' /\ Left
  <1> DEFINE o == flush(external)
  <1>1. TypeInv /\ AccessInv /\ WiresInv /\ CountInv
    BY DEF IInv, ShownInv
  <1>2. /\ Callbacks(o) /\ Polling /\ Polling' /\ main' \notin {"attach0", "set0", "set1"}
        /\ line' = line /\ tx' = tx /\ latched' = latched /\ level' = level
        /\ attached' = attached /\ shown' = shown /\ sending' = sending
    BY DEF FlushReaders, MainGoes, Polling
  <1>3. Sane(external) /\ Present(external)
    BY <1>1 DEF TypeInv, WiresInv
  <1>4. /\ Bits(o.after) = Bits(external) /\ (Failed(o.after) <=> Failed(external))
        /\ o.after.bits = Bits(external)
        /\ flushData(o.flushed) # "data"
        /\ ~external.quiet => flushData(o.flushed) = "ignored"
    BY <1>3, AfterFlush, Zenon
  <1>5. /\ o.after.high = external.high /\ o.after.connected = external.connected
        /\ o.after.quiet = external.quiet /\ o.state = "same"
    BY <1>3, FlushFacts, Zenon
  <1> HIDE DEF o
  <1>6. external' = o.after /\ (o.after.bits = <<>> => owner' = 0)
    BY <1>1, <1>2, <1>5, CallbackFacts DEF States
  <1>7. messages' \subseteq {"plugged", "unplugged", "readError"} /\ access' = access
    <2>1. o.state \in States /\ messages \subseteq {"plugged", "unplugged", "readError"}
      BY <1>1, <1>5 DEF States, AccessInv
    <2>2. QED
      BY <1>2, <1>4, <2>1, AccessFacts, Zenon
  <1>8. AccessInv' /\ Left
    BY <1>1, <1>2, <1>7 DEF AccessInv, Left, Delivers, access
  <1>9. Present(external')
    <2>1. ~external.connected => Bits(external) = <<>>
      BY <1>3, Zenon DEF Present, Bits
    <2>2. QED
      BY <1>3, <1>4, <1>5, <1>6, <2>1, Zenon DEF Present
  <1>10. WiresInv'
    BY <1>1, <1>2, <1>5, <1>6, <1>9 DEF WiresInv
  <1>11. /\ external'.high = external.high /\ (external'.connected <=> external.connected)
         /\ (external'.quiet <=> external.quiet)
         /\ Bits(external') = Bits(external) /\ (Failed(external') <=> Failed(external))
    BY <1>4, <1>5, <1>6, Zenon
  <1>12. (Extra' <=> Extra) /\ ToRegister' = ToRegister
    BY <1>2, <1>11 DEF Extra, ToRegister
  <1>13. Coming' = Coming
    BY <1>2, <1>11, <1>12 DEF Coming
  <1>14. Exhausted => Exhausted'
    BY <1>13 DEF Exhausted
  <1>15. Spoilt => Spoilt'
    <2>1. Spoilt <=> (~external.connected \/ Failed(external)) /\ Coming < 2 * ExpectedBits
      BY DEF Spoilt
    <2>2. Spoilt' <=> (~external'.connected \/ Failed(external')) /\ Coming' < 2 * ExpectedBits
      BY DEF Spoilt, Failed
    <2>3. QED
      BY <1>11, <1>13, <2>1, <2>2
  <1>16. ExactInv => ExactInv'
    <2> SUFFICES ASSUME ExactInv PROVE ExactInv'
      OBVIOUS
    <2>1. PICK m \in Sent(shown[sending]) : Exact(m)
      BY DEF ExactInv
    <2>2. sending # 0 /\ fate[sending] \in {"unread", "tooEarly"}
      BY DEF ExactInv
    <2>3. external.quiet => owner # sending
      BY <2>1 DEF Exact
    <2>4. fate'[sending] = fate[sending]
      BY <1>1, <1>2, <1>4, <1>5, <2>2, <2>3, FateKept
    <2>5. external'.quiet => owner' # sending'
      <3>1. external.quiet => Bits(external) = <<>>
        BY DEF Bits
      <3>2. QED
        BY <1>2, <1>4, <1>6, <1>11, <2>2, <3>1
    <2>6. Exact(m)'
      <3> DEFINE b == Bits(external)
      <3>1. \/ line \subseteq external.high /\ b \o tx = m
            \/ \E p \in Pins : line \ external.high = {p} /\ Append(b, p) \o tx = m
        BY <2>1 DEF Exact
      <3>2. Bits(external') = b
        BY <1>11
      <3> HIDE DEF b
      <3>3. \/ line' \subseteq external'.high /\ Bits(external') \o tx' = m
            \/ \E p \in Pins : line' \ external'.high = {p} /\ Append(Bits(external'), p) \o tx' = m
        BY <1>2, <1>11, <3>1, <3>2
      <3>4. external'.connected /\ external'.high \subseteq line' \cup latched'
        BY <1>2, <1>11, <2>1 DEF Exact
      <3>5. QED
        BY <1>2, <2>5, <3>3, <3>4 DEF Exact, Bits
    <2>7. QED
      BY <1>2, <2>1, <2>2, <2>4, <2>6 DEF ExactInv, Sent, Message
  <1>17. QED
    BY <1>8, <1>10, <1>14, <1>15, <1>16, <1>1 DEF ShownInv, CountInv

LEMMA ReaderLeaves ==
  ASSUME IInv, ShownInv,
         \/ \E card \in Cards : ShowCard(card)
         \/ \E pin \in Pins : StrayPulse(pin)
         \/ Reader \/ Unplug \/ Pause
  PROVE  ShownInv' /\ Left
  <1>1. access' = access
    BY DEF ShowCard, StrayPulse, Reader, PulseBegins, PulseEnds, Plug, Edges, Unplug, Pause
  <1>2. Left
    BY <1>1 DEF Left, Delivers
  <1>3. ShownInv'
    BY ShowCardShown, StrayPulseShown, PulseBeginsShown, PulseEndsShown, PlugShown, UnplugShown,
       PauseShown DEF Reader
  <1>4. QED
    BY <1>2, <1>3

LEMMA StepShown ==
  ASSUME IInv, ShownInv, [Next]_vars
  PROVE  ShownInv' /\ (Left \/ UNCHANGED vars)
  <1>1. CASE UNCHANGED vars
    <2>1. /\ line' = line /\ tx' = tx /\ latched' = latched /\ external' = external /\ level' = level
          /\ attached' = attached /\ shown' = shown /\ sending' = sending /\ owner' = owner
          /\ messages' = messages /\ cardIDRaw' = cardIDRaw /\ newAccess' = newAccess
          /\ main' = main /\ fate' = fate
      BY <1>1 DEF vars, wires, access, task
    <2>2. AccessInv' /\ WiresInv'
      BY <2>1 DEF AccessInv, WiresInv, Present, ShownInv
    <2>3. ToRegister' = ToRegister /\ (Polling => Polling')
      BY <2>1 DEF ToRegister, Polling
    <2>4. CountInv'
      BY <2>1, <2>3, CountKept DEF ShownInv, IInv
    <2>5. QED
      BY <1>1, <2>2, <2>4 DEF ShownInv
  <1>2. CASE initCardReaders
    BY <1>2, AttachInterruptShown, ReadLineShown, RegisterLineShown DEF initCardReaders, Pins
  <1>3. CASE checkCardReaders
    BY <1>3, MainShown, FlushReadersShown DEF checkCardReaders
  <1>4. CASE Interrupt
    BY <1>4, InterruptShown DEF Interrupt
  <1>5. CASE StartLoop
    BY <1>5, MainShown
  <1>6. QED
    BY <1>1, <1>2, <1>3, <1>4, <1>5, ReaderLeaves DEF Next

\* Whatever is shown to the reader and whatever goes wrong, what the callbacks leave is
\* a card, and the object never has more bits than a message.
THEOREM ReadersTypeCorrect == Spec => []TypeOK
  <1>1. Init => IInv /\ ShownInv
    BY InitInv, InitShown
  <1>2. IInv /\ ShownInv /\ [Next]_vars => IInv' /\ ShownInv'
    BY StepInv, StepShown
  <1>3. IInv /\ ShownInv => TypeOK
    <2> SUFFICES ASSUME IInv, ShownInv PROVE TypeOK
      OBVIOUS
    <2>1. TypeInv /\ AccessInv /\ WiresInv
      BY DEF IInv, ShownInv
    <2>2. external \in WiegandObject
      <3> DEFINE Messages == UNION {[1..n -> Pins] : n \in 0..ExpectedBits}
      <3>1. external \in Object /\ Len(external.bits) < ExpectedBits
        BY <2>1, Zenon DEF TypeInv, Sane
      <3>2. external.bits \in Seq(Pins)
        BY <3>1, ObjectFields
      <3>3. external.bits \in [1..Len(external.bits) -> Pins] /\ Len(external.bits) \in 0..ExpectedBits
        BY <3>1, <3>2, WiegandAssumption
      <3>4. external.bits \in Messages
        BY <3>3
      <3> HIDE DEF Messages
      <3>5. external \in [high : SUBSET Pins, connected : BOOLEAN, error : BOOLEAN,
                          bits : Messages, quiet : BOOLEAN]
        BY <3>1, <3>4 DEF Object
      <3>6. QED
        BY <3>5, Zenon DEF WiegandObject, Messages
    <2>3. fate \in [1..Len(shown) ->
                      {"tooEarly", "cutOff", "unread", "read", "replaced", "answered", "forgotten",
                       "failed", "reported"}]
      BY <2>1 DEF TypeInv, Fates, Done
    <2>4. QED
      BY <2>1, <2>2, <2>3 DEF TypeOK, AccessInv, WiresInv
  <1>4. QED
    BY <1>1, <1>2, <1>3, PTL DEF Spec

\* cardreader.cpp:59-73: with messages of any length, any cards and any number of things
\* that go wrong, the ID that is left for the main task is that of the card being shown,
\* and it is left once.
THEOREM OnlyShownCardsAlways == Spec => OnlyShownCards
  <1>1. Init => IInv /\ ShownInv
    BY InitInv, InitShown
  <1>2. IInv /\ ShownInv /\ [Next]_vars => IInv' /\ ShownInv'
    BY StepInv, StepShown
  <1>3. IInv /\ ShownInv /\ [Next]_vars =>
          [Delivers => sending # 0 /\ cardIDRaw' = shown[sending]
                    /\ fate[sending] \in {"unread", "tooEarly"}]_vars
    BY StepShown DEF Left
  <1>4. QED
    BY <1>1, <1>2, <1>3, PTL DEF Spec, OnlyShownCards
=============================================================================
