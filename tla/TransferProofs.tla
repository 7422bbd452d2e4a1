--------------------------- MODULE TransferProofs ---------------------------
(***************************************************************************)
(* Proofs about what is moved in pieces, for every size of part, number of *)
(* parts, lanes and faults: uploads, downloads, and lists that are fetched *)
(* in batches while they change.  What a loop computes is proved by        *)
(* induction over the naturals, in the form of InductionOverNat below.     *)
(***************************************************************************)
EXTENDS MCParts, FiniteSetTheorems, SequenceTheorems, WellFoundedInduction, TLAPS

-----------------------------------------------------------------------------
(* Induction, and sequences of consecutive numbers *)

\* The numbers after a up to b, as a sequence.
Span(a, b) == [i \in 1 .. b - a |-> a + i]

\* A set of naturals that is not empty has a least one.
LEMMA LeastOf ==
  ASSUME NEW S \in SUBSET Nat, S # {}
  PROVE  \E n \in S : \A m \in Nat : m \in S => n <= m
<1> DEFINE R == {x \in Nat \X Nat : x[1] < x[2]}
<1>1. IsWellFoundedOn(R, Nat)
  BY NatLessThanWellFounded DEF OpToRel
<1>2. \A m, n \in Nat : m < n => <<m, n>> \in R
  OBVIOUS
<1> HIDE DEF R
<1>3. PICK n \in S : \A m \in S : ~ (<<m, n>> \in R)
  BY <1>1, WFMin
<1>4. \A m \in Nat : m \in S => n <= m
  <2> SUFFICES ASSUME NEW m \in Nat, m \in S PROVE n <= m
    OBVIOUS
  <2>1. n \in Nat
    OBVIOUS
  <2>2. ~ (m < n)
    BY <1>2, <1>3, <2>1
  <2> QED
    BY <2>1, <2>2
<1> QED
  BY <1>4

\* Induction, without an operator for the statement: the numbers it holds of.
LEMMA InductionOverNat ==
  ASSUME NEW S \in SUBSET Nat, 0 \in S, \A n \in S : n + 1 \in S
  PROVE  S = Nat
<1>1. SUFFICES ASSUME Nat \ S # {} PROVE FALSE
  OBVIOUS
<1>2. PICK n \in Nat \ S : \A m \in Nat : m \in Nat \ S => n <= m
  BY <1>1, LeastOf
<1>3. n - 1 \in S
  BY <1>2
<1> QED
  BY <1>2, <1>3

LEMMA SpanFacts ==
  ASSUME NEW a \in Nat, NEW b \in Nat, a <= b
  PROVE  /\ Span(a, b) \in Seq(Nat) /\ Len(Span(a, b)) = b - a
         /\ \A i \in 1 .. b - a : Span(a, b)[i] = a + i
BY DEF Span

\* Spans that follow one another make one.
LEMMA SpansJoin ==
  ASSUME NEW a \in Nat, NEW b \in Nat, NEW c \in Nat, a <= b, b <= c
  PROVE  Span(a, b) \o Span(b, c) = Span(a, c)
<1>1. /\ Span(a, b) \in Seq(Nat) /\ Len(Span(a, b)) = b - a
      /\ \A i \in 1 .. b - a : Span(a, b)[i] = a + i
  BY SpanFacts
<1>2. /\ Span(b, c) \in Seq(Nat) /\ Len(Span(b, c)) = c - b
      /\ \A i \in 1 .. c - b : Span(b, c)[i] = b + i
  BY SpanFacts
<1>3. /\ Span(a, c) \in Seq(Nat) /\ Len(Span(a, c)) = c - a
      /\ \A i \in 1 .. c - a : Span(a, c)[i] = a + i
  BY SpanFacts
<1> DEFINE l == Span(a, b) \o Span(b, c)
<1>4. /\ l \in Seq(Nat) /\ Len(l) = (b - a) + (c - b)
      /\ \A i \in 1 .. (b - a) + (c - b) :
           l[i] = IF i <= b - a THEN Span(a, b)[i] ELSE Span(b, c)[i - (b - a)]
  <2>1. /\ l \in Seq(Nat) /\ Len(l) = Len(Span(a, b)) + Len(Span(b, c))
        /\ \A i \in 1 .. Len(Span(a, b)) + Len(Span(b, c)) :
             l[i] = IF i <= Len(Span(a, b)) THEN Span(a, b)[i] ELSE Span(b, c)[i - Len(Span(a, b))]
    BY <1>1, <1>2, ConcatProperties
  <2> QED
    BY <1>1, <1>2, <2>1
<1> HIDE DEF l
<1>5. Len(l) = c - a
  BY <1>4
<1>6. ASSUME NEW i \in 1 .. c - a PROVE l[i] = Span(a, c)[i]
  <2>1. CASE i <= b - a
    BY <2>1, <1>1, <1>3, <1>4
  <2>2. CASE i > b - a
    <3>1. i - (b - a) \in 1 .. c - b /\ b + (i - (b - a)) = a + i
      BY <2>2
    <3> QED
      BY <2>2, <3>1, <1>2, <1>3, <1>4
  <2> QED
    BY <2>1, <2>2
<1>7. l = Span(a, c)
  BY <1>3, <1>4, <1>5, <1>6, SeqEqual
<1> QED
  BY <1>7 DEF l

\* Spans in a row, put one after the other, are one span.
LEMMA SpansFlatten ==
  ASSUME NEW n \in Nat, n > 0, NEW b \in [0 .. n -> Nat],
         \A k \in 1 .. n : b[k - 1] <= b[k],
         NEW seqs, seqs = [k \in 1 .. n |-> Span(b[k - 1], b[k])]
  PROVE  Down!FlattenSeq(seqs) = Span(b[0], b[n])
<1> DEFINE E(f) == [i \in 1 .. n |-> IF i = 1 THEN seqs[i] ELSE f[i - 1] \o seqs[i]]
           g == [i \in 1 .. n |-> Span(b[0], b[i])]
<1>1. Len(seqs) = n /\ \A k \in 1 .. n : seqs[k] = Span(b[k - 1], b[k])
  OBVIOUS
<1>a. \A k \in 1 .. n : g[k] = Span(b[0], b[k])
  OBVIOUS
<1> HIDE DEF g
<1>2. \A k \in Nat : k <= n => b[0] <= b[k]
  <2> DEFINE S == {k \in Nat : k <= n => b[0] <= b[k]}
  <2>1. 0 \in S
    OBVIOUS
  <2>2. ASSUME NEW k \in S PROVE k + 1 \in S
    <3>1. CASE k + 1 <= n
      <4>1. b[(k + 1) - 1] <= b[k + 1] /\ (k + 1) - 1 = k
        BY <3>1
      <4>2. b[0] <= b[k] /\ b[0] \in Nat /\ b[k] \in Nat /\ b[k + 1] \in Nat
        BY <3>1
      <4> QED
        BY <4>1, <4>2
    <3>2. CASE ~(k + 1 <= n)
      BY <3>2
    <3> QED
      BY <3>1, <3>2
  <2> HIDE DEF S
  <2>3. S = Nat
    BY <2>1, <2>2, InductionOverNat DEF S
  <2> QED
    BY <2>3 DEF S
<1>3. ASSUME NEW i \in 1 .. n, i # 1 PROVE g[i - 1] \o seqs[i] = g[i]
  <2>1. i - 1 \in 1 .. n /\ i - 1 \in 0 .. n /\ i \in 0 .. n /\ 0 \in 0 .. n
    BY <1>3
  <2>2. b[0] \in Nat /\ b[i - 1] \in Nat /\ b[i] \in Nat /\ b[0] <= b[i - 1] /\ b[i - 1] <= b[i]
    BY <1>2, <2>1
  <2>3. g[i - 1] = Span(b[0], b[i - 1]) /\ g[i] = Span(b[0], b[i]) /\ seqs[i] = Span(b[i - 1], b[i])
    BY <1>1, <1>a, <2>1
  <2>4. Span(b[0], b[i - 1]) \o Span(b[i - 1], b[i]) = Span(b[0], b[i])
    BY <2>2, SpansJoin
  <2> QED
    BY <2>3, <2>4
<1>4. g[1] = seqs[1]
  BY <1>1, <1>a
<1>5. g = E(g)
  <2>1. g = [i \in 1 .. n |-> g[i]]
    BY DEF g
  <2> QED
    BY <1>3, <1>4, <2>1
<1>6. ASSUME NEW f, f = E(f) PROVE f[n] = g[n]
  <2> DEFINE S == {k \in Nat : k \in 1 .. n => f[k] = g[k]}
  <2>0. \A i \in 1 .. n : f[i] = IF i = 1 THEN seqs[i] ELSE f[i - 1] \o seqs[i]
    BY <1>6
  <2>1. 0 \in S
    OBVIOUS
  <2>2. ASSUME NEW k \in S PROVE k + 1 \in S
    <3>1. CASE k = 0
      <4>1. 1 \in 1 .. n
        OBVIOUS
      <4>2. f[1] = g[1]
        BY <2>0, <1>4, <4>1
      <4> QED
        BY <3>1, <4>2
    <3>2. CASE k # 0 /\ k + 1 \in 1 .. n
      <4>1. k \in 1 .. n /\ k + 1 # 1 /\ (k + 1) - 1 = k
        BY <3>2
      <4>2. f[k] = g[k]
        BY <4>1
      <4>3. f[k + 1] = f[k] \o seqs[k + 1]
        BY <3>2, <2>0, <4>1
      <4>4. g[k + 1] = g[k] \o seqs[k + 1]
        BY <3>2, <1>3, <4>1
      <4>5. f[k + 1] = g[k + 1]
        BY <4>2, <4>3, <4>4
      <4> QED
        BY <4>5
    <3> QED
      BY <3>1, <3>2
  <2> HIDE DEF S
  <2>3. S = Nat
    BY <2>1, <2>2, InductionOverNat DEF S
  <2> QED
    BY <2>3 DEF S
<1>7. Down!FlattenSeq(seqs) = (CHOOSE f : f = E(f))[n]
  BY <1>1 DEF Down!FlattenSeq
<1>8. (CHOOSE f : f = E(f)) = E(CHOOSE f : f = E(f))
  BY <1>5
<1> HIDE DEF E
<1>9. (CHOOSE f : f = E(f))[n] = g[n]
  BY <1>6, <1>8
<1>10. n \in 1 .. n
  OBVIOUS
<1> QED
  BY <1>7, <1>9, <1>a, <1>10

-----------------------------------------------------------------------------
(* The upload *)

LEMMA Division ==
  ASSUME NEW a \in Nat, NEW n \in Nat, n > 0
  PROVE  a = n * (a \div n) + (a % n) /\ a % n \in 0 .. n - 1 /\ a \div n \in Nat
<1>1. a = n * (a \div n) + (a % n)
  OBVIOUS
<1>2. a % n \in 0 .. n - 1
  OBVIOUS
<1>3. a \div n \in Nat
  OBVIOUS
<1> QED
  BY <1>1, <1>2, <1>3

LEMMA SmallRemainder ==
  ASSUME NEW r \in Nat, NEW n \in Nat, r < n
  PROVE  r % n = r
OBVIOUS

\* A multiple of n that is less than n away from none is none.
LEMMA NoMultiple ==
  ASSUME NEW d \in Int, NEW n \in Nat, n > 0, n * d < n, n * d > -n
  PROVE  d = 0
<1>1. d >= 1 => n * d >= n
  OBVIOUS
<1>2. d <= -1 => n * d <= -n
  OBVIOUS
<1> QED
  BY <1>1, <1>2

\* Two numbers with one remainder are a number of times n apart.
LEMMA SameRemainder ==
  ASSUME NEW a \in Nat, NEW b \in Nat, NEW n \in Nat, n > 0, a % n = b % n,
         a < b + n, b < a + n
  PROVE  a = b
<1> DEFINE qa == a \div n  qb == b \div n
<1>1. a = n * qa + (a % n) /\ b = n * qb + (b % n) /\ qa \in Nat /\ qb \in Nat /\ a % n \in Nat
  BY Division
<1> HIDE DEF qa, qb
<1>2. n * qa - n * qb = n * (qa - qb)
  BY <1>1
<1>3. n * qa \in Nat /\ n * qb \in Nat /\ qa - qb \in Int
  BY <1>1
<1>4. n * (qa - qb) = a - b
  BY <1>1, <1>2, <1>3
<1>5. qa - qb = 0
  BY <1>3, <1>4, NoMultiple
<1> QED
  BY <1>1, <1>5

LEMMA RemainderAfterNext ==
  ASSUME NEW a \in Nat, NEW n \in Nat, n > 0
  PROVE  (a + n) % n = a % n
<1> DEFINE q == a \div n  r == a % n  p == (a + n) \div n  s == (a + n) % n
<1>1. a = n * q + r /\ r \in 0 .. n - 1 /\ q \in Nat
  BY Division
<1>2. a + n = n * p + s /\ s \in 0 .. n - 1 /\ p \in Nat
  BY Division
<1> HIDE DEF q, r, p, s
<1>3. n * (p - q - 1) = n * p - n * q - n /\ n * p \in Nat /\ n * q \in Nat
  BY <1>1, <1>2
<1>4. n * (p - q - 1) = r - s
  BY <1>1, <1>2, <1>3
<1>5. p - q - 1 = 0
  BY <1>1, <1>2, <1>4, NoMultiple
<1>6. n * 0 = 0
  OBVIOUS
<1>7. r = s
  BY <1>1, <1>2, <1>4, <1>5, <1>6
<1> QED
  BY <1>7 DEF r, s

Jobs == {"none", "sent", "done", "failed", "cancelled"}

UploadTypes ==
  /\ mode \in {"plain", "lanes"} /\ total \in 1 .. MaxParts /\ chunks \in 0 .. MaxParts
  /\ conns \in Nat /\ conns > 0
  /\ Up!TypeOK

\* A lane only ever sends the parts with its own remainder.
OwnParts == \A l \in Up!Lanes : index[l] % conns = l

\* The part that a lane comes to next is the next one with its remainder, and
\* the part that it has in flight is the last one.
NextInLane == \A l \in Up!Lanes :
  /\ Up!Ready(l) => read <= index[l] /\ index[l] < read + conns
  /\ job[l] \in {"sent", "failed"} => index[l] < read /\ read <= index[l] + conns
  /\ job[l] = "sent" => data[l] = index[l]

\* What was read is there, or is the part a lane has not got through.
Accounted == \A x \in 0 .. read - 1 :
  x \in stored \/ \E l \in Up!Lanes : ~Up!Ready(l) /\ x = index[l]

DoneMeansAll == upPc = "done" => read = chunks /\ \A l \in Up!Lanes : Up!Ready(l)

UploadInv == UploadTypes /\ OwnParts /\ NextInLane /\ Accounted /\ DoneMeansAll
             /\ \A s \in sent : s[1] = s[2]

LEMMA UploadInit == ASSUME Up!UploadAssumption, Up!Init PROVE UploadInv
<1>1. MaxParts \in Nat /\ MaxConns \in Nat
  BY DEF Up!UploadAssumption
<1>2. conns \in Nat /\ conns > 0 /\ total \in 1 .. MaxParts /\ chunks \in 0 .. MaxParts
  BY <1>1 DEF Up!Init
<1>3. UploadTypes
  BY <1>1, <1>2 DEF Up!Init, UploadTypes, Up!TypeOK, Up!Lanes
<1>4. \A l \in Up!Lanes : l \in Nat /\ l < conns /\ index[l] = l /\ job[l] = "none"
  BY <1>2 DEF Up!Init, Up!Lanes
<1>5. read = 0 /\ upPc = "read" /\ sent = {}
  BY DEF Up!Init
<1>6. OwnParts
  BY <1>2, <1>4, SmallRemainder DEF OwnParts
<1>7. NextInLane
  BY <1>2, <1>4, <1>5 DEF NextInLane
<1>8. Accounted /\ DoneMeansAll
  BY <1>5 DEF Accounted, DoneMeansAll
<1> QED
  BY <1>3, <1>5, <1>6, <1>7, <1>8 DEF UploadInv

LEMMA UploadFacts ==
  ASSUME UploadInv
  PROVE  /\ conns \in Nat /\ conns > 0 /\ read \in Nat /\ chunks \in Nat /\ read <= chunks
         /\ index \in [Up!Lanes -> Nat] /\ data \in [Up!Lanes -> Nat] /\ job \in [Up!Lanes -> Jobs]
         /\ upPc \in {"read", "done", "failed"} /\ stored \subseteq 0 .. chunks - 1
         /\ \A l \in Up!Lanes : l \in Nat /\ l < conns
         /\ Up!Lane \in Up!Lanes /\ Up!Lane = read % conns
<1>1. conns \in Nat /\ conns > 0 /\ chunks \in Nat /\ read \in Nat /\ read <= chunks
  BY DEF UploadInv, UploadTypes, Up!TypeOK
<1>2. read % conns \in 0 .. conns - 1
  BY <1>1, Division
<1> QED
  BY <1>1, <1>2 DEF UploadInv, UploadTypes, Up!TypeOK, Up!Lanes, Up!Lane, Jobs

LEMMA PushKeeps == ASSUME UploadInv, Up!Push PROVE UploadInv'
<1> DEFINE l == Up!Lane
<1>1. /\ upPc = "read" /\ read < chunks /\ Up!Ready(l) /\ read' = read + 1
      /\ data' = [data EXCEPT ![l] = read] /\ job' = [job EXCEPT ![l] = "sent"]
      /\ sent' = sent \union {<<index[l], read>>}
      /\ mode' = mode /\ total' = total /\ chunks' = chunks /\ conns' = conns
      /\ upPc' = upPc /\ index' = index /\ stored' = stored
  BY DEF Up!Push, Up!choice
<1>2. l \in Up!Lanes /\ l = read % conns
  BY UploadFacts
<1> HIDE DEF l
<1>3. Up!Lanes' = Up!Lanes
  BY <1>1 DEF Up!Lanes
<1>4. index[l] = read
  <2>1. index[l] \in Nat /\ read \in Nat /\ conns \in Nat /\ conns > 0
    BY <1>2, UploadFacts
  <2>2. index[l] % conns = read % conns
    BY <1>2 DEF UploadInv, OwnParts
  <2>3. read <= index[l] /\ index[l] < read + conns
    BY <1>1, <1>2 DEF UploadInv, NextInLane
  <2>4. read < index[l] + conns
    BY <2>1, <2>3
  <2> QED
    BY <2>1, <2>2, <2>3, <2>4, SameRemainder
<1>5. \A k \in Up!Lanes : k # l => index[k] # read /\ index[k] + conns # read
  <2> SUFFICES ASSUME NEW k \in Up!Lanes, k # l
               PROVE  index[k] # read /\ index[k] + conns # read
    OBVIOUS
  <2>1. index[k] \in Nat /\ conns \in Nat /\ conns > 0
    BY UploadFacts
  <2>2. index[k] % conns = k
    BY DEF UploadInv, OwnParts
  <2>3. (index[k] + conns) % conns = k
    BY <2>1, <2>2, RemainderAfterNext
  <2> QED
    BY <1>2, <2>2, <2>3
<1>6. /\ job'[l] = "sent" /\ data'[l] = read
      /\ \A k \in Up!Lanes : k # l => job'[k] = job[k] /\ data'[k] = data[k]
  BY <1>1, <1>2, UploadFacts
<1>7. UploadTypes'
  <2>1. job' \in [Up!Lanes -> Jobs]
    BY <1>1, UploadFacts DEF Jobs
  <2>2. data' \in [Up!Lanes -> Nat]
    BY <1>1, UploadFacts
  <2>3. read' \in 0 .. chunks
    BY <1>1, UploadFacts
  <2> QED
    BY <1>1, <1>3, <2>1, <2>2, <2>3 DEF UploadInv, UploadTypes, Up!TypeOK, Jobs
<1>8. OwnParts'
  BY <1>1, <1>3 DEF UploadInv, OwnParts
<1>9. NextInLane'
  <2> SUFFICES ASSUME NEW k \in Up!Lanes
               PROVE  /\ job'[k] \in {"none", "done"} => read' <= index[k] /\ index[k] < read' + conns
                      /\ job'[k] \in {"sent", "failed"} => index[k] < read' /\ read' <= index[k] + conns
                      /\ job'[k] = "sent" => data'[k] = index[k]
    BY <1>1, <1>3 DEF NextInLane, Up!Ready
  <2>1. CASE k = l
    BY <2>1, <1>1, <1>4, <1>6, UploadFacts
  <2>2. CASE k # l
    BY <2>2, <1>1, <1>5, <1>6, UploadFacts, SMTT(30) DEF UploadInv, NextInLane, Up!Ready
  <2> QED
    BY <2>1, <2>2
<1>10. Accounted'
  <2> SUFFICES ASSUME NEW x \in 0 .. read
               PROVE  x \in stored \/ \E k \in Up!Lanes : job'[k] \notin {"none", "done"} /\ x = index[k]
    BY <1>1, <1>3, UploadFacts DEF Accounted, Up!Ready
  <2>1. CASE x = read
    BY <2>1, <1>2, <1>4, <1>6
  <2>2. CASE x < read /\ x \notin stored
    <3>1. PICK k \in Up!Lanes : ~Up!Ready(k) /\ x = index[k]
      BY <2>2, UploadFacts DEF UploadInv, Accounted
    <3> QED
      BY <3>1, <1>1, <1>6 DEF Up!Ready
  <2> QED
    BY <2>1, <2>2, UploadFacts
<1>11. DoneMeansAll'
  BY <1>1 DEF DoneMeansAll
<1>12. \A s \in sent' : s[1] = s[2]
  BY <1>1, <1>4 DEF UploadInv
<1> QED
  BY <1>7, <1>8, <1>9, <1>10, <1>11, <1>12 DEF UploadInv

LEMMA StoredKeeps ==
  ASSUME UploadInv, NEW l \in Up!Lanes, Up!Stored(l) PROVE UploadInv'
<1>1. /\ job[l] = "sent" /\ job' = [job EXCEPT ![l] = "done"]
      /\ stored' = stored \union {data[l]} /\ index' = [index EXCEPT ![l] = @ + conns]
      /\ mode' = mode /\ total' = total /\ chunks' = chunks /\ conns' = conns
      /\ upPc' = upPc /\ read' = read /\ data' = data /\ sent' = sent
  BY DEF Up!Stored, Up!Advance, Up!choice
<1>2. Up!Lanes' = Up!Lanes
  BY <1>1 DEF Up!Lanes
<1>3. /\ job'[l] = "done" /\ index'[l] = index[l] + conns
      /\ \A k \in Up!Lanes : k # l => job'[k] = job[k] /\ index'[k] = index[k]
  BY <1>1, UploadFacts
<1>4. data[l] = index[l] /\ index[l] < read /\ read <= index[l] + conns /\ index[l] \in Nat
  BY <1>1, UploadFacts DEF UploadInv, NextInLane
<1>5. UploadTypes'
  <2>1. job' \in [Up!Lanes -> Jobs] /\ index' \in [Up!Lanes -> Nat] /\ stored' \subseteq 0 .. chunks - 1
    BY <1>1, <1>4, UploadFacts DEF Jobs
  <2> QED
    BY <1>1, <1>2, <2>1 DEF UploadInv, UploadTypes, Up!TypeOK, Jobs
<1>6. OwnParts'
  <2> SUFFICES ASSUME NEW k \in Up!Lanes PROVE index'[k] % conns = k
    BY <1>1, <1>2 DEF OwnParts
  <2>1. (index[k] + conns) % conns = k /\ index[k] % conns = k
    BY UploadFacts, RemainderAfterNext DEF UploadInv, OwnParts
  <2> QED
    BY <2>1, <1>3
<1>7. NextInLane'
  <2> SUFFICES ASSUME NEW k \in Up!Lanes
               PROVE  /\ job'[k] \in {"none", "done"} => read <= index'[k] /\ index'[k] < read + conns
                      /\ job'[k] \in {"sent", "failed"} => index'[k] < read /\ read <= index'[k] + conns
                      /\ job'[k] = "sent" => data[k] = index'[k]
    BY <1>1, <1>2 DEF NextInLane, Up!Ready
  <2>1. CASE k = l
    BY <2>1, <1>3, <1>4, UploadFacts
  <2>2. CASE k # l
    BY <2>2, <1>3, UploadFacts DEF UploadInv, NextInLane, Up!Ready
  <2> QED
    BY <2>1, <2>2
<1>8. Accounted'
  <2> SUFFICES ASSUME NEW x \in 0 .. read - 1
               PROVE  x \in stored' \/ \E k \in Up!Lanes : job'[k] \notin {"none", "done"} /\ x = index'[k]
    BY <1>1, <1>2 DEF Accounted, Up!Ready
  <2>1. CASE x \in stored
    BY <2>1, <1>1
  <2>2. CASE x \notin stored
    <3>1. PICK k \in Up!Lanes : ~Up!Ready(k) /\ x = index[k]
      BY <2>2 DEF UploadInv, Accounted
    <3>2. CASE k = l
      BY <3>1, <3>2, <1>1, <1>4
    <3>3. CASE k # l
      BY <3>1, <3>3, <1>3 DEF Up!Ready
    <3> QED
      BY <3>2, <3>3
  <2> QED
    BY <2>1, <2>2
<1>9. DoneMeansAll' /\ \A s \in sent' : s[1] = s[2]
  BY <1>1 DEF UploadInv, DoneMeansAll, Up!Ready
<1> QED
  BY <1>5, <1>6, <1>7, <1>8, <1>9 DEF UploadInv

\* A part that fails, or that is cancelled with the upload, stays unread.
LEMMA LanesStop ==
  ASSUME UploadInv, NEW gone \in SUBSET Up!Lanes, NEW j \in {"failed", "cancelled"},
         \A l \in gone : job[l] = "sent",
         job' = [l \in Up!Lanes |-> IF l \in gone THEN j ELSE job[l]],
         upPc' \in {upPc, "failed"},
         UNCHANGED <<mode, total, chunks, conns, read, index, data, sent, stored>>
  PROVE  UploadInv'
<1>1. Up!Lanes' = Up!Lanes
  BY DEF Up!Lanes
<1>2. job' \in [Up!Lanes -> Jobs]
  BY UploadFacts DEF Jobs
<1>3. UploadTypes'
  BY <1>1, <1>2 DEF UploadInv, UploadTypes, Up!TypeOK, Jobs
<1>4. \A l \in Up!Lanes : job'[l] = job[l] \/ (job[l] = "sent" /\ job'[l] = j)
  OBVIOUS
<1>5. OwnParts' /\ Accounted' /\ DoneMeansAll'
  BY <1>1, <1>4 DEF UploadInv, OwnParts, Accounted, DoneMeansAll, Up!Ready
<1>6. NextInLane'
  BY <1>1, <1>4 DEF UploadInv, NextInLane, Up!Ready
<1> QED
  BY <1>3, <1>5, <1>6 DEF UploadInv

LEMMA PartFailsKeeps ==
  ASSUME UploadInv, NEW l \in Up!Lanes, Up!PartFails(l) PROVE UploadInv'
<1>1. /\ job[l] = "sent" /\ job' = [job EXCEPT ![l] = "failed"]
      /\ UNCHANGED <<mode, total, chunks, conns, upPc, read, index, data, sent, stored>>
  BY DEF Up!PartFails, Up!choice
<1>2. job' = [k \in Up!Lanes |-> IF k \in {l} THEN "failed" ELSE job[k]]
  BY <1>1, UploadFacts
<1> QED
  BY <1>1, <1>2, LanesStop

LEMMA UploadFailKeeps == ASSUME UploadInv, Up!Fail PROVE UploadInv'
<1> DEFINE gone == {l \in Up!Lanes : job[l] = "sent"}
<1>1. job' = [l \in Up!Lanes |-> IF l \in gone THEN "cancelled" ELSE job[l]]
  BY DEF Up!Fail
<1>2. upPc' = "failed" /\ UNCHANGED <<mode, total, chunks, conns, read, index, data, sent, stored>>
  BY DEF Up!Fail, Up!choice
<1>3. gone \in SUBSET Up!Lanes /\ \A l \in gone : job[l] = "sent"
  OBVIOUS
<1> HIDE DEF gone
<1> QED
  BY <1>1, <1>2, <1>3, LanesStop

LEMMA UploadFinishKeeps == ASSUME UploadInv, Up!Finish PROVE UploadInv'
<1>1. /\ read = chunks /\ \A l \in Up!Lanes : Up!Ready(l)
      /\ upPc' = "done"
      /\ UNCHANGED <<mode, total, chunks, conns, read, job, index, data, sent, stored>>
  BY DEF Up!Finish, Up!choice
<1> QED
  BY <1>1 DEF UploadInv, UploadTypes, Up!TypeOK, OwnParts, NextInLane, Accounted, DoneMeansAll,
              Up!Lanes, Up!Ready

LEMMA UploadStep == ASSUME UploadInv, [Up!Next]_(Up!vars) PROVE UploadInv'
<1>1. CASE UNCHANGED Up!vars
  BY <1>1 DEF Up!vars, Up!choice, UploadInv, UploadTypes, Up!TypeOK, OwnParts, NextInLane, Accounted,
              DoneMeansAll, Up!Lanes, Up!Ready
<1>2. CASE Up!Next
  BY <1>2, PushKeeps, UploadFailKeeps, UploadFinishKeeps, StoredKeeps, PartFailsKeeps DEF Up!Next
<1> QED
  BY <1>1, <1>2

LEMMA UploadInvImplies == ASSUME UploadInv PROVE Up!PartsInPlace
<1>1. ASSUME upPc = "done" PROVE stored = 0 .. chunks - 1
  BY <1>1, UploadFacts DEF UploadInv, DoneMeansAll, Accounted
<1>2. upPc = "done" => read = chunks
  BY DEF UploadInv, DoneMeansAll
<1> QED
  BY <1>1, <1>2 DEF UploadInv, Up!PartsInPlace, Up!Named

\* A part that the server has stored holds its own chunk, and a file that is
\* done has all of them (MTNet.upload_file, charged_upload), for every number of
\* parts, chunks and lanes.
THEOREM PartsStayInPlace ==
  ASSUME Up!UploadAssumption PROVE Up!Spec => [](Up!TypeOK /\ Up!PartsInPlace)
<1>1. Up!Init => UploadInv
  BY UploadInit
<1>2. UploadInv /\ [Up!Next]_(Up!vars) => UploadInv'
  BY UploadStep
<1>3. UploadInv => Up!TypeOK /\ Up!PartsInPlace
  BY UploadInvImplies DEF UploadInv, UploadTypes
<1> QED
  BY <1>1, <1>2, <1>3, PTL DEF Up!Spec

-----------------------------------------------------------------------------
(* The download *)

Lesser(a, b) == IF a < b THEN a ELSE b

LEMMA FileIsSpan ==
  ASSUME length \in Nat PROVE Down!File = Span(0, length)
<1>1. Down!File = [i \in 1 .. length |-> i]
  BY DEF Down!File
<1>2. Span(0, length) = [i \in 1 .. length - 0 |-> 0 + i]
  BY DEF Span
<1> QED
  BY <1>1, <1>2

LEMMA EmptySpan ==
  ASSUME NEW a \in Nat PROVE Span(a, a) = << >>
BY DEF Span

\* What the server answers, wherever the offset is.
LEMMA AnswerIsSpan ==
  ASSUME length \in Nat, Part \in Nat, Part > 0, NEW o \in Nat
  PROVE  Down!Answer(o) = Span(Lesser(o, length), Lesser(o + Part, length))
<1> DEFINE e == Lesser(o + Part, length)  F == Span(0, length)
<1>1. Down!Answer(o) = SubSeq(F, o + 1, e)
  BY FileIsSpan DEF Down!Answer, Lesser
<1>2. e \in Nat /\ e <= length
  BY DEF Lesser
<1>3. F \in Seq(Nat) /\ Len(F) = length /\ \A i \in 1 .. length : F[i] = i
  <2>1. 0 <= length
    OBVIOUS
  <2>2. /\ F \in Seq(Nat) /\ Len(F) = length - 0
        /\ \A i \in 1 .. length - 0 : F[i] = 0 + i
    BY <2>1, SpanFacts
  <2> QED
    BY <2>2
<1> HIDE DEF e, F
<1>4. CASE o <= e
  <2>1. /\ SubSeq(F, o + 1, e) \in Seq(Nat) /\ Len(SubSeq(F, o + 1, e)) = e - o
        /\ \A i \in 1 .. e - o : SubSeq(F, o + 1, e)[i] = F[(o + 1) + i - 1]
    BY <1>2, <1>3, <1>4
  <2>2. /\ Span(o, e) \in Seq(Nat) /\ Len(Span(o, e)) = e - o
        /\ \A i \in 1 .. e - o : Span(o, e)[i] = o + i
    BY <1>2, <1>4, SpanFacts
  <2>3. ASSUME NEW i \in 1 .. e - o PROVE SubSeq(F, o + 1, e)[i] = Span(o, e)[i]
    <3>1. (o + 1) + i - 1 = o + i /\ o + i \in 1 .. length
      BY <1>2
    <3> QED
      BY <2>1, <2>2, <3>1, <1>3
  <2>4. SubSeq(F, o + 1, e) = Span(o, e)
    BY <2>1, <2>2, <2>3, SeqEqual
  <2>5. Lesser(o, length) = o
    BY <1>2, <1>4 DEF Lesser
  <2> QED
    BY <1>1, <2>4, <2>5 DEF e
<1>5. CASE o > e
  <2>1. e = length /\ Lesser(o, length) = length
    BY <1>5 DEF e, Lesser
  <2>2. SubSeq(F, o + 1, e) = << >>
    BY <1>2, <1>3, <1>5
  <2> QED
    BY <1>1, <2>1, <2>2, EmptySpan DEF e
<1> QED
  BY <1>2, <1>4, <1>5

LEMMA Times ==
  ASSUME NEW p \in Nat, NEW a \in Nat, NEW b \in Nat
  PROVE  /\ p * a \in Nat /\ p * (a + 1) = p * a + p /\ p * (a + b) = p * a + p * b
         /\ a <= b => p * a <= p * b
<1>1. p * a \in Nat /\ p * (a + 1) = p * a + p
  OBVIOUS
<1>2. p * (a + b) = p * a + p * b
  OBVIOUS
<1>3. ASSUME a <= b PROVE p * a <= p * b
  <2>1. p * b = p * a + p * (b - a) /\ b - a \in Nat
    BY <1>3
  <2>2. p * (b - a) \in Nat /\ p * a \in Nat
    BY <2>1
  <2> QED
    BY <2>1, <2>2
<1> QED
  BY <1>1, <1>2, <1>3

\* What the constants and the file are.
DownTypes ==
  /\ Part \in Nat /\ Part > 0 /\ downConns \in Nat /\ downConns > 0
  /\ length \in Nat /\ size \in Nat

LEMMA PartsCover ==
  ASSUME DownTypes
  PROVE  /\ Down!Parts \in Nat /\ Part * Down!Parts \in Nat
         /\ size <= Part * Down!Parts /\ Part * Down!Parts < size + Part
         /\ (Part * Down!Parts) % Part = 0
<1> DEFINE a == size + Part - 1  q == a \div Part
<1>1. a \in Nat /\ Part \in Nat /\ Part > 0
  BY DEF DownTypes
<1>2. a = Part * q + (a % Part) /\ a % Part \in 0 .. Part - 1 /\ q \in Nat
  BY <1>1, Division
<1>3. Down!Parts = q
  BY DEF Down!Parts
<1> HIDE DEF q
<1>4. Part * q \in Nat
  BY <1>1, <1>2
<1>5. size <= Part * q /\ Part * q < size + Part
  BY <1>1, <1>2, <1>4 DEF DownTypes
<1>6. (Part * q) % Part = 0
  BY <1>1, <1>2
<1> QED
  BY <1>2, <1>3, <1>4, <1>5, <1>6

\* A lane has as many parts as there are with its remainder.
LEMMA ShareCounts ==
  ASSUME DownTypes, NEW i \in Nat, i < downConns, NEW r \in Nat
  PROVE  /\ Down!Share(i) \in Nat
         /\ r < Down!Share(i) <=> i + downConns * r < Down!Parts
<1> DEFINE n == downConns  q == Down!Parts \div n  s == Down!Parts % n
<1>1. n \in Nat /\ n > 0 /\ Down!Parts \in Nat
  BY PartsCover DEF DownTypes
<1>2. Down!Parts = n * q + s /\ s \in 0 .. n - 1 /\ q \in Nat
  BY <1>1, Division
<1>3. Down!Share(i) = q + IF i < s THEN 1 ELSE 0
  BY DEF Down!Share
<1> HIDE DEF n, q, s
<1>4. i < n
  BY DEF n
<1>5. n * q \in Nat /\ n * r \in Nat
  BY <1>1, <1>2
<1>6. CASE r < q
  <2>1. n * (r + 1) = n * r + n /\ n * (r + 1) <= n * q
    BY <1>1, <1>2, <1>6, Times
  <2> QED
    BY <2>1, <1>1, <1>2, <1>3, <1>4, <1>5, <1>6 DEF n
<1>7. CASE r = q
  BY <1>1, <1>2, <1>3, <1>4, <1>5, <1>7 DEF n
<1>8. CASE r > q
  <2>1. n * (q + 1) = n * q + n /\ n * (q + 1) <= n * r
    BY <1>1, <1>2, <1>8, Times
  <2> QED
    BY <2>1, <1>1, <1>2, <1>3, <1>4, <1>5, <1>8 DEF n
<1> QED
  BY <1>2, <1>6, <1>7, <1>8

\* The units that all the parts that are asked for have.
Cap == Lesser(Part * Down!Parts, length)

\* Where part number k of the file begins, if it does.
From(k) == Lesser(Part * k, Cap)

\* After r rounds: a lane that still fetches is at its part number r, the others
\* have come to the end, and the output is what the rounds have brought.
RoundAt(r) ==
  /\ DOMAIN lanes = 1 .. downConns
  /\ \A i \in fetching :
       /\ lanes[i].offset = Part * (i - 1 + downConns * r)
       /\ r <= Down!Share(i - 1) /\ lanes[i].left = Down!Share(i - 1) - r
  /\ \A i \in (1 .. downConns) \ fetching : Cap <= Part * (i - 1 + downConns * r)
  /\ out = Span(0, From(downConns * r))

LEMMA FromFacts ==
  ASSUME DownTypes, NEW k \in Nat
  PROVE  /\ From(k) \in Nat /\ From(k) <= From(k + 1) /\ From(k) <= length
         /\ Part * k \in Nat /\ Part * (k + 1) = Part * k + Part
         /\ Cap \in Nat /\ Cap <= length
<1>1. Part * k \in Nat /\ Part * (k + 1) = Part * k + Part
  BY Times DEF DownTypes
<1>2. Cap \in Nat /\ Cap <= length
  BY PartsCover DEF Cap, Lesser, DownTypes
<1> QED
  BY <1>1, <1>2 DEF From, Lesser, DownTypes

\* What a lane brings in a round is its part of the file, as far as it goes.
LEMMA LaneIsSpan ==
  ASSUME DownTypes, fetching \subseteq 1 .. downConns, NEW r \in Nat, RoundAt(r),
         NEW i \in 1 .. downConns
  PROVE  Down!LaneData(i) = Span(From(downConns * r + (i - 1)), From(downConns * r + i))
<1> DEFINE k == downConns * r + (i - 1)
<1>1. k \in Nat /\ downConns * r + i = k + 1 /\ i - 1 + downConns * r = k
      /\ i - 1 \in Nat /\ i - 1 < downConns /\ downConns * r \in Nat
  BY DEF DownTypes
<1> HIDE DEF k
<1>2. /\ From(k) \in Nat /\ From(k + 1) \in Nat /\ Part * k \in Nat
      /\ Part * (k + 1) = Part * k + Part /\ Cap \in Nat /\ Cap <= length
  BY <1>1, FromFacts
<1>3. ASSUME Cap <= Part * k PROVE From(k) = Cap /\ From(k + 1) = Cap
  BY <1>2, <1>3 DEF From, Lesser, DownTypes
<1>4. CASE i \notin fetching
  <2>1. Cap <= Part * k
    BY <1>1, <1>4 DEF RoundAt
  <2>2. Down!LaneData(i) = << >>
    BY <1>4 DEF Down!LaneData
  <2> QED
    BY <2>1, <2>2, <1>1, <1>2, <1>3, EmptySpan DEF k
<1>5. CASE i \in fetching /\ ~(k < Down!Parts)
  <2>1. ~(r < Down!Share(i - 1)) /\ Down!Share(i - 1) \in Nat
    BY <1>1, <1>5, ShareCounts
  <2>2. lanes[i].left = 0
    BY <2>1, <1>5 DEF RoundAt
  <2>3. Down!LaneData(i) = << >>
    BY <2>2 DEF Down!LaneData
  <2>4. Part * Down!Parts <= Part * k /\ Part * Down!Parts \in Nat
    BY <1>1, <1>5, PartsCover, Times DEF DownTypes
  <2>5. Cap <= Part * k
    BY <1>2, <2>4 DEF Cap, Lesser, DownTypes
  <2> QED
    BY <2>3, <2>5, <1>1, <1>2, <1>3, EmptySpan DEF k
<1>6. CASE i \in fetching /\ k < Down!Parts
  <2>1. r < Down!Share(i - 1) /\ Down!Share(i - 1) \in Nat
    BY <1>1, <1>6, ShareCounts
  <2>2. lanes[i].left > 0 /\ lanes[i].offset = Part * k
    BY <2>1, <1>1, <1>6 DEF RoundAt
  <2>3. Down!LaneData(i) = Span(Lesser(Part * k, length), Lesser(Part * k + Part, length))
    BY <2>2, <1>2, <1>6, AnswerIsSpan DEF Down!LaneData, DownTypes
  <2>4. Part * (k + 1) <= Part * Down!Parts /\ Part * Down!Parts \in Nat
    BY <1>1, <1>6, PartsCover, Times DEF DownTypes
  <2>5. From(k) = Lesser(Part * k, length) /\ From(k + 1) = Lesser(Part * k + Part, length)
    BY <1>2, <2>4 DEF From, Cap, Lesser, DownTypes
  <2> QED
    BY <2>3, <2>5, <1>1 DEF k
<1> QED
  BY <1>4, <1>5, <1>6

\* The whole of what was expected, of a file that is not shorter; of a longer
\* one only if what was expected ends with a part.
Expected == size = length \/ (size < length /\ size % Part = 0)

\* What a download has done so far.
Progress ==
  /\ downPc = "next" => downMode = "plain"
  /\ downPc \in {"probe", "round"} => downMode = "lanes"
  /\ downPc = "round" => \E r \in Nat : RoundAt(r)
  /\ downPc = "commit" =>
       IF downMode = "plain" THEN out = Span(0, length) ELSE out = Span(0, size) /\ Expected
  /\ downPc = "done" =>
       IF downMode = "plain" THEN target = Span(0, length) ELSE target = Span(0, size) /\ Expected
  /\ downPc # "done" => target = Down!Old

\* The output is always a beginning of the file.
Prefix == \E k \in Nat : k <= length /\ out = Span(0, k)

LaneTypes == \A i \in DOMAIN lanes : lanes[i].offset \in Nat /\ lanes[i].left \in Nat

DownStates == {"next", "probe", "round", "commit", "done", "failed"}

DownInv ==
  /\ DownTypes /\ Progress /\ Prefix /\ LaneTypes
  /\ downMode \in {"plain", "lanes"} /\ downPc \in DownStates
  /\ refreshed \in BOOLEAN /\ attempt \in 0 .. 2 /\ fetching \subseteq 1 .. downConns

LEMMA EmptyOutput == Span(0, 0) = << >>
BY EmptySpan

LEMMA DownInit == ASSUME Down!DownloadAssumption, Down!Init PROVE DownInv
<1>1. MaxUnits \in Nat /\ MaxConns \in Nat /\ Part \in Nat /\ Part > 0
  BY DEF Down!DownloadAssumption
<1>2. DownTypes
  BY <1>1 DEF Down!Init, DownTypes
<1>3. Prefix
  BY <1>2, EmptyOutput DEF Down!Init, Prefix, DownTypes
<1>4. lanes = << >> /\ fetching = {} /\ refreshed = FALSE /\ attempt = 0
      /\ downMode \in {"plain", "lanes"} /\ target = Down!Old
      /\ downPc = IF downMode = "plain" THEN "next" ELSE "probe"
  BY DEF Down!Init
<1>5. LaneTypes
  BY <1>4 DEF LaneTypes
<1>6. Progress
  <2>1. downPc \in {"next", "probe"} /\ (downPc = "next" => downMode = "plain")
        /\ (downPc = "probe" => downMode = "lanes")
    BY <1>4
  <2>2. target = Down!Old
    BY <1>4
  <2> QED
    BY <2>1, <2>2 DEF Progress
<1>7. downPc \in DownStates /\ attempt \in 0 .. 2 /\ fetching \subseteq 1 .. downConns
  BY <1>4 DEF DownStates
<1> QED
  BY <1>2, <1>3, <1>4, <1>5, <1>6, <1>7 DEF DownInv

\* The lanes as they start: round 0.
LEMMA BuildKeeps ==
  ASSUME DownInv, Down!BuildLanes, downConns' = downConns, length' = length, size' = size
  PROVE  RoundAt(0)' /\ Prefix' /\ LaneTypes' /\ fetching' \subseteq 1 .. downConns
<1>1. DownTypes
  BY DEF DownInv
<1>2. /\ lanes' = [i \in 1 .. downConns |-> [offset |-> (i - 1) * Part, left |-> Down!Share(i - 1)]]
      /\ fetching' = {i \in 1 .. downConns : Down!Share(i - 1) > 0}
      /\ out' = << >>
  BY DEF Down!BuildLanes
<1>3. ASSUME NEW i \in 1 .. downConns
      PROVE  /\ Down!Share(i - 1) \in Nat /\ (i - 1) * Part \in Nat
             /\ (i - 1) * Part = Part * (i - 1 + downConns * 0)
             /\ (Down!Share(i - 1) > 0 \/ Cap <= Part * (i - 1 + downConns * 0))
  <2>1. i - 1 \in Nat /\ i - 1 < downConns /\ downConns * 0 = 0
    BY <1>1 DEF DownTypes
  <2>2. /\ Down!Share(i - 1) \in Nat
        /\ 0 < Down!Share(i - 1) <=> i - 1 + downConns * 0 < Down!Parts
    BY <2>1, <1>1, ShareCounts
  <2>3. (i - 1) * Part \in Nat /\ (i - 1) * Part = Part * (i - 1 + downConns * 0)
    BY <2>1, <1>1 DEF DownTypes
  <2>4. ASSUME ~(Down!Share(i - 1) > 0) PROVE Cap <= Part * (i - 1)
    <3>1. Down!Parts <= i - 1 /\ Down!Parts \in Nat
      BY <2>1, <2>2, <2>4, <1>1, PartsCover
    <3>2. Part * Down!Parts <= Part * (i - 1) /\ Part * Down!Parts \in Nat /\ Part * (i - 1) \in Nat
      BY <3>1, <2>1, <1>1, Times DEF DownTypes
    <3> QED
      BY <3>2, <1>1 DEF Cap, Lesser, DownTypes
  <2> QED
    BY <2>1, <2>2, <2>3, <2>4
<1>4. Cap' = Cap /\ Down!Parts' = Down!Parts /\ \A i : Down!Share(i)' = Down!Share(i)
  BY DEF Cap, Lesser, Down!Parts, Down!Share
<1>5. From(downConns * 0) = 0
  <2>1. downConns * 0 = 0 /\ Part * 0 = 0
    BY <1>1 DEF DownTypes
  <2>2. Cap \in Nat
    BY <1>1, FromFacts
  <2> QED
    BY <2>1, <2>2 DEF From, Lesser
<1>6. out' = Span(0, 0)
  BY <1>2, EmptyOutput
<1>7. DOMAIN lanes' = 1 .. downConns
      /\ \A i \in 1 .. downConns :
           lanes'[i].offset = (i - 1) * Part /\ lanes'[i].left = Down!Share(i - 1)
  BY <1>2
<1>8. From(downConns * 0)' = 0
  BY <1>4, <1>5 DEF From, Lesser
<1>9. RoundAt(0)'
  BY <1>2, <1>3, <1>4, <1>6, <1>7, <1>8 DEF RoundAt
<1>10. Prefix'
  BY <1>1, <1>6 DEF Prefix, DownTypes
<1>11. LaneTypes'
  BY <1>3, <1>7 DEF LaneTypes
<1> QED
  BY <1>2, <1>9, <1>10, <1>11

\* The lanes after a round.
LEMMA RoundGoesOn ==
  ASSUME DownInv, Down!Round, NEW r \in Nat, RoundAt(r)
  PROVE  RoundAt(r + 1)' /\ Prefix' /\ LaneTypes' /\ fetching' \subseteq 1 .. downConns
<1> DEFINE n == downConns  w == n * r
           b == [k \in 0 .. n |-> From(w + k)]
           seqs == [i \in 1 .. n |-> Down!LaneData(i)]
<1>1. /\ out' = out \o Down!FlattenSeq([i \in 1 .. downConns |-> Down!LaneData(i)])
      /\ fetching' = {i \in fetching : Len(Down!LaneData(i)) = Part}
      /\ lanes' = [i \in DOMAIN lanes |->
                     IF i \in fetching THEN Down!Advanced(lanes[i]) ELSE lanes[i]]
      /\ downConns' = downConns /\ length' = length /\ size' = size
  BY DEF Down!Round, Down!choice
<1>2. DownTypes /\ fetching \subseteq 1 .. n
  BY DEF DownInv
<1>3. /\ n \in Nat /\ n > 0 /\ w \in Nat /\ n * (r + 1) = w + n /\ r + 1 \in Nat
      /\ out = Span(0, From(w)) /\ From(w) \in Nat
  <2>1. n \in Nat /\ n > 0
    BY <1>2 DEF DownTypes
  <2>2. w \in Nat /\ n * (r + 1) = w + n
    BY <2>1, Times
  <2>3. From(w) \in Nat
    BY <2>2, <1>2, FromFacts
  <2>4. out = Span(0, From(w)) /\ r + 1 \in Nat
    BY DEF RoundAt
  <2> QED
    BY <2>1, <2>2, <2>3, <2>4
<1>4. /\ b \in [0 .. n -> Nat] /\ \A k \in 1 .. n : b[k - 1] <= b[k]
      /\ \A k \in 0 .. n : b[k] = From(w + k)
  <2>1. \A k \in Nat : From(w + k) \in Nat /\ From(w + k) <= From(w + k + 1)
    BY <1>2, <1>3, FromFacts, SMTT(30)
  <2>2. b \in [0 .. n -> Nat] /\ \A k \in 0 .. n : b[k] = From(w + k)
    BY <2>1
  <2>3. ASSUME NEW k \in 1 .. n PROVE b[k - 1] <= b[k]
    <3>1. k - 1 \in Nat /\ k - 1 \in 0 .. n /\ k \in 0 .. n /\ w + (k - 1) + 1 = w + k
      BY <1>3
    <3>2. b[k - 1] = From(w + (k - 1)) /\ b[k] = From(w + k)
      BY <2>2, <3>1
    <3> QED
      BY <2>1, <3>1, <3>2
  <2> QED
    BY <2>2, <2>3
<1>5. \A i \in 1 .. n : Down!LaneData(i) = Span(From(w + (i - 1)), From(w + i))
  BY <1>2, LaneIsSpan
<1> HIDE DEF b
<1>6. seqs = [i \in 1 .. n |-> Span(b[i - 1], b[i])]
  <2>1. \A i \in 1 .. n : Down!LaneData(i) = Span(b[i - 1], b[i])
    <3> SUFFICES ASSUME NEW i \in 1 .. n PROVE Down!LaneData(i) = Span(b[i - 1], b[i])
      OBVIOUS
    <3>1. i - 1 \in 0 .. n /\ i \in 0 .. n
      BY <1>3
    <3> QED
      BY <3>1, <1>4, <1>5
  <2> QED
    BY <2>1
<1>7. Down!FlattenSeq(seqs) = Span(b[0], b[n])
  <2> HIDE DEF n, seqs
  <2> QED
    BY <1>3, <1>4, <1>6, SpansFlatten
<1>8. out' = Span(0, From(w + n))
  <2>1. b[0] = From(w) /\ b[n] = From(w + n)
    <3>1. 0 \in 0 .. n /\ n \in 0 .. n /\ w + 0 = w
      BY <1>3
    <3> QED
      BY <3>1, <1>4
  <2>2. From(w) <= From(w + n) /\ From(w + n) \in Nat
    <3>1. Part * (w + n) >= Part * w /\ Part * w \in Nat /\ Part * (w + n) \in Nat
      <4>1. w + n \in Nat /\ w <= w + n /\ Part \in Nat
        BY <1>2, <1>3 DEF DownTypes
      <4> QED
        BY <4>1, <1>3, Times
    <3>2. Cap \in Nat
      BY <1>2, FromFacts
    <3> QED
      BY <3>1, <3>2 DEF From, Lesser
  <2>3. Span(0, From(w)) \o Span(From(w), From(w + n)) = Span(0, From(w + n))
    <3>1. 0 <= From(w)
      BY <1>3
    <3> QED
      BY <3>1, <1>3, <2>2, SpansJoin
  <2> QED
    BY <1>1, <1>3, <1>7, <2>1, <2>3
<1>9. Cap' = Cap /\ (\A i : Down!Share(i)' = Down!Share(i)) /\ (\A k : From(k)' = From(k))
  BY <1>1 DEF Cap, Lesser, Down!Parts, Down!Share, From
<1>10. DOMAIN lanes' = 1 .. n
  BY <1>1 DEF RoundAt
<1>11. ASSUME NEW i \in fetching'
       PROVE  /\ lanes'[i].offset = Part * (i - 1 + n * (r + 1))
              /\ r + 1 <= Down!Share(i - 1) /\ lanes'[i].left = Down!Share(i - 1) - (r + 1)
  <2>1. i \in fetching /\ i \in 1 .. n /\ Len(Down!LaneData(i)) = Part /\ i \in DOMAIN lanes
    BY <1>1, <1>2 DEF RoundAt
  <2>2. /\ lanes[i].offset = Part * (i - 1 + n * r)
        /\ r <= Down!Share(i - 1) /\ lanes[i].left = Down!Share(i - 1) - r
    BY <2>1 DEF RoundAt
  <2>3. lanes[i].left > 0
    <3>1. Part > 0
      BY <1>2 DEF DownTypes
    <3>2. Len(<< >>) = 0
      OBVIOUS
    <3> QED
      BY <2>1, <3>1, <3>2 DEF Down!LaneData
  <2>4. lanes'[i] = [offset |-> lanes[i].offset + n * Part, left |-> lanes[i].left - 1]
    BY <1>1, <2>1, <2>3 DEF Down!Advanced
  <2>5. Down!Share(i - 1) \in Nat
    <3>1. i - 1 \in Nat /\ i - 1 < downConns
      BY <2>1, <1>3
    <3> QED
      BY <3>1, <1>2, ShareCounts
  <2>6. Part * (i - 1 + n * (r + 1)) = Part * (i - 1 + n * r) + n * Part
    <3>1. i - 1 + w \in Nat /\ Part \in Nat
      BY <2>1, <1>2, <1>3 DEF DownTypes
    <3>2. Part * ((i - 1 + w) + n) = Part * (i - 1 + w) + Part * n
      BY <3>1, <1>3, Times
    <3>3. i - 1 + n * (r + 1) = (i - 1 + w) + n
      BY <2>1, <1>3
    <3>4. Part * n = n * Part
      BY <3>1, <1>3
    <3> QED
      BY <3>2, <3>3, <3>4
  <2> QED
    BY <2>2, <2>3, <2>4, <2>5, <2>6
<1>12. ASSUME NEW i \in 1 .. n, i \notin fetching'
       PROVE  Cap <= Part * (i - 1 + n * (r + 1))
  <2> DEFINE k == i - 1 + w
  <2>1. /\ k \in Nat /\ i - 1 + n * (r + 1) = k + n /\ w + (i - 1) = k /\ w + i = k + 1
        /\ i - 1 + n * r = k
    BY <1>3
  <2> HIDE DEF k
  <2>2. /\ Cap \in Nat /\ From(k) \in Nat /\ From(k + 1) \in Nat /\ From(k) <= From(k + 1)
        /\ Part * k \in Nat /\ Part * (k + 1) = Part * k + Part /\ Cap <= length
    BY <1>2, <2>1, FromFacts
  <2>3. Part * (k + 1) <= Part * (k + n) /\ Part * (k + n) \in Nat
    <3>1. k + 1 \in Nat /\ k + n \in Nat /\ k + 1 <= k + n /\ Part \in Nat
      BY <1>2, <1>3, <2>1 DEF DownTypes
    <3> QED
      BY <3>1, Times
  <2>4. Part \in Nat /\ Part > 0
    BY <1>2 DEF DownTypes
  <2>7. Part * (i - 1 + n * (r + 1)) = Part * (k + n) /\ Part * (i - 1 + n * r) = Part * k
    BY <2>1
  <2>5. CASE i \notin fetching
    <3>1. Cap <= Part * k
      BY <2>7, <2>5 DEF RoundAt
    <3> QED
      BY <3>1, <2>2, <2>3, <2>4, <2>7
  <2>6. CASE i \in fetching
    <3>1. Len(Down!LaneData(i)) # Part
      BY <1>1, <1>12, <2>6
    <3>2. Len(Span(From(k), From(k + 1))) = From(k + 1) - From(k)
      BY <2>2, SpanFacts
    <3>3. From(k + 1) - From(k) # Part
      BY <1>5, <2>1, <3>1, <3>2
    <3>4. Cap <= Part * (k + 1)
      BY <2>2, <2>4, <3>3 DEF From, Lesser
    <3> QED
      <4> DEFINE x == Part * (k + 1)  y == Part * (k + n)
      <4>1. Cap \in Nat /\ x \in Nat /\ y \in Nat /\ x <= y /\ Cap <= x
        BY <3>4, <2>2, <2>3, <2>4
      <4> HIDE DEF x, y
      <4>2. Cap <= y
        BY <4>1
      <4> QED
        BY <4>2, <2>7 DEF y
  <2> QED
    BY <2>5, <2>6
<1>13. RoundAt(r + 1)'
  BY <1>1, <1>3, <1>8, <1>9, <1>10, <1>11, <1>12 DEF RoundAt
<1>14. Prefix'
  <2>1. w + n \in Nat
    BY <1>3
  <2>2. From(w + n) \in Nat /\ From(w + n) <= length
    BY <1>2, <2>1, FromFacts
  <2> QED
    BY <1>1, <1>8, <2>2 DEF Prefix
<1>15. LaneTypes'
  <2> SUFFICES ASSUME NEW i \in DOMAIN lanes
               PROVE  lanes'[i].offset \in Nat /\ lanes'[i].left \in Nat
    BY <1>10 DEF LaneTypes, RoundAt
  <2>1. lanes[i].offset \in Nat /\ lanes[i].left \in Nat
    BY DEF DownInv, LaneTypes
  <2>2. n * Part \in Nat
    BY <1>2, <1>3, Times DEF DownTypes
  <2> QED
    BY <1>1, <2>1, <2>2 DEF Down!Advanced
<1> QED
  BY <1>1, <1>2, <1>13, <1>14, <1>15

LEMMA NextPartKeeps == ASSUME DownInv, Down!NextPart PROVE DownInv'
<1>1. /\ downPc = "next" /\ downMode = "plain" /\ DownTypes /\ Prefix
      /\ target = Down!Old
  BY DEF Down!NextPart, DownInv, Progress
<1>2. /\ out' = out \o Down!Answer(Len(out))
      /\ downPc' = IF Len(Down!Answer(Len(out))) < Part THEN "commit" ELSE "next"
      /\ UNCHANGED <<downMode, length, size, downConns, refreshed, attempt, lanes, fetching, target>>
  BY DEF Down!NextPart, Down!choice
<1>3. PICK k \in Nat : k <= length /\ out = Span(0, k)
  BY <1>1 DEF Prefix
<1> DEFINE e == Lesser(k + Part, length)
<1>4. e \in Nat /\ k <= e /\ e <= length /\ (e - k < Part => e = length)
  BY <1>1, <1>3 DEF Lesser, DownTypes
<1>5. Len(out) = k /\ Down!Answer(Len(out)) = Span(k, e)
  <2>1. 0 <= k /\ k - 0 = k
    BY <1>3
  <2>2. Len(out) = k
    BY <2>1, <1>3, SpanFacts
  <2>3. Down!Answer(k) = Span(Lesser(k, length), e)
    BY <1>1, AnswerIsSpan DEF DownTypes
  <2>4. Lesser(k, length) = k
    BY <1>1, <1>3 DEF Lesser, DownTypes
  <2> QED
    BY <2>2, <2>3, <2>4
<1> HIDE DEF e
<1>6. out' = Span(0, e) /\ Len(Span(k, e)) = e - k
  <2>1. 0 <= k
    BY <1>3
  <2>2. Span(0, k) \o Span(k, e) = Span(0, e)
    BY <2>1, <1>4, SpansJoin
  <2>3. Len(Span(k, e)) = e - k
    BY <1>4, SpanFacts
  <2> QED
    BY <1>2, <1>3, <1>5, <2>2, <2>3
<1>7. Prefix'
  BY <1>2, <1>4, <1>6 DEF Prefix
<1>8. downPc' \in {"next", "commit"} /\ (downPc' = "commit" => out' = Span(0, length))
  BY <1>2, <1>4, <1>5, <1>6
<1>9. Progress'
  BY <1>1, <1>2, <1>8 DEF Progress, Down!Old
<1>10. downPc' \in DownStates
  BY <1>8 DEF DownStates
<1> QED
  BY <1>2, <1>7, <1>9, <1>10 DEF DownInv, DownTypes, LaneTypes

LEMMA DownStartKeeps == ASSUME DownInv, Down!Start \/ Down!RenewAndRestart PROVE DownInv'
<1>1. /\ Down!BuildLanes /\ downPc \in {"probe", "round"} /\ downPc' = "round"
      /\ UNCHANGED <<downMode, length, size, downConns, refreshed, target>>
      /\ attempt' \in 0 .. 2
  BY DEF Down!Start, Down!RenewAndRestart, Down!choice, DownInv
<1>2. RoundAt(0)' /\ Prefix' /\ LaneTypes' /\ fetching' \subseteq 1 .. downConns
  BY <1>1, BuildKeeps
<1>3. \E r \in Nat : RoundAt(r)'
  BY <1>2
<1>4. downMode = "lanes" /\ target = Down!Old
  BY <1>1 DEF DownInv, Progress
<1>5. Progress'
  BY <1>1, <1>3, <1>4 DEF Progress, Down!Old
<1> QED
  BY <1>1, <1>2, <1>5 DEF DownInv, DownTypes, DownStates

LEMMA RoundKeeps == ASSUME DownInv, Down!Round PROVE DownInv'
<1>1. /\ downPc = "round" /\ downPc' = "round"
      /\ UNCHANGED <<downMode, length, size, downConns, refreshed, attempt, target>>
  BY DEF Down!Round, Down!choice
<1>2. downMode = "lanes" /\ target = Down!Old /\ \E r \in Nat : RoundAt(r)
  BY <1>1 DEF DownInv, Progress
<1>3. PICK r \in Nat : RoundAt(r)
  BY <1>2
<1>4. RoundAt(r + 1)' /\ Prefix' /\ LaneTypes' /\ fetching' \subseteq 1 .. downConns
  BY <1>3, RoundGoesOn
<1>5. r + 1 \in Nat
  OBVIOUS
<1>6. Progress'
  BY <1>1, <1>2, <1>4, <1>5 DEF Progress, Down!Old
<1> QED
  BY <1>1, <1>4, <1>6 DEF DownInv, DownTypes, DownStates

\* When no lane fetches any more all that there was to fetch has come.
LEMMA DownFinishKeeps == ASSUME DownInv, Down!Finish PROVE DownInv'
<1>1. /\ downPc = "round" /\ fetching = {}
      /\ downPc' = IF Len(out) = size THEN "commit" ELSE "failed"
      /\ UNCHANGED <<downMode, length, size, downConns, refreshed, attempt, lanes, fetching, out,
                     target>>
  BY DEF Down!Finish, Down!choice, Down!work
<1>2. downMode = "lanes" /\ target = Down!Old /\ DownTypes /\ \E r \in Nat : RoundAt(r)
  BY <1>1 DEF DownInv, Progress
<1>3. PICK r \in Nat : RoundAt(r)
  BY <1>2
<1>4. downConns * r \in Nat /\ 1 \in 1 .. downConns /\ 1 - 1 + downConns * r = downConns * r
  BY <1>2, Times DEF DownTypes
<1>5. Cap <= Part * (1 - 1 + downConns * r)
  BY <1>1, <1>3, <1>4 DEF RoundAt
<1>6. Cap \in Nat /\ Part * (downConns * r) \in Nat /\ Cap <= Part * (downConns * r)
  BY <1>2, <1>4, <1>5, FromFacts
<1>7. From(downConns * r) = Cap
  BY <1>6 DEF From, Lesser
<1>8. out = Span(0, Cap) /\ Len(out) = Cap
  <2>1. out = Span(0, Cap) /\ 0 <= Cap /\ Cap - 0 = Cap
    BY <1>3, <1>6, <1>7 DEF RoundAt
  <2> QED
    BY <2>1, <1>6, SpanFacts
<1>9. Cap = size => Expected
  <2>1. CASE Part * Down!Parts < length
    BY <2>1, <1>2, PartsCover DEF Cap, Lesser, Expected, DownTypes
  <2>2. CASE ~(Part * Down!Parts < length)
    BY <2>2 DEF Cap, Lesser, Expected
  <2> QED
    BY <2>1, <2>2
<1>10. /\ downPc' \in {"commit", "failed"}
       /\ downPc' = "commit" => out = Span(0, size) /\ Expected
  BY <1>1, <1>8, <1>9
<1>11. Progress'
  BY <1>1, <1>2, <1>10 DEF Progress, Down!Old, Expected
<1> QED
  BY <1>1, <1>10, <1>11 DEF DownInv, DownTypes, DownStates, Prefix, LaneTypes

LEMMA DownOthersKeep ==
  ASSUME DownInv, Down!RenewOnce \/ Down!Fail \/ Down!Commit \/ UNCHANGED Down!vars
  PROVE  DownInv'
<1>1. CASE Down!RenewOnce
  <2>1. /\ downPc \in {"next", "probe"} /\ refreshed' = TRUE
        /\ UNCHANGED <<downMode, length, size, downConns, downPc, attempt, lanes, fetching, out,
                       target>>
    BY <1>1 DEF Down!RenewOnce, Down!choice
  <2>2. Progress'
    BY <2>1 DEF DownInv, Progress, Down!Old
  <2> QED
    BY <2>1, <2>2 DEF DownInv, DownTypes, Prefix, LaneTypes
<1>2. CASE Down!Fail
  <2>1. /\ downPc \in {"next", "probe", "round"} /\ downPc' = "failed"
        /\ UNCHANGED <<downMode, length, size, downConns, refreshed, attempt, lanes, fetching, out,
                       target>>
    BY <1>2 DEF Down!Fail, Down!choice, Down!work
  <2>2. Progress'
    BY <2>1 DEF DownInv, Progress, Down!Old
  <2> QED
    BY <2>1, <2>2 DEF DownInv, DownTypes, DownStates, Prefix, LaneTypes
<1>3. CASE Down!Commit
  <2>1. /\ downPc = "commit" /\ downPc' = "done" /\ target' = out
        /\ UNCHANGED <<downMode, length, size, downConns, refreshed, attempt, lanes, fetching, out>>
    BY <1>3 DEF Down!Commit, Down!choice, Down!work
  <2>2. Progress'
    BY <2>1 DEF DownInv, Progress, Expected
  <2> QED
    BY <2>1, <2>2 DEF DownInv, DownTypes, DownStates, Prefix, LaneTypes
<1>4. CASE UNCHANGED Down!vars
  <2>1. UNCHANGED <<downMode, length, size, downConns, downPc, refreshed, attempt, lanes, fetching,
                    out, target>>
    BY <1>4 DEF Down!vars, Down!choice, Down!work
  <2>2. \A r : RoundAt(r) => RoundAt(r)'
    BY <2>1 DEF RoundAt, From, Cap, Lesser, Down!Parts, Down!Share
  <2>3. Progress'
    BY <2>1, <2>2 DEF DownInv, Progress, Expected, Down!Old
  <2> QED
    BY <2>1, <2>3 DEF DownInv, DownTypes, Prefix, LaneTypes
<1> QED
  BY <1>1, <1>2, <1>3, <1>4

LEMMA DownInvImplies == ASSUME DownInv PROVE Down!TypeOK /\ Down!WholeFile
<1>1. PICK k \in Nat : k <= length /\ out = Span(0, k)
  BY DEF DownInv, Prefix
<1>2. Down!Range(out) \subseteq 1 .. length
  <2>1. \A i \in DOMAIN out : out[i] \in 1 .. length
    <3>1. DOMAIN out = 1 .. k /\ \A i \in 1 .. k : out[i] = i
      BY <1>1 DEF Span
    <3> QED
      BY <1>1, <3>1 DEF DownInv, DownTypes
  <2> QED
    BY <2>1 DEF Down!Range
<1>3. Down!TypeOK
  BY <1>2 DEF DownInv, Down!TypeOK, DownStates, LaneTypes
<1>4. Span(0, length) = Down!File
  BY FileIsSpan DEF DownInv, DownTypes
<1>5. Span(0, size) = [i \in 1 .. size |-> i]
  BY DEF DownInv, DownTypes, Span
<1> QED
  BY <1>3, <1>4, <1>5 DEF DownInv, Progress, Expected, Down!WholeFile

\* A download leaves the old file, or the new one whole (MTNet.download_file,
\* charged_download).
THEOREM DownloadsAreWhole ==
  ASSUME Down!DownloadAssumption PROVE Down!Spec => [](Down!TypeOK /\ Down!WholeFile)
<1>1. Down!Init => DownInv
  BY DownInit
<1>2. DownInv /\ [Down!Next]_(Down!vars) => DownInv'
  BY NextPartKeeps, DownStartKeeps, RoundKeeps, DownFinishKeeps, DownOthersKeep DEF Down!Next
<1>3. DownInv => Down!TypeOK /\ Down!WholeFile
  BY DownInvImplies
<1> QED
  BY <1>1, <1>2, <1>3, PTL DEF Down!Spec

-----------------------------------------------------------------------------
(* The iterators *)

\* What has been fetched: given to the caller, or in the buffer.
Fetched == given \o buf
Twice(s, i) == \E j, k \in DOMAIN s : j # k /\ s[j] = i /\ s[k] = i
Has(s, i) == \E j \in DOMAIN s : s[j] = i

\* The number of an item in the list.
Rank(i) == Cardinality({j \in Iter!Listed : place[j] >= place[i]})

\* No two items of the list have the same place.
ListTypes ==
  /\ Iter!IterateAssumption /\ Iter!TypeOK /\ added \in Nat /\ removed \in Nat
  /\ \A i, j \in Iter!Listed : i # j => place[i] # place[j]

\* What the limit leaves.
LimitKept ==
  /\ limit = 0 => left = 0
  /\ limit > 0 => Len(given) + left = limit
  /\ kind # "members" => full /\ (limit > 0 => Len(buf) <= left)
  /\ kind = "members" /\ limit > 0 /\ state = "ready" => left > 0

\* Of what stays in its place, all from the offset on has been fetched, once.
PlacesFetched ==
  /\ offset = 0 => Fetched = << >>
  /\ \A i \in steady :
       /\ Has(Fetched, i) <=> offset # 0 /\ place[i] >= offset
       /\ ~ Twice(Fetched, i)

\* The members that a departure has hidden, and those that may be, or have been,
\* fetched twice.
Hidden == {i \in steady : Rank(i) <= offset /\ ~ Has(Fetched, i)}
Repeated == {i \in steady : Twice(Fetched, i) \/ (Has(Fetched, i) /\ Rank(i) > offset)}
Unfetched == {i \in steady : ~ Has(Fetched, i)}

NumbersFetched ==
  /\ offset = Len(Fetched)
  /\ Cardinality(Hidden) <= removed
  /\ Cardinality(Repeated) <= added
  /\ ~ full => Cardinality(Unfetched) <= removed

\* What is not given at the end.
EndReached ==
  state = "done" /\ ~ Iter!Reached =>
    Cardinality({i \in steady : ~ Has(given, i)}) <= IF kind = "members" THEN removed ELSE 0

IterInv ==
  /\ ListTypes /\ LimitKept /\ EndReached
  /\ kind # "members" => PlacesFetched
  /\ kind = "members" => NumbersFetched

\* A sequence in which a measure descends.
Descends(f, s) == \A j, k \in DOMAIN s : j < k => f[s[j]] > f[s[k]]

LEMMA Enumeration ==
  ASSUME NEW f, NEW S, IsFiniteSet(S), \A i \in S : f[i] \in Nat,
         \A i, j \in S : i # j => f[i] # f[j]
  PROVE  \E s \in [1 .. Cardinality(S) -> S] : Descends(f, s)
<1> DEFINE N == {n \in Nat : \A T \in SUBSET S : Cardinality(T) = n =>
                               \E s \in [1 .. n -> T] : Descends(f, s)}
<1>1. \A T \in SUBSET S : IsFiniteSet(T) /\ Cardinality(T) \in Nat
  BY FS_Subset, FS_CardinalityType
<1>2. 0 \in N
  <2> SUFFICES ASSUME NEW T \in SUBSET S, Cardinality(T) = 0
               PROVE  \E s \in [1 .. 0 -> T] : Descends(f, s)
    OBVIOUS
  <2>1. << >> \in [1 .. 0 -> T] /\ Descends(f, << >>)
    BY DEF Descends
  <2> QED
    BY <2>1
<1>3. ASSUME NEW n \in N PROVE n + 1 \in N
  <2> SUFFICES ASSUME NEW T \in SUBSET S, Cardinality(T) = n + 1
               PROVE  \E s \in [1 .. n + 1 -> T] : Descends(f, s)
    OBVIOUS
  <2>1. n \in Nat
    OBVIOUS
  <2>2. T # {}
    BY <1>1, <2>1, FS_EmptySet
  <2>3. PICK m \in T : \A i \in T : f[m] <= f[i]
    <3> DEFINE V == {f[i] : i \in T}
    <3>1. V \in SUBSET Nat /\ V # {}
      BY <2>2
    <3> HIDE DEF V
    <3>2. PICK v \in V : \A w \in Nat : w \in V => v <= w
      BY <3>1, LeastOf
    <3> QED
      BY <3>1, <3>2 DEF V
  <2>4. T \ {m} \in SUBSET S /\ Cardinality(T \ {m}) = n
    BY <1>1, <2>1, FS_RemoveElement
  <2>5. PICK s \in [1 .. n -> T \ {m}] : Descends(f, s)
    BY <2>4
  <2> DEFINE t == [k \in 1 .. n + 1 |-> IF k <= n THEN s[k] ELSE m]
  <2>6. t \in [1 .. n + 1 -> T]
    BY <2>1, <2>5
  <2>7. ASSUME NEW j \in 1 .. n + 1, NEW k \in 1 .. n + 1, j < k PROVE f[t[j]] > f[t[k]]
    <3>1. j \in 1 .. n /\ t[j] = s[j] /\ s[j] \in T /\ s[j] # m
      BY <2>1, <2>5, <2>7
    <3>2. CASE k <= n
      <4>1. k \in 1 .. n /\ t[k] = s[k] /\ DOMAIN s = 1 .. n
        BY <2>1, <2>5, <3>2
      <4>2. f[s[j]] > f[s[k]]
        BY <2>5, <2>7, <3>1, <4>1 DEF Descends
      <4> QED
        BY <3>1, <4>1, <4>2
    <3>3. CASE k > n
      <4>1. t[k] = m
        BY <2>1, <3>3
      <4>2. f[m] <= f[s[j]] /\ f[m] # f[s[j]] /\ f[m] \in Nat /\ f[s[j]] \in Nat
        BY <2>3, <3>1
      <4> QED
        BY <3>1, <4>1, <4>2
    <3> QED
      BY <2>1, <3>2, <3>3
  <2> HIDE DEF t
  <2>8. DOMAIN t = 1 .. n + 1
    BY <2>6
  <2> QED
    BY <2>6, <2>7, <2>8 DEF Descends
<1>4. N = Nat
  <2>1. N \in SUBSET Nat
    OBVIOUS
  <2> HIDE DEF N
  <2> QED
    BY <1>2, <1>3, <2>1, InductionOverNat
<1> QED
  BY <1>1, <1>4

\* It lists every element of the set, once.
LEMMA EnumerationIsAll ==
  ASSUME NEW f, NEW S, IsFiniteSet(S), \A i \in S : f[i] \in Nat,
         NEW s \in [1 .. Cardinality(S) -> S], Descends(f, s)
  PROVE  /\ \A j, k \in 1 .. Cardinality(S) : j # k => s[j] # s[k]
         /\ \A i \in S : \E k \in 1 .. Cardinality(S) : s[k] = i
<1> DEFINE n == Cardinality(S)
<1>1. n \in Nat
  BY FS_CardinalityType
<1>2. ASSUME NEW j \in 1 .. n, NEW k \in 1 .. n, j # k PROVE s[j] # s[k]
  <2>1. f[s[j]] \in Nat /\ f[s[k]] \in Nat /\ (j < k \/ k < j)
    BY <1>1, <1>2
  <2>2. (j < k => f[s[j]] > f[s[k]]) /\ (k < j => f[s[k]] > f[s[j]])
    BY DEF Descends
  <2> QED
    BY <2>1, <2>2
<1>3. s \in Injection(1 .. n, S)
  BY <1>2 DEF Injection, IsInjective
<1>4. IsFiniteSet(1 .. n) /\ Cardinality(1 .. n) = n
  BY <1>1, FS_Interval
<1>5. s \in Surjection(1 .. n, S)
  BY <1>3, <1>4, FS_Injection
<1> QED
  BY <1>2, <1>5 DEF Surjection

\* The operators that Iterate extends count what those here count.
LEMMA SameCount ==
  /\ \A S : Iter!IsFiniteSet(S) = IsFiniteSet(S)
  /\ \A S : Iter!Cardinality(S) = Cardinality(S)
<1>1. \A S : Iter!IsFiniteSet(S) = IsFiniteSet(S)
  BY Zenon DEF Iter!IsFiniteSet, IsFiniteSet
<1>2. \A S : Iter!Cardinality(S) = Cardinality(S)
  BY Zenon DEF Iter!Cardinality, Cardinality
<1> QED
  BY <1>1, <1>2

LEMMA ItemFacts ==
  ASSUME ListTypes
  PROVE  /\ Items \subseteq Nat \ {0} /\ IsFiniteSet(Items) /\ Cardinality(Items) \in Nat
         /\ batch \in Nat /\ batch > 0 /\ limit \in Nat /\ MaxChanges \in Nat
         /\ place \in [Items -> Nat] /\ offset \in Nat /\ left \in Nat /\ left <= limit
         /\ buf \in Seq(Items) /\ given \in Seq(Items) /\ steady \subseteq Iter!Listed
         /\ Iter!Places = 1 .. 2 * Cardinality(Items) + MaxChanges
         /\ Iter!Listed \subseteq Items /\ added \in Nat /\ removed \in Nat
         /\ \A i \in Iter!Listed : place[i] \in Nat /\ place[i] > 0
<1>1. /\ Items \subseteq Nat \ {0} /\ IsFiniteSet(Items) /\ MaxChanges \in Nat
      /\ batch \in Nat \ {0} /\ limit \in Nat
  BY SameCount DEF ListTypes, Iter!IterateAssumption, Iter!TypeOK
<1>2. Cardinality(Items) \in Nat
  BY <1>1, FS_CardinalityType
<1>3. Iter!Places = 1 .. 2 * Cardinality(Items) + MaxChanges
  BY SameCount DEF Iter!Places
<1>4. place \in [Items -> Iter!Places \union {0}]
  BY DEF ListTypes, Iter!TypeOK
<1>5. place \in [Items -> Nat]
  <2>1. Iter!Places \union {0} \subseteq Nat
    BY <1>1, <1>2, <1>3
  <2> QED
    BY <2>1, <1>4
<1>6. /\ left \in 0 .. limit /\ offset \in Nat /\ steady \subseteq Iter!Listed
      /\ buf \in Seq(Items) /\ given \in Seq(Items) /\ added \in Nat /\ removed \in Nat
  BY DEF ListTypes, Iter!TypeOK
<1>7. Iter!Listed \subseteq Items /\ \A i \in Iter!Listed : place[i] \in Nat /\ place[i] > 0
  BY <1>5 DEF Iter!Listed
<1> QED
  BY <1>1, <1>2, <1>3, <1>5, <1>6, <1>7

LEMMA SortedFacts ==
  ASSUME ListTypes, NEW S \in SUBSET Iter!Listed
  PROVE  /\ IsFiniteSet(S) /\ Cardinality(S) \in Nat
         /\ Iter!Sorted(S) \in [1 .. Cardinality(S) -> S] /\ Descends(place, Iter!Sorted(S))
         /\ \A j, k \in 1 .. Cardinality(S) : j # k => Iter!Sorted(S)[j] # Iter!Sorted(S)[k]
         /\ \A i \in S : \E k \in 1 .. Cardinality(S) : Iter!Sorted(S)[k] = i
<1>1. IsFiniteSet(S) /\ Cardinality(S) \in Nat
  <2>1. IsFiniteSet(Items) /\ S \in SUBSET Items
    BY ItemFacts
  <2> QED
    BY <2>1, FS_Subset, FS_CardinalityType
<1>2. \A i \in S : place[i] \in Nat
  BY ItemFacts
<1>3. \A i, j \in S : i # j => place[i] # place[j]
  BY DEF ListTypes
<1>4. \E s \in [1 .. Cardinality(S) -> S] : Descends(place, s)
  BY <1>1, <1>2, <1>3, Enumeration
<1>5. Iter!Sorted(S) \in [1 .. Cardinality(S) -> S] /\ Descends(place, Iter!Sorted(S))
  BY <1>4, SameCount DEF Iter!Sorted, Descends
<1> QED
  BY <1>1, <1>2, <1>5, EnumerationIsAll

\* The members are numbered one after the other.
LEMMA RankFacts ==
  ASSUME ListTypes
  PROVE  /\ \A k \in 1 .. Cardinality(Iter!Listed) : Rank(Iter!Sorted(Iter!Listed)[k]) = k
         /\ \A i \in Iter!Listed : /\ Rank(i) \in 1 .. Cardinality(Iter!Listed)
                                   /\ Iter!Sorted(Iter!Listed)[Rank(i)] = i
         /\ \A i, j \in Iter!Listed : i # j => Rank(i) # Rank(j)
<1> DEFINE L == Iter!Listed  s == Iter!Sorted(L)  n == Cardinality(L)
<1>1. /\ n \in Nat /\ s \in [1 .. n -> L] /\ Descends(place, s)
      /\ \A j, k \in 1 .. n : j # k => s[j] # s[k]
      /\ \A i \in L : \E k \in 1 .. n : s[k] = i
  BY SortedFacts
<1>2. \A i \in L : place[i] \in Nat
  BY ItemFacts
<1> HIDE DEF L, s, n
<1>3. ASSUME NEW k \in 1 .. n PROVE Rank(s[k]) = k
  <2> DEFINE U == {j \in L : place[j] >= place[s[k]]}
             f == [j \in 1 .. k |-> s[j]]
  <2>1. k \in Nat /\ 1 .. k \subseteq 1 .. n /\ DOMAIN s = 1 .. n
    BY <1>1
  <2>2. \A j \in 1 .. n : place[s[j]] >= place[s[k]] <=> j <= k
    <3> SUFFICES ASSUME NEW j \in 1 .. n PROVE place[s[j]] >= place[s[k]] <=> j <= k
      OBVIOUS
    <3>1. place[s[j]] \in Nat /\ place[s[k]] \in Nat
      BY <1>1, <1>2
    <3>2. (j < k => place[s[j]] > place[s[k]]) /\ (k < j => place[s[k]] > place[s[j]])
      BY <1>1, <2>1 DEF Descends
    <3> QED
      BY <1>1, <3>1, <3>2
  <2>3. f \in [1 .. k -> U]
    <3> SUFFICES ASSUME NEW j \in 1 .. k PROVE s[j] \in U
      OBVIOUS
    <3>1. j \in 1 .. n /\ j <= k
      BY <2>1
    <3> QED
      BY <1>1, <2>2, <3>1
  <2>4. f \in Injection(1 .. k, U)
    BY <1>1, <2>1, <2>3 DEF Injection, IsInjective
  <2>5. \A i \in U : \E j \in 1 .. k : f[j] = i
    <3> SUFFICES ASSUME NEW i \in U PROVE \E j \in 1 .. k : f[j] = i
      OBVIOUS
    <3>1. PICK j \in 1 .. n : s[j] = i
      BY <1>1
    <3>2. j \in 1 .. k
      BY <1>1, <2>1, <2>2, <3>1
    <3> QED
      BY <3>1, <3>2
  <2>6. f \in Surjection(1 .. k, U)
    BY <2>3, <2>5 DEF Surjection
  <2>7. ExistsBijection(1 .. k, U)
    BY <2>4, <2>6 DEF ExistsBijection, Bijection
  <2> HIDE DEF U
  <2>8. Cardinality(U) = k
    BY <2>1, <2>7, FS_CountingElements
  <2> QED
    BY <2>8 DEF Rank, U, L
<1>4. ASSUME NEW i \in L PROVE Rank(i) \in 1 .. n /\ s[Rank(i)] = i
  BY <1>1, <1>3
<1>5. \A i, j \in L : i # j => Rank(i) # Rank(j)
  BY <1>4
<1> QED
  BY <1>3, <1>4, <1>5 DEF L, s, n

\* Who comes moves those behind up by one, who goes moves them down.
LEMMA RankAfterAdd ==
  ASSUME ListTypes, NEW i \in Items, NEW p, Iter!Add(i, p), p \in Nat, p > 0
  PROVE  /\ Iter!Listed' = Iter!Listed \union {i} /\ i \notin Iter!Listed
         /\ \A j \in Iter!Listed : Rank(j)' \in {Rank(j), Rank(j) + 1}
<1>1. /\ place[i] = 0 /\ place' = [place EXCEPT ![i] = p] /\ place \in [Items -> Nat]
  BY ItemFacts DEF Iter!Add
<1>2. Iter!Listed' = Iter!Listed \union {i} /\ i \notin Iter!Listed
  BY <1>1 DEF Iter!Listed
<1>3. ASSUME NEW j \in Iter!Listed PROVE Rank(j)' \in {Rank(j), Rank(j) + 1}
  <2> DEFINE U == {k \in Iter!Listed : place[k] >= place[j]}
  <2>1. Rank(j) = Cardinality(U) /\ IsFiniteSet(U) /\ Cardinality(U) \in Nat /\ i \notin U
    BY <1>2, SortedFacts DEF Rank
  <2>2. /\ U' = {k \in Iter!Listed \union {i} : place'[k] >= place'[j]}
        /\ \A k \in Iter!Listed : place'[k] = place[k]
    <3>1. \A k \in Iter!Listed : k \in Items /\ k # i
      BY <1>2, ItemFacts
    <3> QED
      BY <1>1, <1>2, <3>1
  <2>3. U' = U \/ U' = U \union {i}
    BY <1>2, <2>2
  <2>4. Rank(j)' = Cardinality(U')
    BY DEF Rank
  <2> HIDE DEF U
  <2> QED
    BY <2>1, <2>3, <2>4, FS_AddElement
<1> QED
  BY <1>2, <1>3

LEMMA RankAfterLeave ==
  ASSUME ListTypes, NEW i \in Items, Iter!Leave(i)
  PROVE  /\ Iter!Listed' = Iter!Listed \ {i}
         /\ \A j \in Iter!Listed' : Rank(j)' \in {Rank(j), Rank(j) - 1} /\ Rank(j) \in Nat
<1>1. /\ place[i] > 0 /\ place' = [place EXCEPT ![i] = 0] /\ place \in [Items -> Nat]
  BY ItemFacts DEF Iter!Leave
<1>2. Iter!Listed' = Iter!Listed \ {i}
  BY <1>1 DEF Iter!Listed
<1>3. ASSUME NEW j \in Iter!Listed' PROVE Rank(j)' \in {Rank(j), Rank(j) - 1} /\ Rank(j) \in Nat
  <2> DEFINE U == {k \in Iter!Listed : place[k] >= place[j]}
  <2>1. Rank(j) = Cardinality(U) /\ IsFiniteSet(U) /\ Cardinality(U) \in Nat
    BY <1>2, SortedFacts DEF Rank
  <2>2. /\ U' = {k \in Iter!Listed \ {i} : place'[k] >= place'[j]}
        /\ \A k \in Iter!Listed \ {i} : place'[k] = place[k]
    <3>1. \A k \in Iter!Listed : k \in Items
      BY ItemFacts
    <3> QED
      BY <1>1, <1>2, <3>1
  <2>3. U' = U \ {i}
    BY <1>2, <2>2
  <2>4. Rank(j)' = Cardinality(U')
    BY DEF Rank
  <2> HIDE DEF U
  <2> QED
    BY <2>1, <2>3, <2>4, FS_RemoveElement
<1> QED
  BY <1>2, <1>3

LEMMA FirstOfFacts ==
  ASSUME NEW m \in Nat, NEW s \in [1 .. m -> Items], NEW n \in Nat
  PROVE  /\ Iter!FirstOf(s, n) \in Seq(Items)
         /\ Len(Iter!FirstOf(s, n)) = IF n < m THEN n ELSE m
         /\ \A k \in 1 .. Len(Iter!FirstOf(s, n)) : Iter!FirstOf(s, n)[k] = s[k]
<1> DEFINE l == IF n < m THEN n ELSE m
<1>1. l \in Nat /\ l <= m /\ 1 .. l \subseteq 1 .. m
  OBVIOUS
<1>2. Len(s) = m
  OBVIOUS
<1>3. Iter!FirstOf(s, n) = SubSeq(s, 1, l)
  BY <1>2 DEF Iter!FirstOf
<1> HIDE DEF l
<1>4. \A k \in 1 .. l : s[k] \in Items
  BY <1>1
<1>5. /\ SubSeq(s, 1, l) \in Seq(Items)
      /\ Len(SubSeq(s, 1, l)) = IF 1 <= l THEN l - 1 + 1 ELSE 0
      /\ \A k \in 1 .. l - 1 + 1 : SubSeq(s, 1, l)[k] = s[1 + k - 1]
  BY <1>1, <1>4, SubSeqProperties
<1>6. Len(SubSeq(s, 1, l)) = l /\ \A k \in 1 .. l : SubSeq(s, 1, l)[k] = s[k]
  BY <1>1, <1>5
<1> QED
  BY <1>3, <1>5, <1>6 DEF l

\* A request for members is answered with the next numbers.
LEMMA MembersPage ==
  ASSUME ListTypes, kind = "members", NEW n \in Nat
  PROVE  /\ Iter!Page(n) \in Seq(Items) /\ Len(Iter!Page(n)) <= n
         /\ Len(Iter!Page(n)) < n => \A i \in Iter!Listed : Rank(i) <= offset + Len(Iter!Page(n))
         /\ \A k \in 1 .. Len(Iter!Page(n)) :
              Iter!Page(n)[k] \in Iter!Listed /\ Rank(Iter!Page(n)[k]) = offset + k
<1> DEFINE L == Iter!Listed  s == Iter!Sorted(L)  c == Cardinality(L)
           t == SubSeq(s, offset + 1, c)
           m == IF offset < c THEN c - offset ELSE 0
<1>1. /\ c \in Nat /\ s \in [1 .. c -> L] /\ offset \in Nat /\ L \subseteq Items
      /\ \A k \in 1 .. c : Rank(s[k]) = k
      /\ \A i \in L : Rank(i) \in 1 .. c
  BY SortedFacts, RankFacts, ItemFacts
<1>2. Iter!Page(n) = Iter!FirstOf(t, n)
  BY SameCount DEF Iter!Page
<1> HIDE DEF L, s, c
<1>3. /\ t \in Seq(L) /\ Len(t) = m /\ m \in Nat
      /\ \A k \in 1 .. m : t[k] = s[offset + k] /\ offset + k \in 1 .. c
  <2>1. \A i \in offset + 1 .. c : s[i] \in L
    BY <1>1
  <2>2. /\ t \in Seq(L) /\ Len(t) = IF offset + 1 <= c THEN c - (offset + 1) + 1 ELSE 0
        /\ \A k \in 1 .. c - (offset + 1) + 1 : t[k] = s[offset + 1 + k - 1]
    BY <1>1, <2>1, SubSeqProperties
  <2> HIDE DEF t
  <2>3. Len(t) = m /\ m \in Nat
    BY <1>1, <2>2
  <2>4. ASSUME NEW k \in 1 .. m PROVE t[k] = s[offset + k] /\ offset + k \in 1 .. c
    <3>1. k \in 1 .. c - (offset + 1) + 1 /\ offset + 1 + k - 1 = offset + k
      BY <1>1, <2>4
    <3>2. t[k] = s[offset + k]
      BY <2>2, <3>1
    <3> QED
      BY <1>1, <3>1, <3>2
  <2> QED
    BY <2>2, <2>3, <2>4
<1> HIDE DEF t, m
<1>4. t \in [1 .. m -> L]
  BY <1>3, LenProperties
<1> DEFINE p == Iter!FirstOf(t, n)
<1>5. /\ p \in Seq(Items) /\ Len(p) = IF n < m THEN n ELSE m
      /\ \A k \in 1 .. Len(p) : p[k] = t[k]
  <2>1. t \in [1 .. m -> Items]
    <3>1. L \subseteq Items
      BY <1>1
    <3> QED
      BY <1>4, <3>1
  <2>2. m \in Nat
    BY <1>3
  <2> QED
    BY <2>1, <2>2, FirstOfFacts
<1> HIDE DEF p
<1>7. Len(p) <= n /\ (Len(p) < n => \A i \in L : Rank(i) <= offset + Len(p))
  <2>1. Len(p) <= n /\ (Len(p) < n => Len(p) = m)
    BY <1>3, <1>5
  <2>2. c <= offset + m
    BY <1>1 DEF m
  <2> QED
    BY <1>1, <1>3, <2>1, <2>2
<1>8. ASSUME NEW k \in 1 .. Len(p) PROVE p[k] \in L /\ Rank(p[k]) = offset + k
  <2>1. k \in 1 .. m /\ p[k] = t[k]
    BY <1>3, <1>5
  <2> QED
    BY <2>1, <1>1, <1>3, <1>4
<1> QED
  BY <1>2, <1>5, <1>7, <1>8 DEF L, p

Behind == {i \in Iter!Listed : offset = 0 \/ place[i] < offset}

\* A request for messages or dialogs is answered with the next ones, each once.
LEMMA PlacesPage ==
  ASSUME ListTypes, kind # "members", NEW n \in Nat, n > 0
  PROVE  /\ Iter!Page(n) \in Seq(Items) /\ Len(Iter!Page(n)) <= n
         /\ Iter!Page(n) = << >> => Behind = {}
         /\ \A k \in 1 .. Len(Iter!Page(n)) : Iter!Page(n)[k] \in Behind
         /\ \A j, k \in 1 .. Len(Iter!Page(n)) : j # k => Iter!Page(n)[j] # Iter!Page(n)[k]
         /\ \A i \in Behind : \A k \in 1 .. Len(Iter!Page(n)) :
              place[i] >= place[Iter!Page(n)[k]] =>
                \E j \in 1 .. Len(Iter!Page(n)) : Iter!Page(n)[j] = i
         /\ \A j, k \in 1 .. Len(Iter!Page(n)) : j < k =>
              place[Iter!Page(n)[j]] > place[Iter!Page(n)[k]]
<1> DEFINE s == Iter!Sorted(Behind)  c == Cardinality(Behind)  p == Iter!FirstOf(s, n)
<1>1. Iter!Page(n) = p
  BY DEF Iter!Page, Behind
<1>2. Behind \in SUBSET Iter!Listed /\ Behind \subseteq Items
  BY ItemFacts DEF Behind
<1>3. /\ c \in Nat /\ s \in [1 .. c -> Behind] /\ Descends(place, s) /\ IsFiniteSet(Behind)
      /\ \A j, k \in 1 .. c : j # k => s[j] # s[k]
      /\ \A i \in Behind : \E k \in 1 .. c : s[k] = i
  BY <1>2, SortedFacts
<1>4. \A i \in Behind : place[i] \in Nat
  BY <1>2, ItemFacts
<1>5. Behind # {} => c > 0
  BY <1>3, FS_EmptySet
<1> HIDE DEF s, c
<1>6. /\ p \in Seq(Items) /\ Len(p) = IF n < c THEN n ELSE c
      /\ \A k \in 1 .. Len(p) : p[k] = s[k]
  <2>1. s \in [1 .. c -> Items]
    <3>1. s \in [1 .. c -> Behind]
      BY <1>3
    <3> QED
      BY <1>2, <3>1
  <2>2. c \in Nat
    BY <1>3
  <2> QED
    BY <2>1, <2>2, FirstOfFacts
<1> HIDE DEF p
<1>8. 1 .. Len(p) \subseteq 1 .. c /\ Len(p) \in Nat /\ Len(p) <= n /\ DOMAIN s = 1 .. c
  BY <1>3, <1>6
<1>9. p = << >> => Behind = {}
  <2>1. p = << >> => Len(p) = 0
    OBVIOUS
  <2> QED
    BY <2>1, <1>3, <1>5, <1>6
<1>10. ASSUME NEW j \in 1 .. Len(p), NEW k \in 1 .. Len(p)
       PROVE  /\ p[k] \in Behind /\ (j # k => p[j] # p[k])
              /\ j < k => place[p[j]] > place[p[k]]
  BY <1>3, <1>6, <1>8 DEF Descends
<1>11. ASSUME NEW i \in Behind, NEW k \in 1 .. Len(p), place[i] >= place[p[k]]
       PROVE  \E j \in 1 .. Len(p) : p[j] = i
  <2>1. PICK j \in 1 .. c : s[j] = i
    BY <1>3
  <2>2. ~ (k < j)
    <3>1. k < j => place[s[k]] > place[s[j]]
      BY <1>3, <1>8 DEF Descends
    <3>2. place[i] \in Nat /\ place[s[k]] \in Nat /\ p[k] = s[k]
      BY <1>3, <1>4, <1>6, <1>8
    <3> QED
      BY <1>11, <2>1, <3>1, <3>2
  <2>3. j \in 1 .. Len(p)
    BY <1>8, <2>2
  <2> QED
    BY <1>6, <2>1, <2>3
<1> QED
  BY <1>1, <1>6, <1>8, <1>9, <1>10, <1>11

\* The same, after a step that keeps the sequence apart from its first item.
LEMMA FetchedAfterGive ==
  ASSUME NEW S, NEW o \in Seq(S), NEW b \in Seq(S), b # << >>
  PROVE  /\ Append(o, Head(b)) \o Tail(b) = o \o b
         /\ Append(o, Head(b)) \in Seq(S) /\ Tail(b) \in Seq(S)
         /\ Len(Append(o, Head(b))) = Len(o) + 1 /\ Len(Tail(b)) = Len(b) - 1 /\ Len(b) > 0
<1>1. /\ Head(b) \in S /\ Head(b) = b[1] /\ Tail(b) \in Seq(S) /\ Len(Tail(b)) = Len(b) - 1
      /\ Len(b) \in Nat /\ Len(o) \in Nat /\ Len(b) > 0
      /\ \A i \in 1 .. Len(b) - 1 : Tail(b)[i] = b[i + 1]
  <2>1. Len(b) \in Nat /\ Len(o) \in Nat /\ Len(b) > 0
    BY LenProperties, EmptySeq
  <2>2. /\ Head(b) \in S /\ Tail(b) \in Seq(S) /\ Len(Tail(b)) = Len(b) - 1
        /\ \A i \in 1 .. Len(Tail(b)) : Tail(b)[i] = b[i + 1]
    BY HeadTailProperties
  <2>3. Head(b) = b[1]
    OBVIOUS
  <2> QED
    BY <2>1, <2>2, <2>3
<1> DEFINE a == Append(o, Head(b))
<1>2. /\ a \in Seq(S) /\ Len(a) = Len(o) + 1
      /\ \A i \in 1 .. Len(o) : a[i] = o[i]
      /\ a[Len(o) + 1] = b[1]
  BY <1>1, AppendProperties
<1> HIDE DEF a
<1>3. /\ a \o Tail(b) \in Seq(S) /\ o \o b \in Seq(S)
      /\ Len(a \o Tail(b)) = Len(o) + 1 + (Len(b) - 1) /\ Len(o \o b) = Len(o) + Len(b)
      /\ \A i \in 1 .. Len(o) + Len(b) :
           (a \o Tail(b))[i] = IF i <= Len(o) + 1 THEN a[i] ELSE Tail(b)[i - (Len(o) + 1)]
      /\ \A i \in 1 .. Len(o) + Len(b) :
           (o \o b)[i] = IF i <= Len(o) THEN o[i] ELSE b[i - Len(o)]
  <2>1. /\ a \o Tail(b) \in Seq(S) /\ Len(a \o Tail(b)) = Len(a) + Len(Tail(b))
        /\ \A i \in 1 .. Len(a) + Len(Tail(b)) :
             (a \o Tail(b))[i] = IF i <= Len(a) THEN a[i] ELSE Tail(b)[i - Len(a)]
    BY <1>1, <1>2, ConcatProperties
  <2>2. /\ o \o b \in Seq(S) /\ Len(o \o b) = Len(o) + Len(b)
        /\ \A i \in 1 .. Len(o) + Len(b) :
             (o \o b)[i] = IF i <= Len(o) THEN o[i] ELSE b[i - Len(o)]
    BY ConcatProperties
  <2>3. Len(a) = Len(o) + 1 /\ Len(Tail(b)) = Len(b) - 1 /\ Len(a) + Len(Tail(b)) = Len(o) + Len(b)
    BY <1>1, <1>2
  <2> HIDE DEF a
  <2> QED
    BY <1>1, <2>1, <2>2, <2>3
<1>4. ASSUME NEW i \in 1 .. Len(o) + Len(b) PROVE (a \o Tail(b))[i] = (o \o b)[i]
  <2>1. CASE i <= Len(o)
    BY <1>1, <1>2, <1>3, <2>1
  <2>2. CASE i = Len(o) + 1
    BY <1>1, <1>2, <1>3, <2>2
  <2>3. CASE i > Len(o) + 1
    <3>1. i - (Len(o) + 1) \in 1 .. Len(b) - 1 /\ i - (Len(o) + 1) + 1 = i - Len(o)
      BY <1>1, <2>3
    <3>2. (a \o Tail(b))[i] = Tail(b)[i - (Len(o) + 1)] /\ (o \o b)[i] = b[i - Len(o)]
      BY <1>1, <1>3, <2>3
    <3> QED
      BY <1>1, <3>1, <3>2
  <2>4. Len(o) \in Nat /\ i \in Nat
    BY <1>1
  <2>5. i <= Len(o) \/ i = Len(o) + 1 \/ i > Len(o) + 1
    BY <2>4
  <2> QED
    BY <2>1, <2>2, <2>3, <2>5
<1>5. a \o Tail(b) = o \o b
  <2> DEFINE l == a \o Tail(b)  r == o \o b
  <2>1. l \in Seq(S) /\ r \in Seq(S) /\ Len(l) = Len(o) + Len(b) /\ Len(r) = Len(o) + Len(b)
    BY <1>1, <1>3
  <2>2. \A i \in 1 .. Len(o) + Len(b) : l[i] = r[i]
    BY <1>4
  <2> HIDE DEF l, r
  <2>3. l = r
    BY <2>1, <2>2, SeqEqual
  <2> QED
    BY <2>3 DEF l, r
<1> QED
  BY <1>1, <1>2, <1>5 DEF a

LEMMA IterInit == ASSUME Iter!IterateAssumption, Iter!Init PROVE IterInv
<1>1. /\ Items \subseteq Nat \ {0} /\ IsFiniteSet(Items) /\ Cardinality(Items) \in Nat
      /\ Batches \subseteq Nat \ {0} /\ Limits \subseteq Nat /\ MaxChanges \in Nat
  BY SameCount, FS_CardinalityType DEF Iter!IterateAssumption
<1>2. /\ kind \in {"messages", "dialogs", "members"} /\ batch \in Batches /\ limit \in Limits
      /\ steady = Iter!Listed /\ added = 0 /\ removed = 0 /\ offset = 0 /\ left = limit
      /\ buf = << >> /\ full = TRUE /\ given = << >> /\ state = "ready"
  BY DEF Iter!Init
<1>3. PICK n \in 0 .. Cardinality(Items) : place = [i \in Items |-> IF i <= n THEN 2 * i ELSE 0]
  BY SameCount DEF Iter!Init
<1>4. ASSUME NEW i \in Items
      PROVE  /\ place[i] \in Iter!Places \union {0}
             /\ place[i] > 0 => place[i] = 2 * i
  <2>1. i \in Nat /\ i > 0 /\ Iter!Places = 1 .. 2 * Cardinality(Items) + MaxChanges
    BY <1>1, SameCount DEF Iter!Places
  <2> QED
    BY <1>1, <1>3, <2>1
<1>5. ListTypes
  <2>1. place \in [Items -> Iter!Places \union {0}]
    BY <1>3, <1>4
  <2>2. buf \in Seq(Items) /\ given \in Seq(Items)
    BY <1>2, EmptySeq
  <2>3. limit \in Nat /\ left \in 0 .. limit /\ added + removed \in 0 .. MaxChanges
    BY <1>1, <1>2
  <2>4. Iter!TypeOK
    BY <1>2, <2>1, <2>2, <2>3 DEF Iter!TypeOK
  <2>5. ASSUME NEW i \in Iter!Listed, NEW j \in Iter!Listed, i # j PROVE place[i] # place[j]
    <3>1. i \in Items /\ j \in Items /\ place[i] > 0 /\ place[j] > 0
      BY DEF Iter!Listed
    <3>2. i \in Nat /\ j \in Nat /\ place[i] = 2 * i /\ place[j] = 2 * j
      BY <1>1, <1>4, <3>1
    <3> QED
      BY <2>5, <3>2
  <2> QED
    BY <1>2, <2>4, <2>5 DEF ListTypes
<1>6. Fetched = << >> /\ Len(Fetched) = 0 /\ \A i : ~ Has(Fetched, i) /\ ~ Twice(Fetched, i)
  BY <1>2 DEF Fetched, Has, Twice
<1>7. LimitKept
  <2>1. Len(given) = 0 /\ Len(buf) = 0 /\ limit \in Nat
    BY <1>1, <1>2
  <2> QED
    BY <1>2, <2>1 DEF LimitKept
<1>8. EndReached
  BY <1>2 DEF EndReached
<1>9. PlacesFetched
  BY <1>2, <1>6 DEF PlacesFetched
<1>10. NumbersFetched
  <2>1. Hidden = {}
    <3>1. \A i \in steady : Rank(i) \in 1 .. Cardinality(Iter!Listed)
      BY <1>2, <1>5, RankFacts
    <3> QED
      BY <1>2, <3>1 DEF Hidden
  <2>2. Repeated = {}
    BY <1>6 DEF Repeated
  <2> QED
    BY <1>2, <1>6, <2>1, <2>2, FS_EmptySet DEF NumbersFetched
<1> QED
  BY <1>5, <1>7, <1>8, <1>9, <1>10 DEF IterInv

\* A set of items that has got at most one more, and that one of a given number.
LEMMA OneMore ==
  ASSUME ListTypes, NEW S \in SUBSET Iter!Listed, NEW T, NEW n,
         \A i \in T : i \in S \/ (i \in Iter!Listed /\ Rank(i) = n)
  PROVE  IsFiniteSet(T) /\ Cardinality(T) \in Nat /\ Cardinality(T) <= Cardinality(S) + 1
<1> DEFINE x == CHOOSE i \in Iter!Listed : Rank(i) = n
<1>1. \A i \in Iter!Listed : Rank(i) = n => i = x
  <2> SUFFICES ASSUME NEW i \in Iter!Listed, Rank(i) = n PROVE i = x
    OBVIOUS
  <2>1. x \in Iter!Listed /\ Rank(x) = n
    OBVIOUS
  <2> QED
    BY <2>1, RankFacts
<1>2. T \in SUBSET (S \union {x})
  BY <1>1
<1> HIDE DEF x
<1>3. IsFiniteSet(S) /\ Cardinality(S) \in Nat
  BY SortedFacts
<1>4. /\ IsFiniteSet(S \union {x}) /\ Cardinality(S \union {x}) <= Cardinality(S) + 1
      /\ Cardinality(S \union {x}) \in Nat
  <2>1. /\ IsFiniteSet(S \union {x})
        /\ Cardinality(S \union {x}) = IF x \in S THEN Cardinality(S) ELSE Cardinality(S) + 1
    BY <1>3, FS_AddElement
  <2> QED
    BY <1>3, <2>1
<1>5. IsFiniteSet(T) /\ Cardinality(T) <= Cardinality(S \union {x}) /\ Cardinality(T) \in Nat
  BY <1>2, <1>4, FS_Subset, FS_CardinalityType
<1> QED
  BY <1>3, <1>4, <1>5

\* A set of items that has got none.
LEMMA NoMore ==
  ASSUME ListTypes, NEW S \in SUBSET Iter!Listed, NEW T \in SUBSET S
  PROVE  /\ Cardinality(T) \in Nat /\ Cardinality(S) \in Nat /\ Cardinality(T) <= Cardinality(S)
  BY SortedFacts, FS_Subset, FS_CardinalityType

\* What every change of the list keeps.
LEMMA ChangeFacts ==
  ASSUME IterInv, NEW i \in Items, NEW p \in Iter!Places,
         Iter!Add(i, p) \/ Iter!Move(i, p) \/ Iter!Leave(i)
  PROVE  /\ ListTypes' /\ LimitKept' /\ Fetched' = Fetched /\ offset' = offset /\ full' = full
         /\ kind' = kind /\ given' = given /\ state' = state /\ limit' = limit
         /\ steady' \subseteq steady /\ removed <= removed'
         /\ \A j \in steady' : j # i /\ place'[j] = place[j]
<1>1. /\ ListTypes /\ LimitKept
      /\ added + removed < MaxChanges /\ UNCHANGED <<offset, left, buf, full, given, state>>
      /\ UNCHANGED <<kind, batch, limit>>
  BY DEF IterInv, Iter!Add, Iter!Move, Iter!Leave, Iter!Change, Iter!cursor, Iter!choice
<1>2. /\ Items \subseteq Nat \ {0} /\ place \in [Items -> Nat] /\ MaxChanges \in Nat
      /\ added \in Nat /\ removed \in Nat /\ steady \subseteq Iter!Listed /\ Iter!Listed \subseteq Items
      /\ Cardinality(Items) \in Nat /\ Iter!Places = 1 .. 2 * Cardinality(Items) + MaxChanges
  BY <1>1, ItemFacts
<1>3. PICK q \in {0, p} :
        /\ place' = [place EXCEPT ![i] = q]
        /\ q # 0 => \A j \in Items : place[j] # p
  BY DEF Iter!Add, Iter!Move, Iter!Leave
<1>4. \/ steady' = steady /\ place[i] = 0 /\ added' = added + 1 /\ removed' = removed
      \/ steady' = steady \ {i} /\ added' = added + 1 /\ removed' = removed
      \/ steady' = steady \ {i} /\ added' = added /\ removed' = removed + 1
  BY DEF Iter!Add, Iter!Move, Iter!Leave
<1>5. \A j \in Items : j # i => place'[j] = place[j]
  BY <1>2, <1>3
<1>6. p \in Nat /\ p > 0 /\ place'[i] = q /\ DOMAIN place' = Items
  BY <1>2, <1>3
<1>7. steady' \subseteq steady /\ i \notin steady'
  BY <1>2, <1>4 DEF Iter!Listed
<1>8. place' \in [Items -> Iter!Places \union {0}]
  <2>1. place \in [Items -> Iter!Places \union {0}]
    BY <1>1 DEF ListTypes, Iter!TypeOK
  <2> QED
    BY <1>3, <2>1
<1>9. steady' \subseteq Iter!Listed'
  <2> SUFFICES ASSUME NEW j \in steady' PROVE j \in Iter!Listed'
    OBVIOUS
  <2>1. j \in Items /\ place[j] > 0 /\ j # i
    BY <1>2, <1>7 DEF Iter!Listed
  <2> QED
    BY <1>5, <2>1 DEF Iter!Listed
<1>10. added' + removed' \in 0 .. MaxChanges /\ added' \in Nat /\ removed' \in Nat /\ removed <= removed'
  <2>1. added + removed < MaxChanges /\ added \in Nat /\ removed \in Nat /\ MaxChanges \in Nat
    BY <1>1, <1>2
  <2>2. (added' = added + 1 /\ removed' = removed) \/ (added' = added /\ removed' = removed + 1)
    BY <1>4
  <2> QED
    BY <2>1, <2>2
<1>11. \A j, k \in Iter!Listed' : j # k => place'[j] # place'[k]
  <2> SUFFICES ASSUME NEW j \in Iter!Listed', NEW k \in Iter!Listed', j # k
               PROVE  place'[j] # place'[k]
    OBVIOUS
  <2>1. j \in Items /\ k \in Items /\ place'[j] > 0 /\ place'[k] > 0
    BY DEF Iter!Listed
  <2>2. CASE j # i /\ k # i
    <3>1. j \in Iter!Listed /\ k \in Iter!Listed
      BY <1>5, <2>1, <2>2 DEF Iter!Listed
    <3> QED
      BY <1>1, <1>5, <2>1, <2>2, <3>1 DEF ListTypes
  <2>3. CASE j = i \/ k = i
    <3>1. q = p
      BY <1>6, <2>1, <2>3
    <3> QED
      BY <1>3, <1>5, <1>6, <2>1, <2>3, <3>1
  <2> QED
    BY <2>2, <2>3
<1>12. ListTypes'
  <2>1. Iter!TypeOK'
    <3>1. /\ kind' \in {"messages", "dialogs", "members"} /\ batch' \in Batches /\ limit' \in Limits
          /\ offset' \in Nat /\ left' \in 0 .. limit' /\ buf' \in Seq(Items) /\ given' \in Seq(Items)
          /\ full' \in BOOLEAN /\ state' \in {"ready", "done", "failed"}
      BY <1>1 DEF ListTypes, Iter!TypeOK
    <3> QED
      BY <1>8, <1>9, <1>10, <3>1 DEF Iter!TypeOK, Iter!Places
  <2>2. Iter!IterateAssumption
    BY <1>1 DEF ListTypes
  <2> QED
    BY <1>10, <1>11, <2>1, <2>2 DEF ListTypes
<1>13. LimitKept' /\ Fetched' = Fetched
  BY <1>1 DEF LimitKept, Fetched
<1> QED
  BY <1>1, <1>2, <1>5, <1>7, <1>10, <1>12, <1>13

LEMMA ChangeEnd ==
  ASSUME IterInv, ListTypes', given' = given, state' = state, limit' = limit, kind' = kind,
         steady' \subseteq steady, removed <= removed'
  PROVE  EndReached'
<1> SUFFICES ASSUME state' = "done", ~ Iter!Reached'
             PROVE  Cardinality({i \in steady' : ~ Has(given, i)})
                      <= IF kind = "members" THEN removed' ELSE 0
  <2>1. {i \in steady : ~ Has(given, i)}' = {i \in steady' : ~ Has(given, i)}
    BY DEF Has
  <2> QED
    BY <2>1 DEF EndReached
<1>1. ListTypes /\ EndReached /\ state = "done" /\ ~ Iter!Reached
  BY DEF IterInv, Iter!Reached
<1>2. Cardinality({i \in steady : ~ Has(given, i)}) <= IF kind = "members" THEN removed ELSE 0
  BY <1>1 DEF EndReached
<1> DEFINE S == {i \in steady : ~ Has(given, i)}  T == {i \in steady' : ~ Has(given, i)}
<1>3. S \in SUBSET Iter!Listed /\ T \in SUBSET S
  BY <1>1, ItemFacts
<1> HIDE DEF S, T
<1>4. Cardinality(T) \in Nat /\ Cardinality(S) \in Nat /\ Cardinality(T) <= Cardinality(S)
  BY <1>1, <1>3, NoMore
<1>5. removed \in Nat /\ removed' \in Nat
  BY <1>1 DEF ListTypes
<1> QED
  BY <1>2, <1>4, <1>5 DEF S, T

LEMMA ChangePlaces ==
  ASSUME IterInv, kind # "members", Fetched' = Fetched, offset' = offset, steady' \subseteq steady,
         \A j \in steady' : place'[j] = place[j]
  PROVE  PlacesFetched'
<1>1. PlacesFetched
  BY DEF IterInv
<1>2. ASSUME NEW i \in steady'
      PROVE  (Has(Fetched, i) <=> (offset # 0 /\ place[i] >= offset)) /\ ~ Twice(Fetched, i)
  BY <1>1 DEF PlacesFetched
<1> QED
  BY <1>1, <1>2 DEF PlacesFetched, Has, Twice

\* The sets that are counted are of the list.
LEMMA CountedListed ==
  ASSUME ListTypes
  PROVE  Hidden \in SUBSET Iter!Listed /\ Repeated \in SUBSET Iter!Listed /\ Unfetched \in SUBSET Iter!Listed
  BY ItemFacts DEF Hidden, Repeated, Unfetched

LEMMA AddNumbers ==
  ASSUME IterInv, kind = "members", NEW i \in Items, NEW p \in Iter!Places, Iter!Add(i, p)
  PROVE  NumbersFetched'
<1>1. /\ ListTypes /\ NumbersFetched
  BY DEF IterInv
<1>2. /\ ListTypes' /\ Fetched' = Fetched /\ offset' = offset /\ full' = full
      /\ steady' = steady /\ removed' = removed /\ added' = added + 1
  BY ChangeFacts DEF Iter!Add
<1>3. /\ offset \in Nat /\ added \in Nat /\ removed \in Nat /\ steady \subseteq Iter!Listed
      /\ p \in Nat /\ p > 0
  BY <1>1, ItemFacts, SMTT(30)
<1>4. /\ \A j \in Iter!Listed : Rank(j)' \in {Rank(j), Rank(j) + 1}
      /\ \A j \in Iter!Listed : Rank(j) \in Nat
  <2>1. \A j \in Iter!Listed : Rank(j)' \in {Rank(j), Rank(j) + 1}
    BY <1>1, <1>3, RankAfterAdd
  <2>2. \A j \in Iter!Listed : Rank(j) \in 1 .. Cardinality(Iter!Listed)
    BY <1>1, RankFacts
  <2> QED
    BY <2>1, <2>2
<1>5. Hidden' \in SUBSET Hidden
  <2>1. Hidden' = {j \in steady : Rank(j)' <= offset /\ ~ Has(Fetched, j)}
    BY <1>2 DEF Hidden, Has
  <2> QED
    BY <1>3, <1>4, <2>1 DEF Hidden
<1>6. \A j \in Repeated' : j \in Repeated \/ (j \in Iter!Listed /\ Rank(j) = offset)
  <2>1. Repeated' = {j \in steady : Twice(Fetched, j) \/ (Has(Fetched, j) /\ Rank(j)' > offset)}
    BY <1>2 DEF Repeated, Has, Twice
  <2> QED
    BY <1>3, <1>4, <2>1 DEF Repeated
<1>7. Unfetched' = Unfetched
  BY <1>2 DEF Unfetched, Has
<1>8. Hidden \in SUBSET Iter!Listed /\ Repeated \in SUBSET Iter!Listed
  BY <1>1, CountedListed
<1>9. /\ Cardinality(Hidden') <= Cardinality(Hidden) /\ Cardinality(Hidden) \in Nat
      /\ Cardinality(Hidden') \in Nat
  BY <1>1, <1>5, <1>8, NoMore
<1>10. Cardinality(Repeated') \in Nat /\ Cardinality(Repeated') <= Cardinality(Repeated) + 1
  BY <1>1, <1>6, <1>8, OneMore
<1>11. Cardinality(Repeated) \in Nat
  BY <1>1, <1>8, SortedFacts
<1>12. /\ offset = Len(Fetched) /\ Cardinality(Hidden) <= removed
       /\ Cardinality(Repeated) <= added /\ (~ full => Cardinality(Unfetched) <= removed)
  BY <1>1 DEF NumbersFetched
<1>13. Cardinality(Hidden') <= removed /\ Cardinality(Repeated') <= added + 1
  BY <1>3, <1>9, <1>10, <1>11, <1>12
<1> QED
  BY <1>2, <1>7, <1>12, <1>13 DEF NumbersFetched

LEMMA LeaveNumbers ==
  ASSUME IterInv, kind = "members", NEW i \in Items, Iter!Leave(i), ListTypes',
         Fetched' = Fetched, offset' = offset, full' = full
  PROVE  NumbersFetched'
<1>1. /\ ListTypes /\ NumbersFetched
  BY DEF IterInv
<1>2. steady' = steady \ {i} /\ removed' = removed + 1 /\ added' = added
  BY DEF Iter!Leave
<1>3. /\ offset \in Nat /\ added \in Nat /\ removed \in Nat /\ steady \subseteq Iter!Listed
  BY <1>1, ItemFacts
<1>4. \A j \in steady' : Rank(j)' \in {Rank(j), Rank(j) - 1} /\ Rank(j) \in Nat
  <2>1. steady' \subseteq Iter!Listed'
    BY <1>1, <1>2, <1>3, RankAfterLeave
  <2> QED
    BY <1>1, <2>1, RankAfterLeave
<1>5. \A j \in Hidden' : j \in Hidden \/ (j \in Iter!Listed /\ Rank(j) = offset + 1)
  <2>1. Hidden' = {j \in steady' : Rank(j)' <= offset /\ ~ Has(Fetched, j)}
    BY DEF Hidden, Has
  <2> QED
    BY <1>2, <1>3, <1>4, <2>1 DEF Hidden
<1>6. Repeated' \in SUBSET Repeated
  <2>1. Repeated' = {j \in steady' : Twice(Fetched, j) \/ (Has(Fetched, j) /\ Rank(j)' > offset)}
    BY DEF Repeated, Has, Twice
  <2> QED
    BY <1>2, <1>3, <1>4, <2>1 DEF Repeated
<1>7. Unfetched' \in SUBSET Unfetched
  BY <1>2 DEF Unfetched, Has
<1>8. /\ Hidden \in SUBSET Iter!Listed /\ Repeated \in SUBSET Iter!Listed
      /\ Unfetched \in SUBSET Iter!Listed
  BY <1>1, CountedListed
<1>9. /\ Cardinality(Repeated') <= Cardinality(Repeated) /\ Cardinality(Repeated) \in Nat
      /\ Cardinality(Repeated') \in Nat
      /\ Cardinality(Unfetched') <= Cardinality(Unfetched) /\ Cardinality(Unfetched) \in Nat
      /\ Cardinality(Unfetched') \in Nat
  BY <1>1, <1>6, <1>7, <1>8, NoMore
<1>10. Cardinality(Hidden') \in Nat /\ Cardinality(Hidden') <= Cardinality(Hidden) + 1
  BY <1>1, <1>5, <1>8, OneMore
<1>11. Cardinality(Hidden) \in Nat
  BY <1>1, <1>8, SortedFacts
<1>12. /\ offset = Len(Fetched) /\ Cardinality(Hidden) <= removed
       /\ Cardinality(Repeated) <= added /\ (~ full => Cardinality(Unfetched) <= removed)
  BY <1>1 DEF NumbersFetched
<1>13. /\ Cardinality(Hidden') <= removed + 1 /\ Cardinality(Repeated') <= added
       /\ ~ full => Cardinality(Unfetched') <= removed + 1
  BY <1>3, <1>9, <1>10, <1>11, <1>12
<1> QED
  BY <1>2, <1>12, <1>13 DEF NumbersFetched

LEMMA ChangesKeep ==
  ASSUME IterInv, NEW i \in Items, NEW p \in Iter!Places,
         Iter!Add(i, p) \/ Iter!Move(i, p) \/ Iter!Leave(i)
  PROVE  IterInv'
<1>1. /\ ListTypes' /\ LimitKept' /\ Fetched' = Fetched /\ offset' = offset /\ full' = full
      /\ kind' = kind /\ given' = given /\ state' = state /\ limit' = limit
      /\ steady' \subseteq steady /\ removed <= removed'
      /\ \A j \in steady' : place'[j] = place[j]
  BY ChangeFacts
<1>2. EndReached'
  BY <1>1, ChangeEnd
<1>3. ASSUME kind # "members" PROVE PlacesFetched'
  BY <1>1, <1>3, ChangePlaces
<1>4. ASSUME kind = "members" PROVE NumbersFetched'
  <2>1. CASE Iter!Add(i, p)
    BY <1>4, <2>1, AddNumbers
  <2>2. CASE Iter!Leave(i)
    BY <1>1, <1>4, <2>2, LeaveNumbers
  <2>3. CASE Iter!Move(i, p)
    BY <1>4, <2>3 DEF Iter!Move
  <2> QED
    BY <2>1, <2>2, <2>3
<1> QED
  BY <1>1, <1>2, <1>3, <1>4 DEF IterInv

\* What is in two sequences, one after the other.
LEMMA HasConcat ==
  ASSUME NEW a \in Seq(Items), NEW b \in Seq(Items), NEW i
  PROVE  /\ Has(a \o b, i) <=> Has(a, i) \/ Has(b, i)
         /\ Twice(a \o b, i) => Twice(a, i) \/ Twice(b, i) \/ (Has(a, i) /\ Has(b, i))
         /\ Twice(a, i) => Twice(a \o b, i)
<1> DEFINE c == a \o b  m == Len(a)  n == Len(b)
<1>1. /\ m \in Nat /\ n \in Nat /\ DOMAIN a = 1 .. m /\ DOMAIN b = 1 .. n
      /\ c \in Seq(Items) /\ Len(c) = m + n
      /\ \A j \in 1 .. m + n : c[j] = IF j <= m THEN a[j] ELSE b[j - m]
  BY LenProperties, ConcatProperties
<1>2. DOMAIN c = 1 .. m + n
  BY <1>1, LenProperties
<1> HIDE DEF c, m, n
<1>3. ASSUME NEW j \in 1 .. m + n
      PROVE  IF j \in 1 .. m THEN c[j] = a[j] ELSE j - m \in 1 .. n /\ c[j] = b[j - m]
  <2>1. CASE j <= m
    BY <1>1, <2>1
  <2>2. CASE j > m
    BY <1>1, <2>2
  <2> QED
    BY <1>1, <2>1, <2>2
<1>4. \A j \in 1 .. m : j \in 1 .. m + n /\ c[j] = a[j]
  BY <1>1
<1>5. \A j \in 1 .. n : j + m \in 1 .. m + n /\ c[j + m] = b[j]
  BY <1>1
<1>6. Has(c, i) <=> Has(a, i) \/ Has(b, i)
  <2>1. Has(c, i) => Has(a, i) \/ Has(b, i)
    BY <1>1, <1>2, <1>3 DEF Has
  <2>2. Has(a, i) => Has(c, i)
    BY <1>1, <1>2, <1>4 DEF Has
  <2>3. Has(b, i) => Has(c, i)
    BY <1>1, <1>2, <1>5 DEF Has
  <2> QED
    BY <2>1, <2>2, <2>3
<1>7. ASSUME Twice(c, i) PROVE Twice(a, i) \/ Twice(b, i) \/ (Has(a, i) /\ Has(b, i))
  <2>1. PICK j \in 1 .. m + n, k \in 1 .. m + n : j # k /\ c[j] = i /\ c[k] = i
    BY <1>2, <1>7 DEF Twice
  <2>2. CASE j \in 1 .. m /\ k \in 1 .. m
    BY <1>1, <1>4, <2>1, <2>2 DEF Twice
  <2>3. CASE j \notin 1 .. m /\ k \notin 1 .. m
    <3>1. /\ j - m \in 1 .. n /\ b[j - m] = i /\ k - m \in 1 .. n /\ b[k - m] = i
          /\ j - m # k - m
      BY <1>1, <1>3, <2>1, <2>3
    <3> QED
      BY <1>1, <3>1 DEF Twice
  <2>4. CASE j \in 1 .. m /\ k \notin 1 .. m
    BY <1>1, <1>3, <2>1, <2>4 DEF Has
  <2>5. CASE j \notin 1 .. m /\ k \in 1 .. m
    BY <1>1, <1>3, <2>1, <2>5 DEF Has
  <2> QED
    BY <2>2, <2>3, <2>4, <2>5
<1>8. Twice(a, i) => Twice(c, i)
  BY <1>1, <1>2, <1>4 DEF Twice
<1> QED
  BY <1>6, <1>7, <1>8 DEF c

\* Giving the first of some items to the caller.
LEMMA GiveKeeps ==
  ASSUME IterInv, state = "ready", NEW items \in Seq(Items), items # << >>, Iter!Give(items),
         UNCHANGED <<Iter!list, Iter!choice>>, offset' \in Nat, full' \in BOOLEAN,
         kind # "members" => full' /\ (limit > 0 => Len(items) <= left)
  PROVE  ListTypes' /\ LimitKept' /\ EndReached' /\ Fetched' = given \o items
<1>1. /\ ListTypes /\ LimitKept
      /\ UNCHANGED <<place, steady, added, removed, kind, batch, limit>>
  BY DEF IterInv, Iter!list, Iter!choice
<1>2. /\ limit \in Nat /\ left \in Nat /\ left <= limit /\ given \in Seq(Items) /\ buf \in Seq(Items)
  BY <1>1, ItemFacts
<1>3. /\ given' = Append(given, Head(items)) /\ buf' = Tail(items)
      /\ left' = IF left > 0 THEN left - 1 ELSE 0
      /\ state' = IF kind = "members" /\ left = 1 THEN "done" ELSE "ready"
  BY DEF Iter!Give
<1>4. /\ given' \o buf' = given \o items
      /\ given' \in Seq(Items) /\ buf' \in Seq(Items)
      /\ Len(given') = Len(given) + 1 /\ Len(buf') = Len(items) - 1 /\ Len(items) > 0
  BY <1>2, <1>3, FetchedAfterGive, SMTT(30)
<1>5. left' \in 0 .. limit /\ left' \in Nat
  BY <1>2, <1>3
<1>6. ListTypes'
  <2>1. Iter!TypeOK'
    <3>1. /\ kind' \in {"messages", "dialogs", "members"} /\ batch' \in Batches /\ limit' \in Limits
          /\ place' \in [Items -> Iter!Places \union {0}] /\ steady' \subseteq Iter!Listed'
          /\ added' + removed' \in 0 .. MaxChanges
      BY <1>1 DEF ListTypes, Iter!TypeOK, Iter!Listed
    <3>2. state' \in {"ready", "done", "failed"} /\ left' \in 0 .. limit'
      BY <1>1, <1>3, <1>5
    <3> QED
      BY <1>4, <3>1, <3>2 DEF Iter!TypeOK, Iter!Places
  <2>2. /\ Iter!IterateAssumption /\ added' \in Nat /\ removed' \in Nat
        /\ \A i, j \in Iter!Listed' : i # j => place'[i] # place'[j]
    BY <1>1 DEF ListTypes, Iter!Listed
  <2> QED
    BY <2>1, <2>2 DEF ListTypes
<1>7. limit > 0 => Len(given) + left = limit /\ left > 0
  <2>1. limit > 0 => Len(given) + left = limit
    BY <1>1 DEF LimitKept
  <2>2. kind # "members" /\ limit > 0 => left > 0
    BY <1>2, <1>4
  <2>3. kind = "members" /\ limit > 0 => left > 0
    BY <1>1 DEF LimitKept
  <2> QED
    BY <2>1, <2>2, <2>3
<1>8. limit = 0 => left = 0
  BY <1>1 DEF LimitKept
<1>9. Len(given) \in Nat /\ Len(items) \in Nat
  BY <1>2
<1>10. /\ limit = 0 => left' = 0
       /\ limit > 0 => Len(given') + left' = limit
       /\ kind # "members" /\ limit > 0 => Len(buf') <= left'
       /\ kind = "members" /\ limit > 0 /\ state' = "ready" => left' > 0
  <2>1. limit = 0 => left' = 0
    BY <1>2, <1>3, <1>8
  <2>2. limit > 0 => left > 0 /\ left' = left - 1 /\ Len(given) + left = limit
    BY <1>3, <1>7
  <2>a. /\ Len(given') = Len(given) + 1 /\ Len(buf') = Len(items) - 1
        /\ Len(given) \in Nat /\ Len(items) \in Nat /\ left \in Nat
    BY <1>2, <1>4, <1>9
  <2>3. limit > 0 => Len(given') + left' = limit
    BY <2>a, <2>2
  <2>4. kind # "members" /\ limit > 0 => Len(buf') <= left'
    BY <2>a, <2>2
  <2>5. kind = "members" /\ state' = "ready" => left # 1
    BY <1>3
  <2>6. ASSUME kind = "members", limit > 0, state' = "ready" PROVE left' > 0
    <3>1. left # 1 /\ left > 0 /\ left' = left - 1 /\ left \in Nat
      BY <1>2, <2>2, <2>5, <2>6
    <3> QED
      BY <3>1
  <2> QED
    BY <2>1, <2>3, <2>4, <2>6
<1>11. LimitKept'
  BY <1>1, <1>10 DEF LimitKept
<1>12. EndReached'
  <2> SUFFICES ASSUME state' = "done" PROVE Iter!Reached'
    BY DEF EndReached
  <2>1. left = 1 /\ limit > 0 /\ Len(given') = limit
    BY <1>2, <1>3, <1>4, <1>7, <1>9
  <2> QED
    BY <1>1, <2>1 DEF Iter!Reached
<1> QED
  BY <1>4, <1>6, <1>11, <1>12 DEF Fetched

LEMMA GiveNextKeeps == ASSUME IterInv, Iter!GiveNext PROVE IterInv'
<1>1. /\ state = "ready" /\ buf # << >> /\ Iter!Give(buf) /\ UNCHANGED <<Iter!list, Iter!choice>>
      /\ offset' = offset /\ full' = full
  BY DEF Iter!GiveNext
<1>2. /\ ListTypes /\ LimitKept /\ (kind # "members" => PlacesFetched)
      /\ kind = "members" => NumbersFetched
  BY DEF IterInv
<1>3. buf \in Seq(Items) /\ offset' \in Nat
  BY <1>1, <1>2, ItemFacts
<1>4. full' \in BOOLEAN /\ (kind # "members" => full' /\ (limit > 0 => Len(buf) <= left))
  BY <1>1, <1>2 DEF LimitKept, ListTypes, Iter!TypeOK
<1>5. ListTypes' /\ LimitKept' /\ EndReached' /\ Fetched' = Fetched
  BY <1>1, <1>3, <1>4, GiveKeeps DEF Fetched
<1>6. /\ UNCHANGED <<place, steady, added, removed, kind>>
  BY <1>1 DEF Iter!list, Iter!choice
<1>7. kind # "members" => PlacesFetched'
  BY <1>1, <1>2, <1>5, <1>6 DEF PlacesFetched, Has, Twice
<1>8. \A i : Rank(i)' = Rank(i)
  BY <1>6 DEF Rank, Iter!Listed
<1>9. Hidden' = Hidden /\ Repeated' = Repeated /\ Unfetched' = Unfetched
  BY <1>1, <1>5, <1>6, <1>8 DEF Hidden, Repeated, Unfetched, Has, Twice
<1>10. kind = "members" => NumbersFetched'
  BY <1>1, <1>2, <1>5, <1>6, <1>9 DEF NumbersFetched
<1> QED
  BY <1>5, <1>6, <1>7, <1>10 DEF IterInv

LEMMA FetchPlaces ==
  ASSUME ListTypes, PlacesFetched, kind # "members", buf = << >>, NEW n \in Nat, n > 0,
         NEW page, page = Iter!Page(n), page # << >>, offset' = Iter!After(page),
         Fetched' = given \o page, UNCHANGED <<place, steady>>
  PROVE  offset' \in Nat /\ PlacesFetched'
<1>1. /\ page \in Seq(Items) /\ Len(page) \in Nat /\ Len(page) > 0 /\ DOMAIN page = 1 .. Len(page)
      /\ given \in Seq(Items) /\ Fetched = given /\ offset \in Nat
      /\ steady \subseteq Iter!Listed
      /\ \A i \in Iter!Listed : place[i] \in Nat /\ place[i] > 0
  <2>1. page \in Seq(Items) /\ given \in Seq(Items)
    BY PlacesPage, ItemFacts
  <2>2. Len(page) \in Nat /\ Len(page) > 0 /\ DOMAIN page = 1 .. Len(page)
    BY <2>1, EmptySeq, LenProperties
  <2>3. given \o << >> = given
    BY <2>1, ConcatEmptySeq
  <2> QED
    BY <2>1, <2>2, <2>3, ItemFacts DEF Fetched
<1> DEFINE l == Len(page)
<1>2. /\ \A k \in 1 .. l : page[k] \in Behind
      /\ \A j, k \in 1 .. l : j # k => page[j] # page[k]
      /\ \A i \in Behind : \A k \in 1 .. l : place[i] >= place[page[k]] => \E j \in 1 .. l : page[j] = i
      /\ \A j, k \in 1 .. l : j < k => place[page[j]] > place[page[k]]
  BY PlacesPage
<1>3. offset' = place[page[l]]
  BY DEF Iter!After, Iter!Last
<1> HIDE DEF l
<1>4. l \in Nat /\ l > 0 /\ l \in 1 .. l /\ DOMAIN page = 1 .. l
  BY <1>1 DEF l
<1>5. Behind \subseteq Iter!Listed
  BY DEF Behind
<1>6. page[l] \in Behind /\ offset' \in Nat /\ offset' > 0
  BY <1>1, <1>2, <1>3, <1>4, <1>5
<1>7. ASSUME NEW i \in steady
      PROVE  (Has(Fetched', i) <=> place[i] >= offset') /\ ~ Twice(Fetched', i)
  <2>1. i \in Iter!Listed /\ place[i] \in Nat
    BY <1>1
  <2>2. (Has(given, i) <=> (offset # 0 /\ place[i] >= offset)) /\ ~ Twice(given, i)
    BY <1>1 DEF PlacesFetched
  <2>3. /\ Has(Fetched', i) <=> Has(given, i) \/ Has(page, i)
        /\ Twice(Fetched', i) => Twice(given, i) \/ Twice(page, i) \/ (Has(given, i) /\ Has(page, i))
    BY <1>1, HasConcat
  <2>4. ~ Twice(page, i)
    BY <1>2, <1>4 DEF Twice
  <2>5. CASE i \in Behind
    <3>1. ~ Has(given, i)
      BY <1>1, <2>1, <2>2, <2>5 DEF Behind
    <3>2. Has(page, i) => place[i] >= offset'
      <4> SUFFICES ASSUME Has(page, i) PROVE place[i] >= offset'
        OBVIOUS
      <4>1. PICK j \in 1 .. l : page[j] = i
        BY <1>4 DEF Has
      <4>2. CASE j = l
        BY <1>3, <2>1, <4>1, <4>2
      <4>3. CASE j # l
        <5>1. j < l
          BY <1>4, <4>3
        <5>2. place[page[j]] > place[page[l]]
          BY <1>2, <1>4, <5>1
        <5> QED
          BY <1>3, <1>6, <2>1, <4>1, <5>2
      <4> QED
        BY <4>2, <4>3
    <3>3. place[i] >= offset' => Has(page, i)
      BY <1>2, <1>3, <1>4, <2>5 DEF Has
    <3> QED
      BY <2>2, <2>3, <2>4, <3>1, <3>2, <3>3
  <2>6. CASE i \notin Behind
    <3>1. offset # 0 /\ place[i] >= offset
      BY <1>1, <2>1, <2>6 DEF Behind
    <3>2. ~ Has(page, i)
      BY <1>2, <1>4, <2>6 DEF Has
    <3>3. offset' < offset
      BY <1>3, <1>6, <3>1 DEF Behind
    <3>4. place[i] >= offset'
      BY <1>1, <1>6, <2>1, <3>1, <3>3
    <3> QED
      BY <2>2, <2>3, <2>4, <3>1, <3>2, <3>4
  <2> QED
    BY <2>5, <2>6
<1> QED
  BY <1>6, <1>7 DEF PlacesFetched, Has, Twice

LEMMA FetchNumbers ==
  ASSUME ListTypes, NumbersFetched, kind = "members", buf = << >>,
         NEW page, page = Iter!Page(batch), page # << >>, offset' = Iter!After(page),
         full' = (Len(page) = batch), kind' = kind,
         Fetched' = given \o page, UNCHANGED <<place, steady, added, removed>>
  PROVE  offset' \in Nat /\ NumbersFetched'
<1>1. /\ page \in Seq(Items) /\ Len(page) \in Nat /\ DOMAIN page = 1 .. Len(page)
      /\ given \in Seq(Items) /\ Len(given) \in Nat /\ Fetched = given /\ offset \in Nat
      /\ steady \subseteq Iter!Listed /\ batch \in Nat
  <2>1. page \in Seq(Items) /\ given \in Seq(Items)
    BY MembersPage, ItemFacts
  <2>2. Len(page) \in Nat /\ DOMAIN page = 1 .. Len(page) /\ Len(given) \in Nat
    BY <2>1, LenProperties
  <2>3. given \o << >> = given
    BY <2>1, ConcatEmptySeq
  <2> QED
    BY <2>1, <2>2, <2>3, ItemFacts DEF Fetched
<1> DEFINE l == Len(page)
<1>2. /\ l < batch => \A i \in Iter!Listed : Rank(i) <= offset + l
      /\ \A k \in 1 .. l : page[k] \in Iter!Listed /\ Rank(page[k]) = offset + k
      /\ l <= batch
  BY MembersPage, <1>1
<1>3. offset' = offset + l
  BY DEF Iter!After
<1>4. Len(given \o page) = Len(given) + l
  BY <1>1, ConcatProperties
<1> HIDE DEF l
<1>5. l \in Nat /\ DOMAIN page = 1 .. l
  BY <1>1 DEF l
<1>a. offset \in Nat /\ l \in Nat /\ batch \in Nat
  BY <1>1, <1>5
<1>b. steady \subseteq Iter!Listed /\ Fetched = given
  BY <1>1
<1>6. /\ \A i \in Iter!Listed : Rank(i) \in Nat
      /\ \A i, j \in Iter!Listed : i # j => Rank(i) # Rank(j)
  <2>1. \A i \in Iter!Listed : Rank(i) \in 1 .. Cardinality(Iter!Listed)
    BY RankFacts
  <2> QED
    BY <2>1, RankFacts
<1>7. ASSUME NEW i \in steady
      PROVE  /\ Rank(i) \in Nat
             /\ Has(Fetched', i) <=> Has(given, i) \/ Has(page, i)
             /\ Twice(Fetched', i) => Twice(given, i) \/ (Has(given, i) /\ Has(page, i))
             /\ Has(page, i) <=> Rank(i) > offset /\ Rank(i) <= offset + l
  <2>1. i \in Iter!Listed /\ Rank(i) \in Nat
    BY <1>b, <1>6
  <2>2. /\ Has(Fetched', i) <=> Has(given, i) \/ Has(page, i)
        /\ Twice(Fetched', i) => Twice(given, i) \/ Twice(page, i) \/ (Has(given, i) /\ Has(page, i))
    BY <1>1, HasConcat
  <2>3. ~ Twice(page, i)
    <3> SUFFICES ASSUME NEW j \in 1 .. l, NEW k \in 1 .. l, j # k, page[j] = i, page[k] = i
                 PROVE  FALSE
      BY <1>5 DEF Twice
    <3>1. Rank(i) = offset + j /\ Rank(i) = offset + k
      BY <1>2
    <3> QED
      BY <1>a, <3>1
  <2>4. Has(page, i) => Rank(i) > offset /\ Rank(i) <= offset + l
    <3> SUFFICES ASSUME NEW j \in 1 .. l, page[j] = i PROVE Rank(i) > offset /\ Rank(i) <= offset + l
      BY <1>5 DEF Has
    <3>1. Rank(i) = offset + j
      BY <1>2
    <3> QED
      BY <1>a, <3>1
  <2>5. ASSUME Rank(i) > offset, Rank(i) <= offset + l PROVE Has(page, i)
    <3> DEFINE k == Rank(i) - offset
    <3>1. k \in 1 .. l /\ offset + k = Rank(i)
      BY <1>a, <2>1, <2>5
    <3> HIDE DEF k
    <3>2. page[k] \in Iter!Listed /\ Rank(page[k]) = Rank(i)
      BY <1>2, <3>1
    <3>3. page[k] = i
      BY <1>6, <2>1, <3>2
    <3> QED
      BY <1>5, <3>1, <3>3 DEF Has
  <2> QED
    BY <2>1, <2>2, <2>3, <2>4, <2>5
<1>8. \A i : Rank(i)' = Rank(i)
  BY DEF Rank, Iter!Listed
<1>9. Hidden' = {i \in steady : Rank(i) <= offset + l /\ ~ Has(Fetched', i)}
  BY <1>3, <1>8 DEF Hidden, Has
<1>10. Hidden' \in SUBSET Hidden
  BY <1>a, <1>b, <1>7, <1>9 DEF Hidden
<1>11. Repeated' \in SUBSET Repeated
  <2>1. Repeated' = {i \in steady : Twice(Fetched', i) \/ (Has(Fetched', i) /\ Rank(i) > offset + l)}
    BY <1>3, <1>8 DEF Repeated, Has, Twice
  <2> QED
    BY <1>a, <1>b, <1>7, <2>1 DEF Repeated
<1>12. ~ full' => Unfetched' \in SUBSET Hidden
  <2>1. Unfetched' = {i \in steady : ~ Has(Fetched', i)}
    BY DEF Unfetched, Has
  <2>2. ~ full' => l < batch
    <3>1. ~ full' => l # batch
      BY DEF l
    <3>2. l <= batch
      BY <1>2
    <3> QED
      BY <1>a, <3>1, <3>2
  <2> QED
    BY <1>b, <1>2, <1>9, <1>10, <2>1, <2>2
<1>13. /\ Hidden \in SUBSET Iter!Listed /\ Repeated \in SUBSET Iter!Listed
  BY CountedListed
<1>14. /\ Cardinality(Hidden') <= Cardinality(Hidden) /\ Cardinality(Hidden) \in Nat
       /\ Cardinality(Hidden') \in Nat
       /\ Cardinality(Repeated') <= Cardinality(Repeated) /\ Cardinality(Repeated) \in Nat
       /\ Cardinality(Repeated') \in Nat
       /\ ~ full' => /\ Cardinality(Unfetched') <= Cardinality(Hidden)
                     /\ Cardinality(Unfetched') \in Nat
  BY <1>10, <1>11, <1>12, <1>13, NoMore
<1>15. /\ offset = Len(given) /\ Cardinality(Hidden) <= removed /\ Cardinality(Repeated) <= added
       /\ added \in Nat /\ removed \in Nat
  BY <1>1, ItemFacts DEF NumbersFetched
<1>16. /\ Cardinality(Hidden') <= removed /\ Cardinality(Repeated') <= added
       /\ ~ full' => Cardinality(Unfetched') <= removed
  BY <1>14, <1>15
<1>17. offset' = Len(Fetched') /\ offset' \in Nat /\ added' = added /\ removed' = removed
  BY <1>a, <1>3, <1>4, <1>15
<1> QED
  BY <1>16, <1>17 DEF NumbersFetched

LEMMA FetchKeeps == ASSUME IterInv, Iter!Fetch PROVE IterInv'
<1> DEFINE n == Iter!Asked  page == Iter!Page(n)
<1>1. /\ state = "ready" /\ buf = << >> /\ full /\ (limit = 0 \/ left > 0)
      /\ page # << >> /\ offset' = Iter!After(page) /\ full' = (kind = "members" => Len(page) = batch)
      /\ Iter!Give(page) /\ UNCHANGED <<Iter!list, Iter!choice>>
  BY DEF Iter!Fetch, Iter!WantsMore
<1>2. /\ ListTypes /\ LimitKept /\ (kind # "members" => PlacesFetched)
      /\ (kind = "members" => NumbersFetched)
  BY DEF IterInv
<1>3. /\ batch \in Nat /\ batch > 0 /\ limit \in Nat /\ left \in Nat /\ left <= limit
      /\ offset \in Nat
  BY <1>2, ItemFacts
<1>4. /\ n \in Nat /\ n > 0
      /\ kind = "members" => n = batch
      /\ kind # "members" /\ limit > 0 => n <= left
  BY <1>1, <1>3 DEF Iter!Asked
<1>5. page \in Seq(Items) /\ Len(page) <= n /\ Len(page) \in Nat
  <2>1. page \in Seq(Items) /\ Len(page) <= n
    BY <1>2, <1>4, MembersPage, PlacesPage
  <2> QED
    BY <2>1, LenProperties
<1>6. UNCHANGED <<place, steady, added, removed, kind, batch, limit>>
  BY <1>1 DEF Iter!list, Iter!choice
<1> HIDE DEF page, n
<1>7. offset' \in Nat
  <2>1. CASE kind = "members"
    BY <1>1, <1>3, <1>5, <2>1 DEF Iter!After
  <2>2. CASE kind # "members"
    <3>1. Len(page) \in 1 .. Len(page)
      BY <1>1, <1>5, EmptySeq
    <3>2. page[Len(page)] \in Iter!Listed
      BY <1>2, <1>4, <2>2, <3>1, PlacesPage DEF page, Behind
    <3>3. place[page[Len(page)]] \in Nat
      BY <1>2, <3>2, ItemFacts
    <3> QED
      BY <1>1, <2>2, <3>3 DEF Iter!After, Iter!Last
  <2> QED
    BY <2>1, <2>2
<1>8. /\ full' \in BOOLEAN
      /\ kind # "members" => full' /\ (limit > 0 => Len(page) <= left)
  <2>1. full' \in BOOLEAN /\ (kind # "members" => full')
    BY <1>1
  <2>2. Len(page) \in Nat /\ n \in Nat /\ left \in Nat /\ Len(page) <= n
    BY <1>3, <1>4, <1>5
  <2> QED
    BY <1>4, <2>1, <2>2
<1>9. ListTypes' /\ LimitKept' /\ EndReached' /\ Fetched' = given \o page
  BY <1>1, <1>5, <1>7, <1>8, GiveKeeps
<1>10. ASSUME kind # "members" PROVE PlacesFetched'
  BY <1>1, <1>2, <1>4, <1>6, <1>9, <1>10, FetchPlaces DEF page
<1>11. ASSUME kind = "members" PROVE NumbersFetched'
  <2>1. page = Iter!Page(batch) /\ full' = (Len(page) = batch)
    BY <1>1, <1>4, <1>11 DEF page
  <2> QED
    BY <1>1, <1>2, <1>6, <1>9, <1>11, <2>1, FetchNumbers
<1> QED
  BY <1>6, <1>9, <1>10, <1>11 DEF IterInv

\* The iterator stops or stands still, and nothing else changes.
LEMMA StopKeeps ==
  ASSUME IterInv, state' \in {"done", "failed"} \/ state' = state, EndReached',
         UNCHANGED <<Iter!list, Iter!choice, offset, left, buf, full, given>>
  PROVE  IterInv'
<1>1. /\ ListTypes /\ LimitKept /\ (kind # "members" => PlacesFetched)
      /\ kind = "members" => NumbersFetched
  BY DEF IterInv
<1>2. UNCHANGED <<place, steady, added, removed, kind, batch, limit, offset, left, buf, full, given>>
  BY DEF Iter!list, Iter!choice
<1>3. ListTypes'
  <2>1. Iter!TypeOK'
    BY <1>1, <1>2 DEF ListTypes, Iter!TypeOK, Iter!Listed, Iter!Places
  <2> QED
    BY <1>1, <1>2, <2>1 DEF ListTypes, Iter!Listed
<1>4. LimitKept'
  BY <1>1, <1>2 DEF LimitKept
<1>5. Fetched' = Fetched
  BY <1>2 DEF Fetched
<1>6. kind # "members" => PlacesFetched'
  BY <1>1, <1>2, <1>5 DEF PlacesFetched, Has, Twice
<1>7. \A i : Rank(i)' = Rank(i)
  BY <1>2 DEF Rank, Iter!Listed
<1>8. Hidden' = Hidden /\ Repeated' = Repeated /\ Unfetched' = Unfetched
  BY <1>2, <1>5, <1>7 DEF Hidden, Repeated, Unfetched, Has, Twice
<1>9. kind = "members" => NumbersFetched'
  BY <1>1, <1>2, <1>5, <1>8 DEF NumbersFetched
<1> QED
  BY <1>2, <1>3, <1>4, <1>6, <1>9 DEF IterInv

\* At the end all of it has been given, but for those that a departure has hidden.
LEMMA FinishKeeps == ASSUME IterInv, Iter!Finish PROVE IterInv'
<1> DEFINE n == Iter!Asked  page == Iter!Page(n)
           S == {i \in steady : ~ Has(given, i)}
<1>1. /\ state = "ready" /\ buf = << >> /\ (Iter!WantsMore => page = << >>) /\ state' = "done"
      /\ UNCHANGED <<Iter!list, Iter!choice, offset, left, buf, full, given>>
  BY DEF Iter!Finish
<1>2. /\ ListTypes /\ LimitKept /\ (kind # "members" => PlacesFetched)
      /\ kind = "members" => NumbersFetched
  BY DEF IterInv
<1>3. /\ batch \in Nat /\ batch > 0 /\ limit \in Nat /\ left \in Nat /\ left <= limit
      /\ offset \in Nat /\ given \in Seq(Items) /\ steady \subseteq Iter!Listed
      /\ removed \in Nat
  BY <1>2, ItemFacts
<1>4. /\ n \in Nat /\ n > 0
      /\ kind = "members" => n = batch
  BY <1>3 DEF Iter!Asked
<1>5. Fetched = given
  BY <1>1, <1>3, ConcatEmptySeq DEF Fetched
<1>6. ASSUME ~ Iter!Reached
      PROVE  Cardinality(S) <= IF kind = "members" THEN removed ELSE 0
  <2>1. CASE kind # "members"
    <3>1. full /\ (limit = 0 \/ left > 0)
      <4>1. limit > 0 => Len(given) + left = limit
        BY <1>2 DEF LimitKept
      <4>2. Len(given) \in Nat
        BY <1>3, LenProperties
      <4>3. limit > 0 /\ left = 0 => Len(given) = limit
        BY <1>3, <4>1, <4>2
      <4>4. full /\ (limit > 0 => left # 0)
        BY <1>2, <1>6, <2>1, <4>3 DEF LimitKept, Iter!Reached
      <4> QED
        BY <1>3, <4>4
    <3>2. page = << >>
      BY <1>1, <3>1 DEF Iter!WantsMore
    <3>3. Behind = {}
      BY <1>2, <1>4, <2>1, <3>2, PlacesPage
    <3>4. ASSUME NEW i \in steady PROVE Has(given, i)
      <4>1. offset # 0 /\ place[i] >= offset
        <5>1. i \in Iter!Listed /\ place[i] \in Nat
          BY <1>2, <1>3, ItemFacts
        <5> QED
          BY <1>3, <3>3, <5>1 DEF Behind
      <4> QED
        BY <1>2, <1>5, <2>1, <4>1 DEF PlacesFetched
    <3>5. S = {}
      BY <3>4
    <3> QED
      BY <2>1, <3>5, FS_EmptySet
  <2>2. CASE kind = "members" /\ ~ full
    <3>1. S = Unfetched
      BY <1>5 DEF Unfetched
    <3> QED
      BY <1>2, <2>2, <3>1 DEF NumbersFetched
  <2>3. CASE kind = "members" /\ full
    <3>1. page = << >>
      <4>1. limit = 0 \/ left > 0
        BY <1>1, <1>2, <1>3, <2>3 DEF LimitKept
      <4> QED
        BY <1>1, <2>3, <4>1 DEF Iter!WantsMore
    <3>2. Len(page) = 0
      BY <3>1
    <3>3. Len(page) < n => \A i \in Iter!Listed : Rank(i) <= offset + Len(page)
      BY <1>2, <1>4, <2>3, MembersPage
    <3> HIDE DEF page
    <3>4. \A i \in Iter!Listed : Rank(i) <= offset
      BY <1>3, <1>4, <3>2, <3>3
    <3>5. S \in SUBSET Hidden
      BY <1>3, <1>5, <3>4 DEF Hidden
    <3>6. Hidden \in SUBSET Iter!Listed
      BY <1>2, CountedListed
    <3>7. Cardinality(S) \in Nat /\ Cardinality(Hidden) \in Nat /\ Cardinality(S) <= Cardinality(Hidden)
      BY <1>2, <3>5, <3>6, NoMore
    <3>8. Cardinality(Hidden) <= removed
      BY <1>2, <2>3 DEF NumbersFetched
    <3> QED
      BY <1>3, <2>3, <3>7, <3>8
  <2> QED
    BY <2>1, <2>2, <2>3
<1>7. EndReached'
  <2>1. UNCHANGED <<steady, removed, kind, limit, given>>
    BY <1>1 DEF Iter!list, Iter!choice
  <2> QED
    BY <1>6, <2>1 DEF EndReached, Iter!Reached, Has
<1> QED
  BY <1>1, <1>7, StopKeeps

LEMMA IterFailKeeps == ASSUME IterInv, Iter!Fail PROVE IterInv'
<1>1. EndReached'
  BY DEF EndReached, Iter!Fail
<1> QED
  BY <1>1, StopKeeps DEF Iter!Fail

LEMMA IterStep == ASSUME IterInv, [Iter!Next]_(Iter!vars) PROVE IterInv'
<1>1. CASE UNCHANGED Iter!vars
  <2>1. UNCHANGED <<Iter!list, Iter!choice, offset, left, buf, full, given, state>>
    BY <1>1 DEF Iter!vars, Iter!cursor
  <2>2. EndReached'
    BY <2>1 DEF IterInv, EndReached, Iter!Reached, Has, Iter!list, Iter!choice
  <2> QED
    BY <2>1, <2>2, StopKeeps
<1>2. CASE \E i \in Items : Iter!Leave(i) \/ \E p \in Iter!Places : Iter!Add(i, p) \/ Iter!Move(i, p)
  <2>1. PICK i \in Items : Iter!Leave(i) \/ \E p \in Iter!Places : Iter!Add(i, p) \/ Iter!Move(i, p)
    BY <1>2
  <2>2. 1 \in Iter!Places
    <3>1. /\ IsFiniteSet(Items) /\ Cardinality(Items) \in Nat /\ MaxChanges \in Nat
          /\ Iter!Places = 1 .. 2 * Cardinality(Items) + MaxChanges
      BY ItemFacts DEF IterInv
    <3>2. Cardinality(Items) # 0
      BY <3>1, FS_EmptySet
    <3> QED
      BY <3>1, <3>2
  <2> QED
    BY <2>1, <2>2, ChangesKeep
<1> QED
  BY <1>1, <1>2, GiveNextKeeps, FetchKeeps, FinishKeeps, IterFailKeeps DEF Iter!Next

LEMMA CountTwice ==
  ASSUME given \in Seq(Items), NEW i
  PROVE  Iter!Times(i) \in Nat /\ (Iter!Times(i) > 1 => Twice(given, i))
<1> DEFINE K == {k \in DOMAIN given : given[k] = i}
<1>1. Iter!Times(i) = Cardinality(K)
  BY SameCount DEF Iter!Times
<1>2. IsFiniteSet(K)
  <2>1. IsFiniteSet(1 .. Len(given)) /\ DOMAIN given = 1 .. Len(given)
    BY LenProperties, FS_Interval
  <2> QED
    BY <2>1, FS_Subset
<1>3. ASSUME ~ Twice(given, i) PROVE Cardinality(K) <= 1
  <2> DEFINE x == CHOOSE k \in K : TRUE
  <2>1. K \in SUBSET {x}
    BY <1>3 DEF Twice
  <2> HIDE DEF K, x
  <2>2. IsFiniteSet({x}) /\ Cardinality({x}) = 1
    BY FS_Singleton
  <2> QED
    BY <2>1, <2>2, FS_Subset
<1>4. Cardinality(K) \in Nat
  BY <1>2, FS_CardinalityType
<1> QED
  BY <1>1, <1>3, <1>4

LEMMA IterInvImplies == ASSUME IterInv PROVE Iter!TypeOK /\ Iter!NothingSkipped
<1>1. /\ ListTypes /\ LimitKept /\ EndReached /\ (kind # "members" => PlacesFetched)
      /\ kind = "members" => NumbersFetched
  BY DEF IterInv
<1>2. /\ given \in Seq(Items) /\ buf \in Seq(Items) /\ limit \in Nat /\ left \in Nat
      /\ added \in Nat /\ removed \in Nat /\ steady \subseteq Iter!Listed
  BY <1>1, ItemFacts
<1>3. ASSUME NEW i PROVE Twice(given, i) => Twice(Fetched, i)
  BY <1>2, HasConcat DEF Fetched
<1>4. limit > 0 => Len(given) <= limit
  <2>1. Len(given) \in Nat /\ (limit > 0 => Len(given) + left = limit)
    BY <1>1, <1>2, LenProperties DEF LimitKept
  <2> QED
    BY <1>2, <2>1
<1>5. kind # "members" => \A i \in steady : Iter!Times(i) <= 1
  <2> SUFFICES ASSUME kind # "members", NEW i \in steady PROVE Iter!Times(i) <= 1
    OBVIOUS
  <2>1. ~ Twice(given, i)
    BY <1>1, <1>3 DEF PlacesFetched
  <2> QED
    BY <1>2, <2>1, CountTwice
<1>6. state = "done" /\ ~ Iter!Reached =>
        Iter!Cardinality(steady \ Iter!Given) <= IF kind = "members" THEN removed ELSE 0
  <2>1. steady \ Iter!Given = {i \in steady : ~ Has(given, i)}
    BY DEF Iter!Given, Iter!ToSet, Has
  <2> QED
    BY <1>1, <2>1, SameCount DEF EndReached
<1>7. kind = "members" => Iter!Cardinality({i \in steady : Iter!Times(i) > 1}) <= added
  <2> SUFFICES ASSUME kind = "members"
               PROVE  Cardinality({i \in steady : Iter!Times(i) > 1}) <= added
    BY SameCount
  <2> DEFINE T == {i \in steady : Iter!Times(i) > 1}
  <2>1. T \in SUBSET Repeated
    BY <1>2, <1>3, CountTwice DEF Repeated
  <2>2. Repeated \in SUBSET Iter!Listed
    BY <1>1, CountedListed
  <2> HIDE DEF T
  <2>3. Cardinality(T) \in Nat /\ Cardinality(Repeated) \in Nat /\ Cardinality(T) <= Cardinality(Repeated)
    BY <1>1, <2>1, <2>2, NoMore
  <2>4. Cardinality(Repeated) <= added
    BY <1>1 DEF NumbersFetched
  <2> QED
    BY <1>2, <2>3, <2>4 DEF T
<1> QED
  BY <1>1, <1>4, <1>5, <1>6, <1>7 DEF ListTypes, Iter!NothingSkipped

\* Of what stays in its place nothing is skipped and nothing is given twice, and
\* of the members no more than have left or come (_HistoryIter, _SearchIter,
\* _DialogIter, iter_participants), for any list, batch, limit and changes.
THEOREM ListsAreWhole ==
  ASSUME Iter!IterateAssumption PROVE Iter!Spec => [](Iter!TypeOK /\ Iter!NothingSkipped)
<1>1. Iter!Init => IterInv
  BY IterInit
<1>2. IterInv /\ [Iter!Next]_(Iter!vars) => IterInv'
  BY IterStep
<1>3. IterInv => Iter!TypeOK /\ Iter!NothingSkipped
  BY IterInvImplies
<1> QED
  BY <1>1, <1>2, <1>3, PTL DEF Iter!Spec
=============================================================================
