----------------------------- MODULE MeshProofs -----------------------------
(***************************************************************************)
(* The lanes of one ring do not disturb each other, for any ranks, lanes,  *)
(* depths and threads: only a lane whose own acknowledgements failed is    *)
(* ever reported broken, room is given back only for messages a poll has   *)
(* returned, and each other lane is a queue of its own.                    *)
(***************************************************************************)
EXTENDS Mesh, SequenceTheorems, FiniteSetTheorems, WellFoundedInduction, TLAPS

-----------------------------------------------------------------------------
(* The operators of the model *)

(* Every nonempty set of natural numbers has a least element. *)
LEMMA LeastNatural ==
  ASSUME NEW S \in SUBSET Nat, S # {}
  PROVE  \E n \in S : \A m \in S : n <= m
<1>1. \E n \in S : \A m \in S : ~(<<m, n>> \in OpToRel(<, Nat))
  BY NatLessThanWellFounded, WFMin
<1>2. PICK n \in S : \A m \in S : ~(<<m, n>> \in OpToRel(<, Nat))
  BY <1>1
<1>3. ASSUME NEW m \in S PROVE n <= m
  <2>1. ~(m < n)
    BY <1>2 DEF OpToRel
  <2> QED
    BY <2>1
<1> QED
  BY <1>2, <1>3

(* The Min of the community modules is that element. *)
LEMMA MinIs ==
  ASSUME NEW S \in SUBSET Nat, S # {}
  PROVE  Min(S) \in S /\ \A m \in S : Min(S) <= m
BY LeastNatural DEF Min

(* The Max of a bounded set is its greatest element. *)
LEMMA MaxIs ==
  ASSUME NEW n \in Nat, NEW S \in SUBSET (0..n), S # {}
  PROVE  Max(S) \in S /\ \A m \in S : m <= Max(S)
<1> DEFINE T == {n - m : m \in S}
<1>1. T \in SUBSET Nat /\ T # {}
  <2>1. \A m \in S : n - m \in Nat
    OBVIOUS
  <2> QED
    BY <2>1
<1>2. PICK least \in T : \A m \in T : least <= m
  BY <1>1, LeastNatural
<1>3. PICK greatest \in S : least = n - greatest
  BY <1>2
<1>4. \A m \in S : greatest >= m
  <2> SUFFICES ASSUME NEW m \in S PROVE greatest >= m
    OBVIOUS
  <2>1. least <= n - m
    BY <1>2
  <2> QED
    BY <1>3, <2>1
<1>5. \E x \in S : \A y \in S : x >= y
  BY <1>4
<1> HIDE DEF T
<1> QED
  BY <1>5 DEF Max

(* Two sequences that share a position are at least Depth apart. *)
LEMMA SharedPosition ==
  ASSUME NEW l \in Lanes, NEW a \in Nat \ {0}, NEW b \in Nat \ {0},
         a < b, Position(l, a) = Position(l, b)
  PROVE  b >= a + Depth[l]
<1> DEFINE d == Depth[l]
           p == (a - 1) % d
           j == (a - 1) \div d
           k == (b - 1) \div d
<1>1. d \in Nat /\ d > 0
  BY MeshAssumption
<1> HIDE DEF d
<1>0. (b - 1) % d = p
  BY DEF Position, d
<1>2. a - 1 = d * j + p /\ b - 1 = d * k + p
  <2>1. a - 1 \in Int /\ b - 1 \in Int
    OBVIOUS
  <2>2. a - 1 = d * j + p
    BY <1>1, <2>1
  <2>3. b - 1 = d * k + ((b - 1) % d)
    BY <1>1, <2>1
  <2> QED
    BY <1>0, <2>2, <2>3
<1>3. j \in Int /\ k \in Int /\ p \in Int
  BY <1>1
<1>4. b - a = d * (k - j)
  BY <1>1, <1>2, <1>3
<1>5. k - j >= 1
  BY <1>1, <1>3, <1>4
<1>6. d * (k - j) >= d
  BY <1>1, <1>3, <1>5
<1> QED
  BY <1>1, <1>3, <1>4, <1>6 DEF d

MessageRecords == [lane : Lanes, sequence : Nat]

(* How many messages of a lane a batch has. *)
LEMMA InBatchIs ==
  ASSUME NEW batch \in Seq(MessageRecords), NEW l \in Lanes
  PROVE  /\ InBatch(batch, l) \in Nat
         /\ InBatch(<<>>, l) = 0
         /\ \A m \in MessageRecords :
              InBatch(Append(batch, m), l) = InBatch(batch, l) + IF m.lane = l THEN 1 ELSE 0
<1> DEFINE of(b) == {i \in DOMAIN b : b[i].lane = l}
<1>1. Len(batch) \in Nat /\ DOMAIN batch = 1..Len(batch)
  BY LenProperties
<1>2. IsFiniteSet(of(batch))
  <2>1. IsFiniteSet(1..Len(batch)) /\ of(batch) \in SUBSET (1..Len(batch))
    BY <1>1, FS_Interval
  <2> QED
    BY <2>1, FS_Subset
<1>3. InBatch(batch, l) \in Nat
  BY <1>2, FS_CardinalityType DEF InBatch
<1>4. InBatch(<<>>, l) = 0
  <2>1. of(<<>>) = {}
    OBVIOUS
  <2> QED
    BY <2>1, FS_EmptySet DEF InBatch
<1>5. ASSUME NEW m \in MessageRecords
      PROVE  InBatch(Append(batch, m), l) = InBatch(batch, l) + IF m.lane = l THEN 1 ELSE 0
  <2> DEFINE longer == Append(batch, m)
             n == Len(batch) + 1
  <2>1. /\ longer \in Seq(MessageRecords) /\ Len(longer) = n /\ longer[n] = m
        /\ \A i \in 1..Len(batch) : longer[i] = batch[i]
    BY AppendProperties
  <2>2. DOMAIN longer = 1..n
    BY <2>1, LenProperties
  <2> HIDE DEF longer
  <2>3. CASE m.lane = l
    <3>1. of(longer) = of(batch) \cup {n}
      BY <1>1, <2>1, <2>2, <2>3
    <3>2. n \notin of(batch)
      BY <1>1
    <3> QED
      BY <1>2, <2>3, <3>1, <3>2, FS_AddElement DEF InBatch, longer
  <2>4. CASE m.lane # l
    <3>1. of(longer) = of(batch)
      BY <1>1, <2>1, <2>2, <2>4
    <3>2. InBatch(longer, l) = InBatch(batch, l)
      BY <3>1 DEF InBatch
    <3> QED
      BY <1>3, <2>4, <3>2 DEF longer
  <2> QED
    BY <2>3, <2>4
<1> QED
  BY <1>3, <1>4, <1>5

-----------------------------------------------------------------------------
(* The invariant *)

PollRecords ==
  [pc : {"idle", "lane", "scan", "deliver"}, todo : SUBSET Lanes, read : Nat, at : Nat,
   found : SUBSET Nat, batch : Seq(MessageRecords)]

AckRecords ==
  [pc : {"idle", "issued", "applied"}, lane : Lanes \cup {<<>>}, sequence : Nat,
   previous : Int]

TypeOK ==
  /\ safe \in BOOLEAN
  /\ sent \in [Lanes -> Nat] /\ cached \in [Lanes -> Int] /\ flying \in [Lanes -> BOOLEAN]
  /\ counter \in [Lanes -> Int] /\ seen \in [Lanes -> Nat] /\ acked \in [Lanes -> Nat]
  /\ lost \in [Ranks -> Int] /\ taken \in [Lanes -> Seq(Nat)]
  /\ poll \in [Ranks -> PollRecords] /\ ack \in [Threads -> AckRecords]

(* The highest sequence whose Put has been issued. *)
Issued(l) == sent[l] + IF flying[l] THEN 1 ELSE 0

(* A poll is at a lane into its rank; only a raw one scans, and finds only *)
(* what has been put past the cursor.                                      *)
Polling(r) ==
  /\ poll[r].pc # "idle" => poll[r].todo # {} /\ poll[r].todo \subseteq Incoming(r)
  /\ poll[r].pc \in {"scan", "deliver"} =>
       /\ ~safe
       /\ \A f \in poll[r].found : seen[Lane(r)] < f /\ f <= Issued(Lane(r))
  /\ poll[r].pc = "lane" => poll[r].found = {}
  /\ poll[r].pc = "deliver" => poll[r].found # {}

(* An acknowledgement is of messages that polls have returned, and on a    *)
(* lane whose acknowledgements do not fail it finds the counter where the  *)
(* last one left it.                                                       *)
Acking(t) ==
  ack[t].pc # "idle" =>
    /\ safe /\ ack[t].lane \in Lanes /\ ack[t].lane[2] = t[1]
    /\ acked[ack[t].lane] < ack[t].sequence
    /\ ack[t].sequence <= seen[ack[t].lane] - Due(ack[t].lane)
    /\ ack[t].pc = "applied" /\ ack[t].lane \notin Faulty =>
         /\ ack[t].previous = acked[ack[t].lane]
         /\ counter[ack[t].lane] = ack[t].sequence

(* The mutex of `acked`. *)
Exclusive ==
  \A t, u \in Threads :
    t[1] = u[1] /\ ack[t].pc # "idle" /\ ack[u].pc # "idle" => t = u

(* The acknowledgement t has taken effect on lane l and is not recorded. *)
Applied(t, l) == ack[t].pc = "applied" /\ ack[t].lane = l

(* The room of a lane: what the sender may use, what was given back, and   *)
(* what polls have returned, in that order.                                *)
Roomy(l) ==
  /\ cached[l] <= counter[l] /\ counter[l] <= seen[l] - Due(l)
  /\ safe => Issued(l) <= cached[l] + Depth[l]
  /\ (\A t \in Threads : ~Applied(t, l)) => counter[l] = acked[l]

MeshInv ==
  /\ TypeOK
  /\ \A r \in Ranks : Polling(r)
  /\ \A t \in Threads : Acking(t)
  /\ Exclusive
  /\ \A l \in Lanes : seen[l] <= Issued(l)
  /\ \A l \in Lanes \ Faulty : Roomy(l)
  /\ Isolated

-----------------------------------------------------------------------------
(* What is known of a lane. *)
LEMMA LaneIs ==
  ASSUME TypeOK, NEW l \in Lanes
  PROVE  /\ l[1] \in Ranks /\ l[2] \in Ranks /\ l[1] \in Nat
         /\ sent[l] \in Nat /\ cached[l] \in Int /\ flying[l] \in BOOLEAN
         /\ counter[l] \in Int /\ seen[l] \in Nat /\ acked[l] \in Nat
         /\ Issued(l) \in Nat /\ sent[l] <= Issued(l)
         /\ Depth[l] \in Nat /\ Depth[l] > 0 /\ Limit[l] \in Nat
         /\ poll[l[2]] \in PollRecords /\ poll[l[2]].batch \in Seq(MessageRecords)
         /\ Due(l) \in Nat
<1>1. l \in Ranks \X Ranks /\ l[1] \in Nat
  BY MeshAssumption
<1>2. poll[l[2]] \in PollRecords /\ poll[l[2]].batch \in Seq(MessageRecords)
  BY <1>1 DEF TypeOK, PollRecords
<1>3. Due(l) \in Nat
  BY <1>2, InBatchIs DEF Due
<1>4. Depth[l] \in Nat /\ Depth[l] > 0 /\ Limit[l] \in Nat
  BY MeshAssumption
<1>5. /\ sent[l] \in Nat /\ cached[l] \in Int /\ flying[l] \in BOOLEAN
      /\ counter[l] \in Int /\ seen[l] \in Nat /\ acked[l] \in Nat
  BY DEF TypeOK
<1>6. Issued(l) \in Nat /\ sent[l] <= Issued(l)
  BY <1>5 DEF Issued
<1> QED
  BY <1>1, <1>2, <1>3, <1>4, <1>5, <1>6

(* A poll in progress is at one of the lanes it has still to visit. *)
LEMMA LaneOfPoll ==
  ASSUME MeshInv, NEW r \in Ranks, poll[r].pc # "idle"
  PROVE  Lane(r) \in poll[r].todo /\ Lane(r) \in Lanes /\ Lane(r)[2] = r
<1> DEFINE todo == poll[r].todo
           S == {l[1] : l \in todo}
<1>1. todo # {} /\ todo \subseteq Lanes /\ \A l \in todo : l[2] = r
  BY DEF MeshInv, Polling, Incoming
<1>2. S \in SUBSET Nat /\ S # {}
  <2>1. \A l \in todo : l[1] \in Nat
    BY <1>1, LaneIs DEF MeshInv
  <2> QED
    BY <1>1, <2>1
<1>3. PICK n \in S : \A m \in S : n <= m
  BY <1>2, LeastNatural
<1>4. \E l \in todo : \A k \in todo : l[1] <= k[1]
  BY <1>3
<1> HIDE DEF todo
<1>5. Lane(r) \in todo
  BY <1>4 DEF Lane, todo
<1> QED
  BY <1>1, <1>5 DEF todo

(* What reading a slot finds was put there: nothing, or a sequence that    *)
(* has been issued and has that position.                                  *)
LEMMA ReadableIs ==
  ASSUME TypeOK, NEW l \in Lanes, NEW p, NEW f \in Readable(l, p)
  PROVE  f = 0 \/ (f \in 1..Issued(l) /\ Position(l, f) = p)
<1> DEFINE here == {s \in 1..sent[l] : Position(l, s) = p}
<1>0. sent[l] \in Nat /\ flying[l] \in BOOLEAN /\ sent[l] <= Issued(l) /\ Issued(l) \in Nat
  BY LaneIs
<1>1. CASE f = Stored(l, p) /\ here # {}
  <2>1. here \in SUBSET (0..sent[l])
    BY <1>0
  <2>2. Max(here) \in here
    BY <1>0, <1>1, <2>1, MaxIs
  <2>3. f = Max(here)
    BY <1>1 DEF Stored
  <2> QED
    BY <1>0, <2>2, <2>3
<1>2. CASE f = Stored(l, p) /\ here = {}
  BY <1>2 DEF Stored
<1>3. CASE f # Stored(l, p)
  BY <1>0, <1>3 DEF Readable, Issued
<1> QED
  BY <1>1, <1>2, <1>3

(* On a safe lane whose acknowledgements do not fail, a poll never finds   *)
(* its slot overwritten: the sender has not come round.                    *)
LEMMA NeverLapped ==
  ASSUME MeshInv, safe, NEW r \in Ranks, Lapped(r)
  PROVE  Lane(r) \in Faulty
<1> DEFINE l == Lane(r)
<1> SUFFICES ASSUME l \notin Faulty PROVE FALSE
  OBVIOUS
<1>1. l \in Lanes /\ TypeOK
  BY LaneOfPoll DEF Lapped, MeshInv
<1> HIDE DEF l
<1>2. PICK f \in Readable(l, Position(l, seen[l] + 1)) : f > seen[l] + 1
  BY DEF Lapped, l
<1>3. /\ seen[l] \in Nat /\ Issued(l) \in Nat /\ Depth[l] \in Nat /\ Due(l) \in Nat
      /\ cached[l] \in Int /\ counter[l] \in Int
  BY <1>1, LaneIs
<1>4. f \in 1..Issued(l) /\ Position(l, f) = Position(l, seen[l] + 1)
  BY <1>1, <1>2, <1>3, ReadableIs
<1>5. f >= seen[l] + 1 + Depth[l]
  BY <1>1, <1>2, <1>3, <1>4, SharedPosition
<1>6. Issued(l) <= seen[l] + Depth[l]
  BY <1>1, <1>3 DEF MeshInv, Roomy
<1> QED
  BY <1>3, <1>4, <1>5, <1>6

-----------------------------------------------------------------------------
(* The steps of polls *)

(* A step of a poll on rank r that moves cursors of r only, each by no     *)
(* less than it adds to the batch.                                         *)
LEMMA PollFrame ==
  ASSUME MeshInv, NEW r \in Ranks, NEW new \in PollRecords,
         poll' = [poll EXCEPT ![r] = new],
         UNCHANGED <<safe, sendVars, counter, acked, ack>>,
         seen' \in [Lanes -> Nat], lost' \in [Ranks -> Int],
         taken' \in [Lanes -> Seq(Nat)], Isolated',
         \A l \in Lanes : l[2] # r => seen'[l] = seen[l],
         \A l \in Lanes : l[2] = r =>
           seen'[l] <= Issued(l) /\ seen[l] - Due(l) <= seen'[l] - Due(l)',
         Polling(r)'
  PROVE  MeshInv'
<1>1. TypeOK /\ TypeOK'
  BY DEF MeshInv, TypeOK, sendVars
<1>2. /\ safe' = safe /\ sent' = sent /\ cached' = cached /\ flying' = flying
      /\ counter' = counter /\ acked' = acked /\ ack' = ack
  BY DEF sendVars
<1>3. \A l \in Lanes : Issued(l)' = Issued(l)
  BY <1>2 DEF Issued
<1>4. ASSUME NEW l \in Lanes
      PROVE  /\ seen[l] - Due(l) <= seen'[l] - Due(l)'
             /\ seen'[l] <= Issued(l)' /\ Due(l)' \in Nat /\ seen'[l] \in Nat
  <2>1. Due(l)' \in Nat /\ seen'[l] \in Nat
    <3>1. poll'[l[2]] \in PollRecords /\ poll'[l[2]].batch \in Seq(MessageRecords)
      BY <1>1, LaneIs DEF TypeOK, PollRecords
    <3> QED
      BY <3>1, InBatchIs DEF Due
  <2>2. CASE l[2] = r
    BY <1>3, <2>1, <2>2
  <2>3. CASE l[2] # r
    <3>1. poll'[l[2]] = poll[l[2]] /\ seen'[l] = seen[l]
      BY <1>1, <2>3, LaneIs DEF TypeOK
    <3>2. Due(l)' = Due(l)
      BY <3>1 DEF Due
    <3> QED
      BY <1>1, <1>3, <2>1, <3>1, <3>2, LaneIs DEF MeshInv
  <2> QED
    BY <2>2, <2>3
<1>5. ASSUME NEW q \in Ranks
      PROVE  Polling(q)'
  <2>1. CASE q = r
    BY <2>1
  <2>2. CASE q # r
    <3>1. poll'[q] = poll[q] /\ Polling(q)
      BY <1>1, <2>2 DEF TypeOK, MeshInv
    <3>2. Lane(q)' = Lane(q)
      BY <3>1 DEF Lane
    <3>3. CASE poll[q].pc \in {"scan", "deliver"}
      <4>1. Lane(q) \in Lanes /\ Lane(q)[2] = q
        BY <3>3, LaneOfPoll
      <4>2. seen'[Lane(q)] = seen[Lane(q)]
        BY <2>2, <4>1
      <4> QED
        BY <1>2, <3>1, <3>2, <4>2 DEF Polling, Issued
    <3>4. CASE poll[q].pc \notin {"scan", "deliver"}
      BY <3>1, <3>4 DEF Polling
    <3> QED
      BY <3>3, <3>4
  <2> QED
    BY <2>1, <2>2
<1>6. ASSUME NEW t \in Threads
      PROVE  Acking(t)'
  <2> SUFFICES ASSUME ack[t].pc # "idle" PROVE Acking(t)'
    BY <1>2 DEF Acking
  <2> DEFINE l == ack[t].lane
  <2>1. Acking(t) /\ l \in Lanes
    BY DEF MeshInv, Acking
  <2>2. ack[t].sequence \in Nat /\ seen[l] \in Nat /\ Due(l) \in Nat
    BY <1>1, <2>1, LaneIs DEF TypeOK, AckRecords
  <2>3. ack[t].sequence <= seen'[l] - Due(l)'
    BY <1>4, <2>1, <2>2 DEF Acking
  <2>4. Due(ack[t].lane)' = Due(l)'
    OBVIOUS
  <2> HIDE DEF l
  <2> QED
    BY <1>2, <2>1, <2>3, <2>4 DEF Acking, l
<1>7. Exclusive'
  BY <1>2 DEF MeshInv, Exclusive
<1>8. ASSUME NEW l \in Lanes \ Faulty
      PROVE  Roomy(l)'
  <2>1. Roomy(l) /\ counter[l] \in Int /\ seen[l] \in Nat /\ Due(l) \in Nat
    BY <1>1, LaneIs DEF MeshInv
  <2>2. counter[l] <= seen'[l] - Due(l)'
    BY <1>4, <2>1 DEF Roomy
  <2> QED
    BY <1>2, <1>3, <2>1, <2>2 DEF Roomy, Applied
<1> QED
  BY <1>1, <1>4, <1>5, <1>6, <1>7, <1>8 DEF MeshInv

(* Leaving a lane, a poll is at another one or returns. *)
LEMMA LeaveLaneIs ==
  ASSUME MeshInv, NEW r \in Ranks, NEW messages \in Seq(MessageRecords),
         poll[r].pc # "idle", LeaveLane(r, messages)
  PROVE  /\ poll'[r] \in PollRecords /\ poll' = [poll EXCEPT ![r] = poll'[r]]
         /\ Polling(r)'
         /\ \A l \in Lanes : l[2] = r => Due(l)' <= InBatch(messages, l)
<1> DEFINE todo == poll[r].todo \ {Lane(r)}
           idle == IdlePoll(messages)
           visit == Visit(todo, messages)
<1>1. TypeOK /\ todo \subseteq Incoming(r) /\ todo \subseteq Lanes
  BY DEF MeshInv, Polling, Incoming
<1>2. /\ idle \in PollRecords /\ idle.pc = "idle" /\ idle.batch = messages
      /\ idle.todo = {} /\ idle.found = {}
  BY DEF IdlePoll, FreshPoll, PollRecords
<1>4. /\ visit \in PollRecords /\ visit.pc = "lane" /\ visit.batch = messages
      /\ visit.todo = todo /\ visit.found = {}
  BY <1>1 DEF Visit, FreshPoll, PollRecords
<1>5. poll' = [poll EXCEPT ![r] = IF todo = {} THEN idle ELSE visit]
  BY DEF LeaveLane
<1> HIDE DEF todo, idle, visit
<1>6. poll'[r] = IF todo = {} THEN idle ELSE visit
  BY <1>1, <1>5 DEF TypeOK
<1>7. poll'[r] \in PollRecords /\ poll' = [poll EXCEPT ![r] = poll'[r]]
  BY <1>2, <1>4, <1>5, <1>6
<1>8. Polling(r)'
  <2>1. CASE todo = {}
    BY <1>2, <1>6, <2>1 DEF Polling
  <2>2. CASE todo # {}
    BY <1>1, <1>4, <1>6, <2>2 DEF Polling, Incoming
  <2> QED
    BY <2>1, <2>2
<1>9. ASSUME NEW l \in Lanes, l[2] = r
      PROVE  Due(l)' <= InBatch(messages, l)
  <2>1. InBatch(messages, l) \in Nat
    BY InBatchIs
  <2>2. Due(l)' = IF poll'[r].pc = "idle" THEN 0 ELSE InBatch(poll'[r].batch, l)
    BY <1>9 DEF Due
  <2> QED
    BY <1>2, <1>4, <1>6, <2>1, <2>2
<1> QED
  BY <1>7, <1>8, <1>9

(* The lane a poll is at, and the batch it has. *)
LEMMA AtLane ==
  ASSUME MeshInv, NEW r \in Ranks, poll[r].pc # "idle"
  PROVE  /\ TypeOK /\ Polling(r) /\ Isolated /\ poll[r] \in PollRecords
         /\ Lane(r) \in Lanes /\ Lane(r)[2] = r
         /\ poll[r].batch \in Seq(MessageRecords)
         /\ seen[Lane(r)] \in Nat /\ Issued(Lane(r)) \in Nat
         /\ seen[Lane(r)] <= Issued(Lane(r))
         /\ \A l \in Lanes : l[2] = r =>
              /\ Due(l) = InBatch(poll[r].batch, l) /\ Due(l) \in Nat
              /\ seen[l] \in Nat /\ seen[l] <= Issued(l)
<1>1. TypeOK /\ Polling(r) /\ Isolated /\ poll[r] \in PollRecords
  BY DEF MeshInv, TypeOK
<1>2. Lane(r) \in Lanes /\ Lane(r)[2] = r
  BY LaneOfPoll
<1>3. poll[r].batch \in Seq(MessageRecords)
  BY <1>1 DEF PollRecords
<1>4. ASSUME NEW l \in Lanes, l[2] = r
      PROVE  /\ Due(l) = InBatch(poll[r].batch, l) /\ Due(l) \in Nat
             /\ seen[l] \in Nat /\ seen[l] <= Issued(l) /\ Issued(l) \in Nat
  BY <1>1, <1>4, LaneIs DEF Due, MeshInv
<1> QED
  BY <1>1, <1>2, <1>3, <1>4

(* The steps of a poll that take no message. *)
LEMMA PollMoves ==
  ASSUME MeshInv, NEW r \in Ranks, PollStart(r) \/ PollMiss(r) \/ PollLapped(r)
  PROVE  MeshInv'
<1>0. TypeOK /\ Isolated /\ <<>> \in Seq(MessageRecords)
  BY DEF MeshInv
<1>1. CASE PollStart(r)
  <2> DEFINE new == Visit(Incoming(r), <<>>)
  <2>1. /\ poll[r].pc = "idle" /\ Incoming(r) # {} /\ poll' = [poll EXCEPT ![r] = new]
        /\ UNCHANGED <<safe, sendVars, counter, seen, lost, taken, acked, ack, errors>>
    BY <1>1 DEF PollStart
  <2>2. Incoming(r) \subseteq Lanes
    BY DEF Incoming
  <2>3. /\ new \in PollRecords /\ new.pc = "lane" /\ new.batch = <<>>
        /\ new.todo = Incoming(r) /\ new.found = {}
    BY <1>0, <2>2 DEF Visit, FreshPoll, PollRecords
  <2> HIDE DEF new
  <2>4. poll'[r] = new
    BY <1>0, <2>1 DEF TypeOK
  <2>5. Polling(r)'
    BY <2>1, <2>3, <2>4 DEF Polling, Incoming
  <2>6. ASSUME NEW l \in Lanes, l[2] = r
        PROVE  seen'[l] <= Issued(l) /\ seen[l] - Due(l) <= seen'[l] - Due(l)'
    <3>1. Due(l) = 0
      BY <2>1, <2>6 DEF Due
    <3>2. Due(l)' = 0
      BY <2>3, <2>4, <2>6, InBatchIs, <1>0 DEF Due
    <3> QED
      BY <1>0, <2>1, <3>1, <3>2, LaneIs DEF MeshInv
  <2>7. /\ seen' \in [Lanes -> Nat] /\ lost' \in [Ranks -> Int]
        /\ taken' \in [Lanes -> Seq(Nat)] /\ Isolated'
    BY <1>0, <2>1 DEF TypeOK, Isolated
  <2> QED
    BY <2>1, <2>3, <2>5, <2>6, <2>7, PollFrame
<1>2. CASE PollMiss(r)
  <2>1. /\ poll[r].pc # "idle" /\ LeaveLane(r, poll[r].batch)
        /\ UNCHANGED <<safe, sendVars, counter, seen, lost, taken, acked, ack, errors>>
    BY <1>2 DEF PollMiss
  <2>2. /\ poll'[r] \in PollRecords /\ poll' = [poll EXCEPT ![r] = poll'[r]]
        /\ Polling(r)'
        /\ \A l \in Lanes : l[2] = r => Due(l)' <= InBatch(poll[r].batch, l)
    BY <2>1, AtLane, LeaveLaneIs
  <2>3. ASSUME NEW l \in Lanes, l[2] = r
        PROVE  seen'[l] <= Issued(l) /\ seen[l] - Due(l) <= seen'[l] - Due(l)'
    <3>1. Due(l) = InBatch(poll[r].batch, l) /\ Due(l) \in Nat
          /\ seen[l] \in Nat /\ seen[l] <= Issued(l)
      BY <2>1, <2>3, AtLane
    <3>2. Due(l)' <= Due(l) /\ Due(l)' \in Nat
      <4>1. poll'[r].batch \in Seq(MessageRecords)
        BY <2>2 DEF PollRecords
      <4> QED
        BY <2>2, <2>3, <3>1, <4>1, InBatchIs DEF Due
    <3> QED
      BY <2>1, <3>1, <3>2
  <2>4. /\ seen' \in [Lanes -> Nat] /\ lost' \in [Ranks -> Int]
        /\ taken' \in [Lanes -> Seq(Nat)] /\ Isolated'
    BY <1>0, <2>1 DEF TypeOK, Isolated
  <2> QED
    BY <2>1, <2>2, <2>3, <2>4, PollFrame
<1>3. CASE PollLapped(r)
  <2> DEFINE new == IdlePoll(<<>>)
  <2>1. /\ poll[r].pc # "idle" /\ Lapped(r) /\ safe /\ poll' = [poll EXCEPT ![r] = new]
        /\ errors' = errors \cup {<<Lane(r), "lapped">>}
        /\ UNCHANGED <<safe, sendVars, counter, seen, lost, taken, acked, ack>>
    BY <1>3 DEF PollLapped, Lapped
  <2>2. Lane(r) \in Faulty
    BY <2>1, NeverLapped
  <2>3. /\ new \in PollRecords /\ new.pc = "idle" /\ new.batch = <<>>
        /\ new.todo = {} /\ new.found = {}
    BY <1>0 DEF IdlePoll, FreshPoll, PollRecords
  <2> HIDE DEF new
  <2>4. poll'[r] = new
    BY <1>0, <2>1 DEF TypeOK
  <2>5. Polling(r)'
    BY <2>3, <2>4 DEF Polling
  <2>6. ASSUME NEW l \in Lanes, l[2] = r
        PROVE  seen'[l] <= Issued(l) /\ seen[l] - Due(l) <= seen'[l] - Due(l)'
    <3>1. Due(l) \in Nat /\ seen[l] \in Nat /\ seen[l] <= Issued(l)
      BY <2>1, <2>6, AtLane
    <3>2. Due(l)' = 0
      BY <2>3, <2>4, <2>6 DEF Due
    <3> QED
      BY <2>1, <3>1, <3>2
  <2>7. /\ seen' \in [Lanes -> Nat] /\ lost' \in [Ranks -> Int]
        /\ taken' \in [Lanes -> Seq(Nat)] /\ Isolated'
    BY <1>0, <2>1, <2>2 DEF TypeOK, Isolated
  <2> QED
    BY <2>1, <2>3, <2>5, <2>6, <2>7, PollFrame
<1> QED
  BY <1>1, <1>2, <1>3

(* The steps of a raw poll that look for what is left. *)
LEMMA PollSearches ==
  ASSUME MeshInv, NEW r \in Ranks, PollRecover(r) \/ PollScan(r)
  PROVE  MeshInv'
<1> DEFINE l == Lane(r)
<1>0. /\ poll[r].pc # "idle" /\ ~safe
      /\ UNCHANGED <<safe, sendVars, counter, seen, lost, taken, acked, ack, errors>>
  <2>1. CASE PollRecover(r)
    BY <2>1 DEF PollRecover, Lapped
  <2>2. CASE PollScan(r)
    BY <2>2 DEF PollScan, MeshInv, Polling
  <2> QED
    BY <2>1, <2>2
<1>1. /\ TypeOK /\ Polling(r) /\ Isolated /\ poll[r] \in PollRecords
      /\ l \in Lanes /\ l[2] = r /\ poll[r].batch \in Seq(MessageRecords)
      /\ seen[l] \in Nat /\ Issued(l) \in Nat
      /\ \A k \in Lanes : k[2] = r =>
            /\ Due(k) = InBatch(poll[r].batch, k) /\ Due(k) \in Nat
            /\ seen[k] \in Nat /\ seen[k] <= Issued(k)
  BY <1>0, AtLane
<1>2. /\ seen' \in [Lanes -> Nat] /\ lost' \in [Ranks -> Int]
      /\ taken' \in [Lanes -> Seq(Nat)] /\ Isolated'
  BY <1>0, <1>1 DEF TypeOK, Isolated
(* What suffices of the record the poll has next. *)
<1>3. ASSUME NEW new \in PollRecords, poll' = [poll EXCEPT ![r] = new], Polling(r)',
             \A k \in Lanes : k[2] = r => Due(k)' <= Due(k) /\ Due(k)' \in Nat
      PROVE  MeshInv'
  <2>1. ASSUME NEW k \in Lanes, k[2] = r
        PROVE  seen'[k] <= Issued(k) /\ seen[k] - Due(k) <= seen'[k] - Due(k)'
    BY <1>0, <1>1, <1>3, <2>1
  <2> QED
    BY <1>0, <1>2, <1>3, <2>1, PollFrame
<1>4. ASSUME NEW new \in PollRecords, poll' = [poll EXCEPT ![r] = new],
             new.pc \in {"scan", "deliver"}, new.batch = poll[r].batch,
             new.todo = poll[r].todo, new.pc = "deliver" => new.found # {},
             \A f \in new.found : seen[l] < f /\ f <= Issued(l)
      PROVE  MeshInv'
  <2>1. poll'[r] = new
    BY <1>1, <1>4 DEF TypeOK
  <2>2. Lane(r)' = Lane(r)
    BY <1>4, <2>1 DEF Lane
  <2>3. Polling(r)'
    BY <1>0, <1>1, <1>4, <2>1, <2>2 DEF Polling, Issued, sendVars
  <2>4. ASSUME NEW k \in Lanes, k[2] = r
        PROVE  Due(k)' <= Due(k) /\ Due(k)' \in Nat
    BY <1>1, <1>4, <2>1, <2>4 DEF Due
  <2> QED
    BY <1>3, <1>4, <2>3, <2>4
<1>5. CASE PollRecover(r)
  <2> DEFINE new == [poll[r] EXCEPT !.pc = "scan"]
  <2>1. poll[r].pc = "lane" /\ poll' = [poll EXCEPT ![r] = new]
    BY <1>1, <1>5 DEF PollRecover, Lapped, TypeOK
  <2>2. /\ new \in PollRecords /\ new.pc = "scan" /\ new.batch = poll[r].batch
        /\ new.todo = poll[r].todo /\ new.found = poll[r].found
    BY <1>1 DEF PollRecords
  <2>3. poll[r].found = {}
    BY <1>1, <2>1 DEF Polling
  <2> HIDE DEF new
  <2> QED
    BY <1>4, <2>1, <2>2, <2>3
<1>6. CASE PollScan(r)
  <2>1. PICK f \in Readable(l, poll[r].at) :
          LET found == poll[r].found \cup ({f} \ 0..seen[l])
          IN  IF poll[r].at + 1 < Depth[l]
              THEN poll' = [poll EXCEPT ![r].at = @ + 1, ![r].found = found]
              ELSE IF found = {}
                   THEN LeaveLane(r, poll[r].batch)
                   ELSE poll' = [poll EXCEPT ![r].pc = "deliver", ![r].found = found]
    BY <1>6 DEF PollScan
  <2> DEFINE found == poll[r].found \cup ({f} \ 0..seen[l])
  <2>2. f \in Nat /\ f <= Issued(l)
    BY <1>1, ReadableIs
  <2>3. /\ found \in SUBSET Nat
        /\ \A s \in found : seen[l] < s /\ s <= Issued(l)
    <3>1. poll[r].pc = "scan" /\ poll[r].found \in SUBSET Nat
      BY <1>1, <1>6 DEF PollScan, PollRecords
    <3>2. \A s \in poll[r].found : seen[l] < s /\ s <= Issued(l)
      BY <1>1, <3>1 DEF Polling
    <3> QED
      BY <1>1, <2>2, <3>1, <3>2
  <2> HIDE DEF l, found
  <2>4. CASE poll' = [poll EXCEPT ![r].at = @ + 1, ![r].found = found]
    <3> DEFINE new == [poll[r] EXCEPT !.at = @ + 1, !.found = found]
    <3>1. poll' = [poll EXCEPT ![r] = new]
      BY <1>1, <2>4 DEF TypeOK
    <3>2. poll[r].pc = "scan"
      BY <1>6 DEF PollScan
    <3>3. new \in PollRecords
      <4>1. poll[r].at + 1 \in Nat
        BY <1>1 DEF PollRecords
      <4> QED
        BY <1>1, <2>3, <4>1 DEF PollRecords
    <3>4. /\ new.pc = "scan" /\ new.batch = poll[r].batch
          /\ new.todo = poll[r].todo /\ new.found = found
      BY <1>1, <3>2 DEF PollRecords
    <3> HIDE DEF new
    <3> QED
      BY <1>4, <2>3, <3>1, <3>3, <3>4
  <2>5. CASE LeaveLane(r, poll[r].batch)
    <3>1. /\ poll'[r] \in PollRecords /\ poll' = [poll EXCEPT ![r] = poll'[r]]
          /\ Polling(r)'
          /\ \A k \in Lanes : k[2] = r => Due(k)' <= InBatch(poll[r].batch, k)
      BY <1>0, <1>1, <2>5, LeaveLaneIs
    <3>2. ASSUME NEW k \in Lanes, k[2] = r
          PROVE  Due(k)' <= Due(k) /\ Due(k)' \in Nat
      <4>1. poll'[r].batch \in Seq(MessageRecords)
        BY <3>1 DEF PollRecords
      <4>2. Due(k)' \in Nat
        BY <3>2, <4>1, InBatchIs DEF Due
      <4> QED
        BY <1>1, <3>1, <3>2, <4>2
    <3> QED
      BY <1>3, <3>1, <3>2
  <2>6. CASE found # {} /\ poll' = [poll EXCEPT ![r].pc = "deliver", ![r].found = found]
    <3> DEFINE new == [poll[r] EXCEPT !.pc = "deliver", !.found = found]
    <3>1. poll' = [poll EXCEPT ![r] = new]
      BY <1>1, <2>6 DEF TypeOK
    <3>2. new \in PollRecords
      BY <1>1, <2>3 DEF PollRecords
    <3>3. /\ new.pc = "deliver" /\ new.batch = poll[r].batch
          /\ new.todo = poll[r].todo /\ new.found = found
      BY <1>1 DEF PollRecords
    <3> HIDE DEF new
    <3> QED
      BY <1>4, <2>3, <2>6, <3>1, <3>2, <3>3
  <2> QED
    BY <2>1, <2>4, <2>5, <2>6 DEF l, found
<1> QED
  BY <1>5, <1>6

(* The sequence a poll takes next of its lane. *)
Taking(r) == IF poll[r].pc = "lane" THEN seen[Lane(r)] + 1 ELSE Min(poll[r].found)

(* It is past the cursor, has been issued, and precedes whatever else the  *)
(* poll has found; a safe poll takes the sequence it expects.              *)
LEMMA TakesPastCursor ==
  ASSUME MeshInv, NEW r \in Ranks, PollTake(r) \/ PollDeliver(r)
  PROVE  /\ Take(Lane(r), Taking(r)) /\ Lane(r) \in Lanes /\ Taking(r) \in Nat
         /\ seen[Lane(r)] < Taking(r) /\ Taking(r) <= Issued(Lane(r))
         /\ safe => Taking(r) = seen[Lane(r)] + 1
         /\ \A f \in poll[r].found \ {Taking(r)} : Taking(r) < f /\ f <= Issued(Lane(r))
<1> DEFINE l == Lane(r)
           s == Taking(r)
           rest == poll[r].found \ {s}
<1>0. Take(l, s) /\ poll[r].pc # "idle"
  BY DEF PollTake, PollDeliver, Taking
<1>1. /\ TypeOK /\ Polling(r) /\ poll[r] \in PollRecords
      /\ l \in Lanes /\ seen[l] \in Nat /\ Issued(l) \in Nat
  BY <1>0, AtLane
<1>2. /\ s \in Nat /\ seen[l] < s /\ s <= Issued(l) /\ (safe => s = seen[l] + 1)
      /\ \A f \in rest : s < f /\ f <= Issued(l)
  <2>1. CASE PollTake(r)
    <3>1. poll[r].pc = "lane" /\ seen[l] + 1 \in Readable(l, Position(l, seen[l] + 1))
      BY <2>1 DEF PollTake
    <3>2. s = seen[l] + 1 /\ poll[r].found = {}
      BY <1>1, <3>1 DEF Polling, Taking
    <3>3. s \in 1..Issued(l)
      BY <1>1, <3>1, <3>2, ReadableIs
    <3> QED
      BY <1>1, <3>2, <3>3
  <2>2. CASE PollDeliver(r)
    <3> DEFINE found == poll[r].found
    <3>1. found \in SUBSET Nat /\ found # {} /\ s = Min(found) /\ poll[r].pc = "deliver"
      BY <1>1, <2>2 DEF PollDeliver, PollRecords, Polling, Taking
    <3>2. \A f \in found : seen[l] < f /\ f <= Issued(l)
      BY <1>1, <3>1 DEF Polling
    <3>5. ~safe
      BY <1>1, <3>1 DEF Polling
    <3> HIDE DEF found, l
    <3>3. Min(found) \in found /\ \A f \in found : Min(found) <= f
      BY <3>1, MinIs
    <3>4. ASSUME NEW f \in found \ {s} PROVE s < f
      <4>1. f \in Nat /\ Min(found) \in Nat /\ Min(found) <= f /\ f # Min(found)
        BY <3>1, <3>3, <3>4
      <4>2. Min(found) < f
        BY <4>1
      <4> QED
        BY <3>1, <4>2
    <3> QED
      BY <3>1, <3>2, <3>3, <3>4, <3>5 DEF found
  <2> QED
    BY <2>1, <2>2
<1> QED
  BY <1>0, <1>1, <1>2

(* The steps of a poll that take a message. *)
LEMMA PollTakes ==
  ASSUME MeshInv, NEW r \in Ranks, PollTake(r) \/ PollDeliver(r)
  PROVE  MeshInv'
<1> DEFINE l == Lane(r)
           s == Taking(r)
           rest == poll[r].found \ {s}
           messages == Append(poll[r].batch, Message(l, s))
<1>0. /\ poll[r].pc # "idle" /\ Take(l, s)
      /\ UNCHANGED <<safe, sendVars, counter, acked, ack, errors>>
  BY DEF PollTake, PollDeliver, Taking
<1>1. /\ TypeOK /\ Polling(r) /\ Isolated /\ poll[r] \in PollRecords
      /\ l \in Lanes /\ l[2] = r /\ poll[r].batch \in Seq(MessageRecords)
      /\ seen[l] \in Nat /\ Issued(l) \in Nat
      /\ \A k \in Lanes : k[2] = r =>
            /\ Due(k) = InBatch(poll[r].batch, k) /\ Due(k) \in Nat
            /\ seen[k] \in Nat /\ seen[k] <= Issued(k)
  BY <1>0, AtLane
<1>2. /\ s \in Nat /\ seen[l] < s /\ s <= Issued(l)
      /\ \A f \in rest : s < f /\ f <= Issued(l)
  BY <1>0, TakesPastCursor
<1>3. Message(l, s) \in MessageRecords /\ Message(l, s).lane = l
  BY <1>1, <1>2 DEF Message, MessageRecords
<1> DEFINE m == Message(l, s)
<1>4. /\ messages \in Seq(MessageRecords)
      /\ \A k \in Lanes : InBatch(messages, k)
                           = InBatch(poll[r].batch, k) + IF k = l THEN 1 ELSE 0
  <2>1. m \in MessageRecords /\ m.lane = l
    BY <1>3
  <2> HIDE DEF m, l
  <2>2. Append(poll[r].batch, m) \in Seq(MessageRecords)
    BY <1>1, <2>1, AppendProperties
  <2>3. ASSUME NEW k \in Lanes
        PROVE  InBatch(Append(poll[r].batch, m), k)
                 = InBatch(poll[r].batch, k) + IF k = l THEN 1 ELSE 0
    <3>1. InBatch(Append(poll[r].batch, m), k)
            = InBatch(poll[r].batch, k) + IF m.lane = k THEN 1 ELSE 0
      BY <1>1, <2>1, InBatchIs
    <3> QED
      BY <2>1, <3>1
  <2> QED
    BY <2>2, <2>3 DEF m, l
<1> HIDE DEF s, messages, m
<1>5. /\ seen' = [seen EXCEPT ![l] = s]
      /\ seen' \in [Lanes -> Nat] /\ taken' \in [Lanes -> Seq(Nat)] /\ Isolated'
  <2>1. seen' = [seen EXCEPT ![l] = s] /\ taken' = [taken EXCEPT ![l] = Append(@, s)]
    BY <1>0 DEF Take
  <2>2. Append(taken[l], s) \in Seq(Nat)
    BY <1>1, <1>2 DEF TypeOK
  <2> QED
    BY <1>0, <1>1, <1>2, <2>1, <2>2 DEF TypeOK, Isolated
<1>6. lost' \in [Ranks -> Int]
  <2>1. Gap(l, s) \in Int
    BY <1>1, <1>2 DEF Gap
  <2>2. CASE PollTake(r)
    BY <1>1, <2>2 DEF PollTake, TypeOK
  <2>3. CASE PollDeliver(r)
    <3>1. lost' = [lost EXCEPT ![r] = @ + Gap(l, s)]
      BY <2>3 DEF PollDeliver, s, Taking
    <3> QED
      BY <1>1, <2>1, <3>1 DEF TypeOK
  <2> QED
    BY <2>2, <2>3
(* What suffices of the record the poll has next. *)
<1>7. ASSUME NEW new \in PollRecords, poll' = [poll EXCEPT ![r] = new], Polling(r)',
             \A k \in Lanes : k[2] = r => Due(k)' <= InBatch(messages, k) /\ Due(k)' \in Nat
      PROVE  MeshInv'
  <2>1. ASSUME NEW k \in Lanes
        PROVE  /\ k[2] # r => seen'[k] = seen[k]
               /\ k[2] = r => seen'[k] <= Issued(k) /\ seen[k] - Due(k) <= seen'[k] - Due(k)'
    <3>1. CASE k = l
      <4>1. seen'[k] = s
        BY <1>1, <1>5, <3>1 DEF TypeOK
      <4> QED
        BY <1>1, <1>2, <1>4, <1>7, <3>1, <4>1
    <3>2. CASE k # l
      <4>1. seen'[k] = seen[k]
        BY <1>1, <1>5, <3>2 DEF TypeOK
      <4> QED
        BY <1>1, <1>4, <1>7, <3>2, <4>1
    <3> QED
      BY <3>1, <3>2
  <2> QED
    BY <1>0, <1>5, <1>6, <1>7, <2>1, PollFrame
<1>8. CASE LeaveLane(r, messages)
  <2>1. /\ poll'[r] \in PollRecords /\ poll' = [poll EXCEPT ![r] = poll'[r]]
        /\ Polling(r)'
        /\ \A k \in Lanes : k[2] = r => Due(k)' <= InBatch(messages, k)
    BY <1>0, <1>4, <1>8, LeaveLaneIs
  <2>2. ASSUME NEW k \in Lanes, k[2] = r
        PROVE  Due(k)' <= InBatch(messages, k) /\ Due(k)' \in Nat
    <3>1. poll'[r].batch \in Seq(MessageRecords)
      BY <2>1 DEF PollRecords
    <3>2. Due(k)' \in Nat
      BY <2>2, <3>1, InBatchIs DEF Due
    <3> QED
      BY <2>1, <2>2, <3>2
  <2> QED
    BY <1>7, <2>1, <2>2
<1>9. ASSUME NEW new \in PollRecords, poll' = [poll EXCEPT ![r] = new],
             new.pc = poll[r].pc, new.batch = messages, new.todo = poll[r].todo,
             new.found = rest, new.pc = "deliver" => rest # {}
      PROVE  MeshInv'
  <2>1. poll'[r] = new
    BY <1>1, <1>9 DEF TypeOK
  <2>2. Lane(r)' = l
    BY <1>9, <2>1 DEF Lane
  <2>3. seen'[l] = s /\ safe' = safe
    BY <1>0, <1>1, <1>5 DEF TypeOK
  <2>3a. Issued(Lane(r))' = Issued(l)
    BY <1>0, <2>2 DEF Issued, sendVars
  <2>4. new.pc = "lane" => new.found = {}
    BY <1>1, <1>9 DEF Polling
  <2> HIDE DEF l, rest
  <2>5. Polling(r)'
    <3>1. \A f \in new.found : seen'[Lane(r)'] < f /\ f <= Issued(Lane(r))'
      BY <1>2, <1>9, <2>2, <2>3, <2>3a
    <3>2. poll'[r].found = new.found /\ poll'[r].pc = poll[r].pc /\ poll'[r].todo = poll[r].todo
      BY <1>9, <2>1
    <3> QED
      BY <1>0, <1>1, <1>9, <2>1, <2>3, <2>4, <3>1, <3>2 DEF Polling
  <2>6. ASSUME NEW k \in Lanes, k[2] = r
        PROVE  Due(k)' <= InBatch(messages, k) /\ Due(k)' \in Nat
    BY <1>0, <1>4, <1>9, <2>1, <2>6, InBatchIs DEF Due
  <2> QED
    BY <1>7, <1>9, <2>5, <2>6
<1>10. CASE PollTake(r)
  <2>1. poll[r].pc = "lane" /\ s = seen[l] + 1
    BY <1>10 DEF PollTake, s, Taking
  <2>2. \/ poll' = [poll EXCEPT ![r].read = @ + 1, ![r].batch = messages]
        \/ LeaveLane(r, messages)
    BY <1>10, <2>1 DEF PollTake, messages
  <2>3. CASE poll' = [poll EXCEPT ![r].read = @ + 1, ![r].batch = messages]
    <3> DEFINE new == [poll[r] EXCEPT !.read = @ + 1, !.batch = messages]
    <3>1. poll' = [poll EXCEPT ![r] = new]
      BY <1>1, <2>3 DEF TypeOK
    <3>2. new \in PollRecords
      <4>1. poll[r].read + 1 \in Nat
        BY <1>1 DEF PollRecords
      <4> QED
        BY <1>1, <1>4, <4>1 DEF PollRecords
    <3>3. /\ new.pc = "lane" /\ new.batch = messages
          /\ new.todo = poll[r].todo /\ new.found = poll[r].found
      BY <1>1, <2>1 DEF PollRecords
    <3>4. poll[r].found = {} /\ rest = {}
      BY <1>1, <2>1 DEF Polling
    <3> HIDE DEF new, rest
    <3> QED
      BY <1>9, <2>1, <3>1, <3>2, <3>3, <3>4
  <2> QED
    BY <1>8, <2>2, <2>3
<1>11. CASE PollDeliver(r)
  <2>1. poll[r].pc = "deliver" /\ s = Min(poll[r].found)
    BY <1>11 DEF PollDeliver, s, Taking
  <2>2. \/ LeaveLane(r, messages)
        \/ rest # {} /\ poll' = [poll EXCEPT ![r].found = rest, ![r].batch = messages]
    BY <1>11, <2>1 DEF PollDeliver, messages
  <2>3. CASE rest # {} /\ poll' = [poll EXCEPT ![r].found = rest, ![r].batch = messages]
    <3> DEFINE new == [poll[r] EXCEPT !.found = rest, !.batch = messages]
    <3>0. rest \in SUBSET Nat
      BY <1>1 DEF PollRecords
    <3> HIDE DEF rest
    <3>1. poll' = [poll EXCEPT ![r] = new]
      BY <1>1, <2>3 DEF TypeOK
    <3>2. new \in PollRecords
      BY <1>1, <1>4, <3>0 DEF PollRecords
    <3>3. /\ new.pc = poll[r].pc /\ new.batch = messages
          /\ new.todo = poll[r].todo /\ new.found = rest
      BY <1>1 DEF PollRecords
    <3> HIDE DEF new
    <3> QED
      BY <1>9, <2>3, <3>1, <3>2, <3>3
  <2> QED
    BY <1>8, <2>2, <2>3
<1> QED
  BY <1>10, <1>11

-----------------------------------------------------------------------------
(* The steps of sends *)

(* A step of the sender of l, whose Puts the counter it has read leaves    *)
(* room for.                                                               *)
LEMMA SendFrame ==
  ASSUME MeshInv, NEW l \in Lanes,
         UNCHANGED <<safe, counter, recvVars, acked, ack>>,
         sent' \in [Lanes -> Nat], cached' \in [Lanes -> Int],
         flying' \in [Lanes -> BOOLEAN], Isolated',
         \A k \in Lanes \ {l} :
           sent'[k] = sent[k] /\ cached'[k] = cached[k] /\ flying'[k] = flying[k],
         Issued(l) <= Issued(l)',
         l \notin Faulty =>
           cached'[l] <= counter[l] /\ (safe => Issued(l)' <= cached'[l] + Depth[l])
  PROVE  MeshInv'
<1>1. TypeOK /\ TypeOK'
  BY DEF MeshInv, TypeOK, recvVars
<1>2. /\ safe' = safe /\ counter' = counter /\ acked' = acked /\ ack' = ack
      /\ seen' = seen /\ lost' = lost /\ poll' = poll /\ taken' = taken
  BY DEF recvVars
<1>3. ASSUME NEW k \in Lanes
      PROVE  /\ Issued(k) \in Nat /\ Issued(k)' \in Nat /\ Issued(k) <= Issued(k)'
             /\ k # l => Issued(k)' = Issued(k)
  <2>1. Issued(k) \in Nat
    BY <1>1, LaneIs
  <2>2. sent'[k] \in Nat /\ flying'[k] \in BOOLEAN
    BY <1>1 DEF TypeOK
  <2>3. Issued(k)' \in Nat
    BY <2>2 DEF Issued
  <2>4. k # l => Issued(k)' = Issued(k)
    BY DEF Issued
  <2> QED
    BY <2>1, <2>3, <2>4
<1>4. \A k \in Lanes : Due(k)' = Due(k)
  BY <1>2 DEF Due
<1>5. ASSUME NEW r \in Ranks
      PROVE  Polling(r)'
  <2>1. Lane(r)' = Lane(r)
    BY <1>2 DEF Lane
  <2>2. Polling(r)
    BY DEF MeshInv
  <2>3. CASE poll[r].pc \in {"scan", "deliver"}
    <3>1. Lane(r) \in Lanes /\ poll[r] \in PollRecords /\ poll[r].found \in SUBSET Nat
      BY <1>1, <2>3, LaneOfPoll DEF TypeOK, PollRecords
    <3> QED
      BY <1>2, <1>3, <2>1, <2>2, <3>1 DEF Polling
  <2>4. CASE poll[r].pc \notin {"scan", "deliver"}
    BY <1>2, <2>2, <2>4 DEF Polling
  <2> QED
    BY <2>3, <2>4
<1>6. ASSUME NEW t \in Threads
      PROVE  Acking(t)'
  <2>1. Acking(t)
    BY DEF MeshInv
  <2>2. Due(ack[t].lane)' = Due(ack[t].lane)
    BY <1>2 DEF Due
  <2> QED
    BY <1>2, <2>1, <2>2 DEF Acking
<1>7. Exclusive'
  BY <1>2 DEF MeshInv, Exclusive
<1>8. ASSUME NEW k \in Lanes
      PROVE  seen'[k] <= Issued(k)'
  <2>1. seen[k] <= Issued(k) /\ seen[k] \in Nat
    BY <1>1, LaneIs DEF MeshInv
  <2> QED
    BY <1>2, <1>3, <2>1
<1>9. ASSUME NEW k \in Lanes \ Faulty
      PROVE  Roomy(k)'
  <2>1. Roomy(k)
    BY DEF MeshInv
  <2> QED
    BY <1>2, <1>3, <1>4, <2>1 DEF Roomy, Applied
<1> QED
  BY <1>1, <1>5, <1>6, <1>7, <1>8, <1>9 DEF MeshInv

(* A send on one lane keeps the invariant of every lane and of the sums. *)
LEMMA SendSteps ==
  ASSUME MeshInv, NEW l \in Lanes, Send(l)
  PROVE  MeshInv'
<1>1. /\ TypeOK /\ Isolated
      /\ sent[l] \in Nat /\ cached[l] \in Int /\ flying[l] \in BOOLEAN
      /\ counter[l] \in Int /\ seen[l] \in Nat /\ Depth[l] \in Nat /\ Due(l) \in Nat
      /\ Issued(l) = sent[l] + IF flying[l] THEN 1 ELSE 0
      /\ seen[l] <= Issued(l)
  BY LaneIs DEF MeshInv, Issued
<1>2. l \notin Faulty => /\ cached[l] <= counter[l] /\ counter[l] <= seen[l]
                         /\ safe => Issued(l) <= cached[l] + Depth[l]
  BY <1>1 DEF MeshInv, Roomy
<1>3. CASE SendPut(l)
  <2>1. /\ ~flying[l] /\ flying' = [flying EXCEPT ![l] = TRUE]
        /\ UNCHANGED <<safe, sent, counter, recvVars, acked, ack, errors>>
    BY <1>3 DEF SendPut, MaySend
  <2>2. \/ ~Gated(l, cached[l]) /\ cached' = cached
        \/ ~Gated(l, counter[l]) /\ cached' = [cached EXCEPT ![l] = counter[l]]
    BY <1>3 DEF SendPut
  <2>3. Issued(l)' = sent[l] + 1 /\ Issued(l) = sent[l]
    BY <1>1, <2>1 DEF Issued, TypeOK
  <2>4. /\ cached'[l] \in {cached[l], counter[l]}
        /\ safe => sent[l] + 1 <= cached'[l] + Depth[l]
    BY <1>1, <2>2 DEF Gated, TypeOK
  <2>5. /\ sent' \in [Lanes -> Nat] /\ cached' \in [Lanes -> Int]
        /\ flying' \in [Lanes -> BOOLEAN] /\ Isolated'
        /\ \A k \in Lanes \ {l} :
             sent'[k] = sent[k] /\ cached'[k] = cached[k] /\ flying'[k] = flying[k]
    BY <1>1, <2>1, <2>2 DEF TypeOK, Isolated
  <2>6. /\ Issued(l) <= Issued(l)'
        /\ l \notin Faulty =>
             cached'[l] <= counter[l] /\ (safe => Issued(l)' <= cached'[l] + Depth[l])
    BY <1>1, <1>2, <2>3, <2>4
  <2> QED
    BY <2>1, <2>5, <2>6, SendFrame
<1>4. CASE SendFull(l)
  <2>1. /\ cached' = [cached EXCEPT ![l] = counter[l]]
        /\ UNCHANGED <<safe, sent, flying, counter, recvVars, acked, ack, errors>>
    BY <1>4 DEF SendFull
  <2>2. Issued(l)' = Issued(l) /\ cached'[l] = counter[l]
    BY <1>1, <2>1 DEF Issued, TypeOK
  <2>3. /\ sent' \in [Lanes -> Nat] /\ cached' \in [Lanes -> Int]
        /\ flying' \in [Lanes -> BOOLEAN] /\ Isolated'
        /\ \A k \in Lanes \ {l} :
             sent'[k] = sent[k] /\ cached'[k] = cached[k] /\ flying'[k] = flying[k]
    BY <1>1, <2>1 DEF TypeOK, Isolated
  <2> QED
    BY <1>1, <1>2, <2>1, <2>2, <2>3, SendFrame
<1>5. CASE SendDisbelieve(l)
  <2>1. /\ ~flying[l] /\ Gated(l, cached[l]) /\ Incredible(l)
        /\ errors' = errors \cup
             {<<l, IF counter[l] < cached[l] THEN "regressed" ELSE "exceeds">>}
        /\ UNCHANGED <<safe, sendVars, counter, recvVars, acked, ack>>
    BY <1>5 DEF SendDisbelieve, MaySend
  <2>2. l \in Faulty
    <3> SUFFICES ASSUME l \notin Faulty PROVE FALSE
      OBVIOUS
    <3>1. cached[l] <= counter[l] /\ counter[l] <= sent[l]
      BY <1>1, <1>2, <2>1
    <3> QED
      BY <1>1, <2>1, <3>1 DEF Incredible
  <2>3. safe
    BY <2>1 DEF Gated
  <2>4. Isolated'
    BY <1>1, <2>1, <2>2, <2>3 DEF Isolated
  <2>5. /\ sent' \in [Lanes -> Nat] /\ cached' \in [Lanes -> Int]
        /\ flying' \in [Lanes -> BOOLEAN]
        /\ \A k \in Lanes \ {l} :
             sent'[k] = sent[k] /\ cached'[k] = cached[k] /\ flying'[k] = flying[k]
    BY <1>1, <2>1 DEF TypeOK, sendVars
  <2>6. Issued(l)' = Issued(l)
    BY <2>1 DEF Issued, sendVars
  <2> QED
    BY <1>1, <2>1, <2>2, <2>4, <2>5, <2>6, SendFrame
<1>6. CASE SendReturn(l)
  <2>1. /\ flying[l] /\ flying' = [flying EXCEPT ![l] = FALSE]
        /\ sent' = [sent EXCEPT ![l] = @ + 1]
        /\ UNCHANGED <<safe, cached, counter, recvVars, acked, ack, errors>>
    BY <1>6 DEF SendReturn
  <2>2. Issued(l)' = Issued(l)
    BY <1>1, <2>1 DEF Issued, TypeOK
  <2>3. /\ sent' \in [Lanes -> Nat] /\ cached' \in [Lanes -> Int]
        /\ flying' \in [Lanes -> BOOLEAN] /\ Isolated'
        /\ \A k \in Lanes \ {l} :
             sent'[k] = sent[k] /\ cached'[k] = cached[k] /\ flying'[k] = flying[k]
    BY <1>1, <2>1 DEF TypeOK, Isolated
  <2>4. /\ Issued(l) <= Issued(l)'
        /\ l \notin Faulty =>
             cached'[l] <= counter[l] /\ (safe => Issued(l)' <= cached'[l] + Depth[l])
    BY <1>1, <1>2, <2>1, <2>2
  <2> QED
    BY <2>1, <2>3, <2>4, SendFrame
<1> QED
  BY <1>3, <1>4, <1>5, <1>6 DEF Send

-----------------------------------------------------------------------------
(* The steps of acknowledgements *)

(* A step of the acknowledgement of thread t, on lane l.  It has the mutex *)
(* of its rank.                                                            *)
LEMMA AckFrame ==
  ASSUME MeshInv, NEW t \in Threads, NEW l \in Lanes, NEW new \in AckRecords,
         ack' = [ack EXCEPT ![t] = new], l[2] = t[1],
         UNCHANGED <<safe, sendVars, recvVars>>,
         counter' \in [Lanes -> Int], acked' \in [Lanes -> Nat],
         \A k \in Lanes \ {l} : counter'[k] = counter[k] /\ acked'[k] = acked[k],
         ack[t].pc # "idle" => ack[t].lane = l,
         new.pc # "idle" => new.lane = l,
         \A u \in Threads \ {t} : u[1] = t[1] => ack[u].pc = "idle",
         Acking(t)', Isolated', l \notin Faulty => Roomy(l)'
  PROVE  MeshInv'
<1>1. TypeOK
  BY DEF MeshInv
<1>2. /\ safe' = safe /\ sent' = sent /\ cached' = cached /\ flying' = flying
      /\ seen' = seen /\ lost' = lost /\ poll' = poll /\ taken' = taken
  BY DEF sendVars, recvVars
<1>3. TypeOK'
  BY <1>1, <1>2 DEF TypeOK
<1>4. ack'[t] = new /\ \A u \in Threads \ {t} : ack'[u] = ack[u]
  BY <1>1 DEF TypeOK
<1>5. \A k \in Lanes : Due(k)' = Due(k) /\ Issued(k)' = Issued(k)
  BY <1>2 DEF Due, Issued
<1>6. ASSUME NEW r \in Ranks
      PROVE  Polling(r)'
  <2>1. Lane(r)' = Lane(r)
    BY <1>2 DEF Lane
  <2>2. Polling(r)
    BY DEF MeshInv
  <2> QED
    BY <1>2, <2>1, <2>2 DEF Polling, Issued
<1>7. ASSUME NEW u \in Threads
      PROVE  Acking(u)'
  <2>1. CASE u = t
    BY <2>1
  <2>2. CASE u # t /\ ack[u].pc = "idle"
    BY <1>4, <2>2 DEF Acking
  <2>3. CASE u # t /\ ack[u].pc # "idle"
    <3>1. Acking(u) /\ ack'[u] = ack[u]
      BY <1>4, <2>3 DEF MeshInv
    <3>2. ack[u].lane \in Lanes \ {l}
      BY <2>3, <3>1 DEF Acking
    <3>3. /\ counter'[ack[u].lane] = counter[ack[u].lane]
          /\ acked'[ack[u].lane] = acked[ack[u].lane]
      BY <3>2
    <3>4. Due(ack[u].lane)' = Due(ack[u].lane)
      BY <1>2, <3>1 DEF Due
    <3> QED
      BY <1>2, <3>1, <3>3, <3>4 DEF Acking
  <2> QED
    BY <2>1, <2>2, <2>3
<1>8. Exclusive'
  BY <1>4 DEF MeshInv, Exclusive
<1>9. ASSUME NEW k \in Lanes \ Faulty
      PROVE  Roomy(k)'
  <2>1. CASE k = l
    BY <2>1
  <2>2. CASE k # l
    <3>1. Roomy(k) /\ counter'[k] = counter[k] /\ acked'[k] = acked[k]
      BY <2>2 DEF MeshInv
    <3>2. ASSUME NEW u \in Threads
          PROVE  Applied(u, k)' <=> Applied(u, k)
      BY <1>1, <1>4, <2>2 DEF Applied, TypeOK, AckRecords
    <3> QED
      BY <1>2, <1>5, <3>1, <3>2 DEF Roomy
  <2> QED
    BY <2>1, <2>2
<1>10. \A k \in Lanes : seen'[k] <= Issued(k)'
  BY <1>2, <1>5 DEF MeshInv
<1> QED
  BY <1>3, <1>6, <1>7, <1>8, <1>9, <1>10 DEF MeshInv

(* The mutex is free, and so is the mutex of the cursors: every message up *)
(* to the cursor has been returned.                                        *)
LEMMA AckIssues ==
  ASSUME MeshInv, NEW t \in Threads, NEW l \in Lanes, NEW s \in 1..seen[l], AckIssue(t, l, s)
  PROVE  MeshInv'
<1> DEFINE new == [IdleAck EXCEPT !.pc = "issued", !.lane = l, !.sequence = s]
<1>1. /\ safe /\ l[2] = t[1] /\ ack[t].pc = "idle" /\ MutexFree(t[1]) /\ BetweenPolls(t[1])
      /\ acked[l] < s /\ s <= seen[l] /\ ack' = [ack EXCEPT ![t] = new]
      /\ UNCHANGED <<safe, sendVars, counter, recvVars, acked, errors>>
  <2>1. acked[l] \in Nat /\ s \in Nat
    BY LaneIs DEF MeshInv
  <2> QED
    BY <2>1 DEF AckIssue
<1>2. /\ TypeOK /\ Isolated /\ acked[l] \in Nat /\ seen[l] \in Nat
      /\ counter[l] \in Int /\ s \in Nat
  BY LaneIs DEF MeshInv
<1>3. new \in AckRecords /\ new.pc = "issued" /\ new.lane = l /\ new.sequence = s
  <2>1. IdleAck \in AckRecords
    BY DEF IdleAck, AckRecords
  <2> QED
    BY <1>2, <2>1 DEF AckRecords
<1> HIDE DEF new
<1>4. ack'[t] = new /\ \A u \in Threads \ {t} : ack'[u] = ack[u]
  BY <1>1, <1>2 DEF TypeOK
<1>5. /\ counter' = counter /\ acked' = acked /\ seen' = seen /\ safe' = safe /\ poll' = poll
      /\ sent' = sent /\ cached' = cached /\ flying' = flying
  BY <1>1 DEF sendVars, recvVars
<1>6. Due(l) = 0 /\ Due(l)' = Due(l)
  BY <1>1, <1>5 DEF Due, BetweenPolls
<1>7. Acking(t)'
  <2>1. Due(ack[t].lane)' = Due(l)'
    BY <1>3, <1>4 DEF Due
  <2> QED
    BY <1>1, <1>2, <1>3, <1>4, <1>5, <1>6, <2>1 DEF Acking
<1>8. Isolated'
  BY <1>1, <1>2 DEF Isolated
<1>9. ASSUME l \notin Faulty
      PROVE  Roomy(l)'
  <2>1. Roomy(l)
    BY <1>9 DEF MeshInv
  <2>2. ASSUME NEW u \in Threads
        PROVE  Applied(u, l)' <=> Applied(u, l)
    BY <1>1, <1>3, <1>4 DEF Applied
  <2>3. Issued(l)' = Issued(l)
    BY <1>5 DEF Issued
  <2> QED
    BY <1>5, <1>6, <2>1, <2>2, <2>3 DEF Roomy
<1>10. counter' \in [Lanes -> Int] /\ acked' \in [Lanes -> Nat]
  BY <1>2, <1>5 DEF TypeOK
<1>11. \A u \in Threads \ {t} : u[1] = t[1] => ack[u].pc = "idle"
  BY <1>1 DEF MutexFree
<1>12. \A k \in Lanes \ {l} : counter'[k] = counter[k] /\ acked'[k] = acked[k]
  BY <1>5
<1> QED
  BY <1>1, <1>3, <1>7, <1>8, <1>9, <1>10, <1>11, <1>12, AckFrame

(* The acknowledgement in progress takes effect, is recorded, or fails. *)
LEMMA AckMoves ==
  ASSUME MeshInv, NEW t \in Threads, NEW l \in Lanes, ack[t].lane = l,
         AckApply(t) \/ AckReturn(t) \/ AckFails(t)
  PROVE  MeshInv'
<1> DEFINE s == ack[t].sequence
<1>1. ack[t].pc # "idle" /\ UNCHANGED <<safe, sendVars, recvVars>>
  BY DEF AckApply, AckReturn, AckFails
<1>2. /\ TypeOK /\ Isolated /\ Acking(t) /\ Exclusive /\ safe
      /\ l \in Lanes /\ l[2] = t[1] /\ ack[t] \in AckRecords /\ s \in Nat
      /\ acked[l] < s /\ s <= seen[l] - Due(l)
      /\ ack[t].pc = "applied" /\ l \notin Faulty =>
           ack[t].previous = acked[l] /\ counter[l] = s
  BY <1>1 DEF MeshInv, Acking, TypeOK, AckRecords
<1> HIDE DEF s
<1>3. /\ counter[l] \in Int /\ acked[l] \in Nat /\ seen[l] \in Nat /\ Due(l) \in Nat
      /\ cached[l] \in Int
  BY <1>2, LaneIs
<1>4. \A u \in Threads \ {t} : u[1] = t[1] => ack[u].pc = "idle"
  BY <1>1, <1>2 DEF Exclusive
<1>5. ack[t].lane = l
  OBVIOUS
<1>6. /\ safe' = safe /\ sent' = sent /\ cached' = cached /\ flying' = flying
      /\ seen' = seen /\ poll' = poll
  BY <1>1 DEF sendVars, recvVars
<1>7. ASSUME NEW u \in Threads \ {t}
      PROVE  ~Applied(u, l)
  <2> SUFFICES ASSUME ack[u].pc = "applied", ack[u].lane = l PROVE FALSE
    BY DEF Applied
  <2>1. ack[u].lane[2] = u[1]
    BY DEF MeshInv, Acking
  <2> QED
    BY <1>2, <1>4, <2>1
<1>8. CASE AckApply(t)
  <2> DEFINE new == [ack[t] EXCEPT !.pc = "applied", !.previous = counter[l]]
  <2>1. /\ ack[t].pc = "issued" /\ ack' = [ack EXCEPT ![t] = new]
        /\ counter' = [counter EXCEPT ![l] = @ + (s - acked[l])]
        /\ acked' = acked /\ errors' = errors
    BY <1>2, <1>8 DEF AckApply, s, TypeOK
  <2>2. /\ new \in AckRecords /\ new.pc = "applied" /\ new.lane = l
        /\ new.sequence = s /\ new.previous = counter[l]
    BY <1>2, <1>3, <1>5 DEF AckRecords, s
  <2> HIDE DEF new
  <2>3. ack'[t] = new
    BY <1>2, <2>1 DEF TypeOK
  <2>4. counter'[l] = counter[l] + (s - acked[l])
    BY <1>2, <2>1 DEF TypeOK
  <2>5. /\ counter' \in [Lanes -> Int] /\ acked' \in [Lanes -> Nat] /\ Isolated'
        /\ \A k \in Lanes \ {l} : counter'[k] = counter[k] /\ acked'[k] = acked[k]
    BY <1>2, <1>3, <1>6, <2>1 DEF TypeOK, Isolated
  <2>6. ASSUME l \notin Faulty
        PROVE  /\ cached[l] <= counter[l] /\ (safe => Issued(l) <= cached[l] + Depth[l])
               /\ counter[l] = acked[l] /\ counter'[l] = s
    <3>1. Roomy(l)
      BY <1>2, <2>6 DEF MeshInv
    <3>2. ~Applied(t, l)
      BY <2>1 DEF Applied
    <3>3. counter[l] = acked[l]
      BY <1>7, <3>1, <3>2 DEF Roomy
    <3> QED
      BY <1>2, <1>3, <2>4, <3>1, <3>3 DEF Roomy
  <2>7. Acking(t)'
    <3>1. Due(ack[t].lane)' = Due(l)
      BY <1>6, <2>2, <2>3 DEF Due
    <3> QED
      BY <1>2, <1>6, <2>1, <2>2, <2>3, <2>6, <3>1 DEF Acking
  <2>8. ASSUME l \notin Faulty
        PROVE  Roomy(l)'
    <3>1. Applied(t, l)'
      BY <2>2, <2>3 DEF Applied
    <3>2. Due(l)' = Due(l) /\ Issued(l)' = Issued(l)
      BY <1>6 DEF Due, Issued
    <3>3. cached[l] <= s /\ s <= seen[l] - Due(l)
      BY <1>2, <1>3, <2>6, <2>8
    <3> QED
      BY <1>6, <2>6, <2>8, <3>1, <3>2, <3>3 DEF Roomy
  <2> QED
    BY <1>1, <1>2, <1>4, <1>5, <2>1, <2>2, <2>5, <2>7, <2>8, AckFrame
<1>9. ASSUME ack' = [ack EXCEPT ![t] = IdleAck], acked' \in [Lanes -> Nat],
             \A k \in Lanes \ {l} : acked'[k] = acked[k], counter' = counter,
             Isolated', l \notin Faulty => ack[t].pc = "applied" /\ acked'[l] = s
      PROVE  MeshInv'
  <2>1. IdleAck \in AckRecords /\ IdleAck.pc = "idle"
    BY DEF IdleAck, AckRecords
  <2>2. ack'[t].pc = "idle"
    BY <1>2, <1>9, <2>1 DEF TypeOK
  <2>3. Acking(t)'
    BY <2>2 DEF Acking
  <2>4. ASSUME l \notin Faulty
        PROVE  Roomy(l)'
    <3>1. Due(l)' = Due(l) /\ Issued(l)' = Issued(l)
      BY <1>6 DEF Due, Issued
    <3>2. Roomy(l) /\ counter[l] = acked'[l]
      BY <1>2, <1>9, <2>4 DEF MeshInv
    <3> QED
      BY <1>6, <1>9, <3>1, <3>2 DEF Roomy
  <2>5. counter' \in [Lanes -> Int] /\ \A k \in Lanes \ {l} : counter'[k] = counter[k]
    BY <1>2, <1>9 DEF TypeOK
  <2> QED
    BY <1>1, <1>2, <1>4, <1>5, <1>9, <2>1, <2>3, <2>4, <2>5, AckFrame
<1>10. CASE AckReturn(t)
  <2>1. /\ ack[t].pc = "applied" /\ ack' = [ack EXCEPT ![t] = IdleAck]
        /\ counter' = counter
        /\ \/ /\ ack[t].previous = acked[l] /\ errors' = errors
              /\ acked' = [acked EXCEPT ![l] = s]
           \/ /\ ack[t].previous # acked[l] /\ acked' = acked
              /\ errors' = errors \cup {<<l, "diverged">>}
    BY <1>10 DEF AckReturn, s
  <2>2. l \notin Faulty => acked' = [acked EXCEPT ![l] = s] /\ errors' = errors
    BY <1>2, <2>1
  <2>3. Isolated'
    BY <1>2, <1>6, <2>1, <2>2 DEF Isolated
  <2>4. /\ acked' \in [Lanes -> Nat] /\ \A k \in Lanes \ {l} : acked'[k] = acked[k]
        /\ l \notin Faulty => acked'[l] = s
    BY <1>2, <2>1, <2>2 DEF TypeOK
  <2> QED
    BY <1>9, <2>1, <2>3, <2>4
<1>11. CASE AckFails(t)
  <2>1. /\ l \in Faulty /\ ack' = [ack EXCEPT ![t] = IdleAck]
        /\ counter' = counter /\ acked' = acked /\ errors' = errors
    BY <1>11 DEF AckFails
  <2>2. acked' \in [Lanes -> Nat] /\ Isolated'
    BY <1>2, <1>6, <2>1 DEF TypeOK, Isolated
  <2> QED
    BY <1>9, <2>1, <2>2
<1> QED
  BY <1>8, <1>10, <1>11

-----------------------------------------------------------------------------
(* The invariant of the ring *)

(* A mesh of fresh lanes satisfies the invariant. *)
LEMMA FreshInv ==
  ASSUME NEW mode \in BOOLEAN, Fresh(mode)
  PROVE  MeshInv
<1> DEFINE none == IdlePoll(<<>>)
<1>2. none \in PollRecords /\ none.pc = "idle" /\ none.batch = <<>>
  BY DEF IdlePoll, FreshPoll, PollRecords
<1>3. IdleAck \in AckRecords /\ IdleAck.pc = "idle"
  BY DEF IdleAck, AckRecords
<1>4. poll = [r \in Ranks |-> none] /\ ack = [t \in Threads |-> IdleAck]
  BY DEF Fresh
<1> HIDE DEF none
<1>5. safe \in BOOLEAN
  BY DEF Fresh
<1>6. Zero \in [Lanes -> Nat] /\ \A l \in Lanes : Zero[l] = 0
  BY DEF Zero
<1>7. /\ sent = Zero /\ cached = Zero /\ counter = Zero /\ seen = Zero /\ acked = Zero
      /\ flying = [l \in Lanes |-> FALSE] /\ lost = [r \in Ranks |-> 0]
      /\ taken = [l \in Lanes |-> <<>>] /\ errors = {}
  BY DEF Fresh
<1>8. TypeOK
  BY <1>2, <1>3, <1>4, <1>5, <1>6, <1>7 DEF TypeOK
<1>9. (\A r \in Ranks : Polling(r)) /\ (\A t \in Threads : Acking(t)) /\ Exclusive /\ Isolated
  BY <1>2, <1>3, <1>4, <1>7 DEF Polling, Acking, Exclusive, Isolated
<1>10. ASSUME NEW l \in Lanes
       PROVE  seen[l] <= Issued(l) /\ Roomy(l)
  <2>1. Due(l) = 0
    BY <1>2, <1>4, <1>8, LaneIs DEF Due
  <2>2. Issued(l) = 0
    BY <1>6, <1>7 DEF Issued
  <2>3. Depth[l] \in Nat
    BY <1>8, LaneIs
  <2> QED
    BY <1>6, <1>7, <2>1, <2>2, <2>3 DEF Roomy
<1> QED
  BY <1>8, <1>9, <1>10 DEF MeshInv

(* Whatever the kind of ring. *)
LEMMA MeshInitInv ==
  ASSUME MeshInit
  PROVE  MeshInv
<1>1. PICK mode \in Modes : Fresh(mode)
  BY DEF MeshInit
<1> QED
  BY <1>1, FreshInv, MeshAssumption

(* And every step of any of its ranks keeps it. *)
LEMMA MeshStepInv ==
  ASSUME MeshInv, [MeshNext]_meshVars
  PROVE  MeshInv'
<1>1. CASE UNCHANGED meshVars
  <2>1. /\ safe' = safe /\ sent' = sent /\ cached' = cached /\ flying' = flying
        /\ counter' = counter /\ seen' = seen /\ lost' = lost /\ poll' = poll
        /\ taken' = taken /\ acked' = acked /\ ack' = ack /\ errors' = errors
    BY <1>1 DEF meshVars, sendVars, recvVars
  <2>2. TypeOK' /\ Exclusive' /\ Isolated'
    BY <2>1 DEF MeshInv, TypeOK, Exclusive, Isolated
  <2>3. ASSUME NEW r \in Ranks PROVE Polling(r)'
    <3>1. Lane(r)' = Lane(r)
      BY <2>1 DEF Lane
    <3> QED
      BY <2>1, <3>1 DEF MeshInv, Polling, Issued
  <2>4. ASSUME NEW t \in Threads PROVE Acking(t)'
    <3>1. Due(ack[t].lane)' = Due(ack[t].lane)
      BY <2>1 DEF Due
    <3> QED
      BY <2>1, <3>1 DEF MeshInv, Acking
  <2>5. ASSUME NEW l \in Lanes
        PROVE  (seen[l] <= Issued(l))' /\ (l \notin Faulty => Roomy(l)')
    <3>1. Due(l)' = Due(l) /\ Issued(l)' = Issued(l)
      BY <2>1 DEF Due, Issued
    <3> QED
      BY <2>1, <3>1 DEF MeshInv, Roomy, Applied
  <2> QED
    BY <2>2, <2>3, <2>4, <2>5 DEF MeshInv
<1>2. ASSUME NEW l \in Lanes, Send(l) PROVE MeshInv'
  BY <1>2, SendSteps
<1>3. ASSUME NEW r \in Ranks, Poll(r) PROVE MeshInv'
  BY <1>3, PollMoves, PollSearches, PollTakes DEF Poll
<1>4. ASSUME NEW t \in Threads, Ack(t) PROVE MeshInv'
  <2>1. CASE \E l \in Lanes : \E s \in 1..seen[l] : AckIssue(t, l, s)
    BY <2>1, AckIssues
  <2>2. CASE AckApply(t) \/ AckReturn(t) \/ AckFails(t)
    <3>1. ack[t].pc # "idle" /\ Acking(t)
      BY <2>2 DEF AckApply, AckReturn, AckFails, MeshInv
    <3>2. PICK l \in Lanes : ack[t].lane = l
      BY <3>1 DEF Acking
    <3> QED
      BY <2>2, <3>2, AckMoves
  <2> QED
    BY <1>4, <2>1, <2>2 DEF Ack
<1> QED
  BY <1>1, <1>2, <1>3, <1>4 DEF MeshNext

(* The invariant holds of every ring. *)
THEOREM MeshInvariant == MeshSpec => []MeshInv
<1>1. MeshInit => MeshInv
  BY MeshInitInv
<1>2. MeshInv /\ [MeshNext]_meshVars => MeshInv'
  BY MeshStepInv
<1> QED
  BY <1>1, <1>2, PTL DEF MeshSpec

(* With words read at once, only a lane whose own acknowledgements failed  *)
(* is ever reported broken: neither the threads that poll and acknowledge  *)
(* one ring nor a broken lane makes Ring::poll or Ring::send report        *)
(* another one.                                                            *)
THEOREM IsolatedTheorem == MeshSpec => []Isolated
<1>1. MeshInv => Isolated
  BY DEF MeshInv
<1> QED
  BY <1>1, MeshInvariant, PTL

(* Ring::ack never gives back the room of a message that a poll still      *)
(* holds in its batch.                                                     *)
THEOREM AckedWereReturnedTheorem == MeshSpec => []AckedWereReturned
<1>1. MeshInv => AckedWereReturned
  BY DEF MeshInv, AckedWereReturned, Roomy
<1> QED
  BY <1>1, MeshInvariant, PTL

-----------------------------------------------------------------------------
(* Sums over the lanes into a rank *)

(* The element of a set that the sum takes first. *)
Pick(s) == CHOOSE x \in s : TRUE

(* The sums over all subsets of S, if g is what adds them up. *)
Sums(g, f, S) == [s \in SUBSET S |-> IF s = {} THEN 0 ELSE f[Pick(s)] + g[s \ {Pick(s)}]]

Sum(f, S) == CHOOSE g : g = Sums(g, f, S)

(* What holds of the empty set, and of a set when it does of the set       *)
(* without its first element, holds of all subsets of a finite set.        *)
LEMMA SubsetsByPicking ==
  ASSUME NEW S, IsFiniteSet(S), NEW G, {} \in G,
         \A s \in SUBSET S : s # {} /\ s \ {Pick(s)} \in G => s \in G
  PROVE  SUBSET S \subseteq G
<1> DEFINE Sizes == {Cardinality(s) : s \in (SUBSET S) \ G}
<1> SUFFICES ASSUME (SUBSET S) \ G # {} PROVE FALSE
  OBVIOUS
<1>1. \A s \in SUBSET S : IsFiniteSet(s) /\ Cardinality(s) \in Nat
  BY FS_Subset, FS_CardinalityType
<1>2. Sizes \in SUBSET Nat /\ Sizes # {}
  BY <1>1
<1>3. PICK n \in Sizes : \A m \in Sizes : n <= m
  BY <1>2, LeastNatural
<1>4. PICK s \in (SUBSET S) \ G : Cardinality(s) = n
  BY <1>3
<1> DEFINE x == Pick(s)
<1>5. s # {} /\ x \in s
  BY <1>4 DEF Pick
<1> HIDE DEF x
<1>6. Cardinality(s \ {x}) = Cardinality(s) - 1
  BY <1>1, <1>4, <1>5, FS_RemoveElement
<1>7. s \ {x} \in SUBSET S /\ s \ {x} \notin G
  BY <1>4, <1>5 DEF x
<1>8. n <= Cardinality(s \ {x})
  BY <1>3, <1>7
<1> QED
  BY <1>1, <1>4, <1>6, <1>8

(* There is a function that adds up: it is built one size after another. *)
LEMMA SumExists ==
  ASSUME NEW S, IsFiniteSet(S), NEW f, \A x \in S : f[x] \in Int
  PROVE  \E g : g = Sums(g, f, S)
<1> DEFINE UpTo(n) == {s \in SUBSET S : Cardinality(s) <= n}
           Next(g, s) == IF s = {} THEN 0 ELSE f[Pick(s)] + g[s \ {Pick(s)}]
           AddsUp(n) == \E g : g = [s \in UpTo(n) |-> Next(g, s)]
           Bad == {n \in Nat : ~AddsUp(n)}
<1>1. \A s \in SUBSET S : IsFiniteSet(s) /\ Cardinality(s) \in Nat /\ Cardinality(s) <= Cardinality(S)
  BY FS_Subset, FS_CardinalityType
<1>2. \A s \in SUBSET S : s # {} =>
        /\ Pick(s) \in s /\ s \ {Pick(s)} \in SUBSET S
        /\ Cardinality(s \ {Pick(s)}) = Cardinality(s) - 1
  <2> SUFFICES ASSUME NEW s \in SUBSET S, s # {}
               PROVE  Pick(s) \in s /\ Cardinality(s \ {Pick(s)}) = Cardinality(s) - 1
    OBVIOUS
  <2> DEFINE x == Pick(s)
  <2>1. x \in s
    BY DEF Pick
  <2> HIDE DEF x
  <2>2. Cardinality(s \ {x}) = Cardinality(s) - 1
    BY <1>1, <2>1, FS_RemoveElement
  <2> QED
    BY <2>1, <2>2 DEF x
<1>3. AddsUp(0)
  <2> DEFINE g == [s \in UpTo(0) |-> 0]
  <2>1. UpTo(0) = {{}}
    BY <1>1, FS_EmptySet
  <2>2. g = [s \in UpTo(0) |-> Next(g, s)]
    BY <2>1
  <2> QED
    BY <2>2
<1>4. ASSUME NEW n \in Nat, AddsUp(n)
      PROVE  AddsUp(n + 1)
  <2>1. PICK g : g = [s \in UpTo(n) |-> Next(g, s)]
    BY <1>4
  <2> DEFINE h == [s \in UpTo(n + 1) |-> Next(g, s)]
  <2>2. ASSUME NEW s \in UpTo(n + 1)
        PROVE  Next(g, s) = Next(h, s)
    <3>1. CASE s = {}
      BY <3>1
    <3>2. CASE s # {}
      <4> DEFINE t == s \ {Pick(s)}
      <4>1. t \in UpTo(n) /\ t \in UpTo(n + 1)
        BY <1>1, <1>2, <3>2
      <4> HIDE DEF t
      <4>2. g[t] = Next(g, t) /\ h[t] = Next(g, t)
        BY <2>1, <4>1
      <4>3. g[t] = h[t]
        BY <4>2
      <4> HIDE DEF h
      <4> QED
        BY <3>2, <4>3 DEF t
    <3> QED
      BY <3>1, <3>2
  <2>3. h = [s \in UpTo(n + 1) |-> Next(h, s)]
    BY <2>2
  <2> QED
    BY <2>3
<1>5. Bad = {}
  <2> SUFFICES ASSUME Bad # {} PROVE FALSE
    OBVIOUS
  <2>1. PICK n \in Bad : \A m \in Bad : n <= m
    BY LeastNatural
  <2> HIDE DEF AddsUp
  <2>2. n \in Nat /\ n # 0 /\ ~AddsUp(n)
    BY <1>3, <2>1
  <2>3. n - 1 \in Nat /\ n - 1 \notin Bad
    BY <2>1, <2>2
  <2>4. AddsUp((n - 1) + 1)
    BY <1>4, <2>3
  <2> QED
    BY <2>2, <2>4
<1>6. UpTo(Cardinality(S)) = SUBSET S
  BY <1>1
<1>7. AddsUp(Cardinality(S))
  BY <1>1, <1>5
<1> QED
  BY <1>6, <1>7 DEF Sums

(* So the sums satisfy their definition, and are integers. *)
LEMMA SumIs ==
  ASSUME NEW S, IsFiniteSet(S), NEW f, \A x \in S : f[x] \in Int
  PROVE  /\ Total(f, S) = Sum(f, S)[S]
         /\ Sum(f, S)[{}] = 0
         /\ \A s \in SUBSET S : s # {} =>
              Pick(s) \in s /\ Sum(f, S)[s] = f[Pick(s)] + Sum(f, S)[s \ {Pick(s)}]
         /\ \A s \in SUBSET S : Sum(f, S)[s] \in Int
<1> DEFINE g == Sum(f, S)
<1>1. Total(f, S) = g[S]
  BY DEF Total, MapThenSumSet, MapThenFoldSet, Sum, Sums, Pick
<1>2. g = Sums(g, f, S)
  BY SumExists DEF Sum
<1> HIDE DEF g
<1>3. g[{}] = 0
  BY <1>2 DEF Sums
<1>4. \A s \in SUBSET S : s # {} => Pick(s) \in s
  BY DEF Pick
<1>5. \A s \in SUBSET S : s # {} => g[s] = f[Pick(s)] + g[s \ {Pick(s)}]
  BY <1>2 DEF Sums
<1> DEFINE G == {s \in SUBSET S : g[s] \in Int}
<1>6. {} \in G
  BY <1>3
<1>7. ASSUME NEW s \in SUBSET S, s # {}, s \ {Pick(s)} \in G
      PROVE  s \in G
  BY <1>4, <1>5, <1>7
<1> HIDE DEF G
<1>8. SUBSET S \subseteq G
  BY <1>6, <1>7, SubsetsByPicking
<1> QED
  BY <1>1, <1>3, <1>4, <1>5, <1>8 DEF G, g

(* Two functions that differ in one place have totals that differ by as    *)
(* much.                                                                   *)
LEMMA TotalMoves ==
  ASSUME NEW S, IsFiniteSet(S), NEW f, NEW h, NEW l \in S,
         \A x \in S : f[x] \in Int /\ h[x] \in Int,
         \A x \in S \ {l} : h[x] = f[x]
  PROVE  /\ Total(f, S) \in Int
         /\ Total(h, S) = Total(f, S) + (h[l] - f[l])
<1> DEFINE F == Sum(f, S)
           H == Sum(h, S)
           d == h[l] - f[l]
           G == {s \in SUBSET S : H[s] = F[s] + IF l \in s THEN d ELSE 0}
<1>0. d \in Int
  OBVIOUS
<1>1. /\ Total(f, S) = F[S] /\ F[{}] = 0
      /\ \A s \in SUBSET S : s # {} =>
           Pick(s) \in s /\ F[s] = f[Pick(s)] + F[s \ {Pick(s)}]
      /\ \A s \in SUBSET S : F[s] \in Int
  BY SumIs
<1>2. /\ Total(h, S) = H[S] /\ H[{}] = 0
      /\ \A s \in SUBSET S : s # {} => H[s] = h[Pick(s)] + H[s \ {Pick(s)}]
      /\ \A s \in SUBSET S : H[s] \in Int
  BY SumIs
<1> HIDE DEF F, H
<1>3. {} \in G
  BY <1>1, <1>2
<1>4. ASSUME NEW s \in SUBSET S, s # {}, s \ {Pick(s)} \in G
      PROVE  s \in G
  <2> DEFINE x == Pick(s)
             t == s \ {x}
  <2>1. x \in s /\ F[s] = f[x] + F[t] /\ H[s] = h[x] + H[t]
    BY <1>1, <1>2, <1>4
  <2>2. H[t] = F[t] + IF l \in t THEN d ELSE 0
    BY <1>4
  <2>3. F[t] \in Int /\ H[t] \in Int
    BY <1>1, <1>2
  <2> HIDE DEF x, d
  <2>4. CASE x = l
    <3>1. l \notin t /\ l \in s /\ h[l] = f[l] + d
      BY <2>1, <2>4 DEF d
    <3> QED
      BY <1>0, <2>1, <2>2, <2>3, <2>4, <3>1
  <2>5. CASE x # l
    <3>1. (l \in t <=> l \in s) /\ h[x] = f[x] /\ f[x] \in Int
      BY <2>1, <2>5
    <3> QED
      BY <1>0, <2>1, <2>2, <2>3, <3>1
  <2> QED
    BY <2>4, <2>5
<1> HIDE DEF G
<1>5. SUBSET S \subseteq G
  BY <1>3, <1>4, SubsetsByPicking
<1>6. S \in G
  BY <1>5
<1> QED
  BY <1>0, <1>1, <1>2, <1>6 DEF G

(* The total depends on nothing outside. *)
LEMMA TotalSame ==
  ASSUME NEW S, NEW f, NEW h, IsFiniteSet(S), \A x \in S : f[x] \in Int /\ h[x] = f[x]
  PROVE  Total(h, S) = Total(f, S) /\ Total(f, S) \in Int
<1>1. CASE S = {}
  BY <1>1, SumIs
<1>2. CASE S # {}
  <2>1. PICK l \in S : TRUE
    BY <1>2
  <2>2. h[l] = f[l] /\ f[l] \in Int
    BY <2>1
  <2>3. Total(f, S) \in Int /\ Total(h, S) = Total(f, S) + (h[l] - f[l])
    BY TotalMoves
  <2> QED
    BY <2>2, <2>3
<1> QED
  BY <1>1, <1>2

(* The total of zeros. *)
LEMMA TotalZero ==
  ASSUME NEW S, IsFiniteSet(S), NEW f, \A x \in S : f[x] = 0
  PROVE  Total(f, S) = 0
<1> DEFINE F == Sum(f, S)
           G == {s \in SUBSET S : F[s] = 0}
<1>1. /\ Total(f, S) = F[S] /\ F[{}] = 0
      /\ \A s \in SUBSET S : s # {} =>
           Pick(s) \in s /\ F[s] = f[Pick(s)] + F[s \ {Pick(s)}]
  <2>1. \A x \in S : f[x] \in Int
    OBVIOUS
  <2>2. Total(f, S) = Sum(f, S)[S]
    BY <2>1, SumIs
  <2>3. Sum(f, S)[{}] = 0
    BY <2>1, SumIs
  <2>4. \A s \in SUBSET S : s # {} =>
          Pick(s) \in s /\ Sum(f, S)[s] = f[Pick(s)] + Sum(f, S)[s \ {Pick(s)}]
    BY <2>1, SumIs, ZenonT(30)
  <2> QED
    BY <2>2, <2>3, <2>4
<1> HIDE DEF F
<1>2. {} \in G
  BY <1>1
<1>3. ASSUME NEW s \in SUBSET S, s # {}, s \ {Pick(s)} \in G
      PROVE  s \in G
  BY <1>1, <1>3
<1> HIDE DEF G
<1>4. SUBSET S \subseteq G
  BY <1>2, <1>3, SubsetsByPicking
<1> QED
  BY <1>1, <1>4 DEF G

-----------------------------------------------------------------------------
(* Each lane is a queue *)

Accepted(l) == [s \in 1..Issued(l) |-> l]

TakenOff(l) == [i \in DOMAIN taken[l] |-> [sequence |-> taken[l][i], data |-> l]]

(* A step that leaves the words of a lane alone is none of its queue. *)
LEMMA FifoStutters ==
  ASSUME NEW l \in Lanes, Issued(l)' = Issued(l), counter'[l] = counter[l],
         seen'[l] = seen[l], taken'[l] = taken[l]
  PROVE  FifoStep(l)
<1>1. Accepted(l)' = Accepted(l) /\ TakenOff(l)' = TakenOff(l)
  BY DEF Accepted, TakenOff
<1> QED
  BY <1>1 DEF FifoStep, Fifo!fifoVars, Accepted, TakenOff, Issued

(* Issuing a Put is accepting its message, for which there is room. *)
LEMMA FifoAccepts ==
  ASSUME MeshInv, NEW l \in Lanes \ Faulty, SendPut(l)
  PROVE  FifoStep(l)
<1>1. /\ TypeOK /\ sent[l] \in Nat /\ counter[l] \in Int /\ cached[l] \in Int
      /\ Limit[l] \in Nat /\ Depth[l] \in Nat
  BY LaneIs DEF MeshInv
<1>2. /\ flying[l] = FALSE /\ flying'[l] = TRUE /\ sent[l] < Limit[l]
      /\ sent' = sent /\ safe' = safe /\ counter' = counter
      /\ seen' = seen /\ taken' = taken
  BY <1>1 DEF SendPut, MaySend, TypeOK, recvVars
<1>3. Issued(l) = sent[l] /\ Issued(l)' = sent[l] + 1
  BY <1>1, <1>2 DEF Issued
<1>4. safe => sent[l] - counter[l] < Depth[l]
  <2>1. ~Gated(l, cached[l]) \/ ~Gated(l, counter[l])
    BY DEF SendPut
  <2>2. cached[l] <= counter[l]
    BY DEF MeshInv, Roomy
  <2> QED
    BY <1>1, <2>1, <2>2 DEF Gated
<1>5. /\ Accepted(l) \in Seq({l}) /\ Len(Accepted(l)) = sent[l]
      /\ Accepted(l)' = Append(Accepted(l), l)
  <2> DEFINE n == sent[l]
             a == [s \in 1..n |-> l]
             b == [s \in 1..(n + 1) |-> l]
  <2>1. n \in Nat
    BY <1>1
  <2> HIDE DEF n
  <2>2. a \in Seq({l}) /\ Len(a) = n /\ b \in Seq({l}) /\ Len(b) = n + 1
    BY <2>1
  <2>3. b = Append(a, l)
    BY <2>1, <2>2
  <2> QED
    BY <1>3, <2>2, <2>3 DEF Accepted, n
<1> QED
  BY <1>1, <1>2, <1>3, <1>4, <1>5 DEF FifoStep, Fifo!Next, Fifo!Accept, Fifo!Room, Accepted, Issued

(* Taking a message moves the cursor to it; on a safe lane to the next. *)
LEMMA FifoTakes ==
  ASSUME MeshInv, NEW l \in Lanes, NEW s \in 1..Issued(l), Take(l, s), s > seen[l],
         safe => s = seen[l] + 1, counter' = counter, UNCHANGED sendVars, safe' = safe
  PROVE  FifoStep(l)
<1>1. TypeOK /\ seen[l] \in Nat /\ Issued(l) \in Nat /\ taken[l] \in Seq(Nat)
  BY LaneIs DEF MeshInv, TypeOK
<1>2. seen'[l] = s /\ taken'[l] = Append(taken[l], s)
  BY <1>1 DEF Take, TypeOK
<1>3. Issued(l)' = Issued(l) /\ Accepted(l)' = Accepted(l)
  BY DEF Accepted, Issued, sendVars
<1>4. Len(Accepted(l)) = Issued(l) /\ Accepted(l)[s] = l
  <2> DEFINE n == Issued(l)
  <2>1. n \in Nat
    BY <1>1
  <2> HIDE DEF n
  <2>2. [i \in 1..n |-> l] \in Seq({l}) /\ Len([i \in 1..n |-> l]) = n
    BY <2>1
  <2>3. Accepted(l) = [i \in 1..n |-> l]
    BY DEF Accepted, n
  <2> QED
    BY <2>2, <2>3 DEF n
<1>5. /\ TakenOff(l)' = Append(TakenOff(l), [sequence |-> s, data |-> l])
      /\ Len(taken'[l]) = Len(taken[l]) + 1 /\ Len(taken[l]) \in Nat
  <2> DEFINE q == taken[l]
             longer == Append(q, s)
             m(i) == [sequence |-> i, data |-> l]
             old == [i \in DOMAIN q |-> m(q[i])]
             new == [i \in DOMAIN longer |-> m(longer[i])]
             M == [sequence : Nat, data : {l}]
  <2>1. q \in Seq(Nat) /\ s \in Nat
    BY <1>1
  <2>2. TakenOff(l) = old /\ TakenOff(l)' = new
    BY <1>2 DEF TakenOff
  <2> HIDE DEF q
  <2>3. /\ longer \in Seq(Nat) /\ Len(longer) = Len(q) + 1 /\ Len(q) \in Nat
        /\ longer[Len(q) + 1] = s /\ \A i \in 1..Len(q) : longer[i] = q[i]
        /\ DOMAIN q = 1..Len(q)
    BY <2>1, AppendProperties, LenProperties
  <2>4. DOMAIN longer = 1..(Len(q) + 1)
    BY <2>3, LenProperties
  <2> HIDE DEF longer
  <2>5. old \in Seq(M) /\ Len(old) = Len(q) /\ m(s) \in M
    BY <2>1, <2>3
  <2>6. new \in Seq(M) /\ Len(new) = Len(q) + 1
    BY <2>3, <2>4
  <2> HIDE DEF old, M
  <2>7. /\ Append(old, m(s)) \in Seq(M) /\ Len(Append(old, m(s))) = Len(old) + 1
        /\ Append(old, m(s))[Len(old) + 1] = m(s)
        /\ \A i \in 1..Len(old) : Append(old, m(s))[i] = old[i]
    BY <2>5, AppendProperties
  <2>8. \A i \in 1..(Len(q) + 1) : new[i] = Append(old, m(s))[i]
    BY <2>3, <2>4, <2>5, <2>7 DEF old
  <2>9. new = Append(old, m(s))
    BY <2>3, <2>5, <2>6, <2>7, <2>8, SeqEqual
  <2> QED
    BY <1>2, <2>2, <2>3, <2>9 DEF q, longer
<1>6. seen'[l] - Len(taken'[l]) = (seen[l] - Len(taken[l])) + (s - seen[l] - 1)
  BY <1>1, <1>2, <1>5
<1>7. s \in 1..Len(Accepted(l))
  BY <1>4
<1> QED
  BY <1>2, <1>3, <1>4, <1>5, <1>6, <1>7 DEF FifoStep, Fifo!Next, Fifo!Take, Accepted, TakenOff, Issued

(* An acknowledgement gives back the room of messages that were taken. *)
LEMMA FifoReleases ==
  ASSUME MeshInv, NEW t \in Threads, NEW l \in Lanes \ Faulty, ack[t].lane = l, AckApply(t)
  PROVE  FifoStep(l)
<1> DEFINE s == ack[t].sequence
<1>1. /\ TypeOK /\ Acking(t) /\ Exclusive /\ Roomy(l) /\ ack[t].pc = "issued"
      /\ ack[t] \in AckRecords
  BY DEF MeshInv, AckApply, TypeOK
<1>2. /\ safe /\ acked[l] < s /\ s <= seen[l] - Due(l) /\ s \in Nat
  BY <1>1 DEF Acking, AckRecords
<1>3. /\ counter[l] \in Int /\ acked[l] \in Nat /\ seen[l] \in Nat /\ Due(l) \in Nat
      /\ Issued(l) \in Nat /\ seen[l] <= Issued(l)
  BY <1>1, LaneIs DEF MeshInv
<1>4. ASSUME NEW u \in Threads
      PROVE  ~Applied(u, l)
  <2> SUFFICES ASSUME ack[u].pc = "applied", ack[u].lane = l PROVE FALSE
    BY DEF Applied
  <2>1. ack[u].lane[2] = u[1] /\ ack[t].lane[2] = t[1]
    BY <1>1 DEF MeshInv, Acking
  <2> QED
    BY <1>1, <2>1 DEF Exclusive
<1>5. counter[l] = acked[l]
  BY <1>1, <1>4 DEF Roomy
<1>6. /\ safe' = safe /\ seen' = seen /\ taken' = taken /\ sent' = sent /\ flying' = flying
      /\ counter'[l] = counter[l] + (s - acked[l])
  BY <1>1 DEF AckApply, sendVars, recvVars, TypeOK
<1> HIDE DEF s
<1>7. counter'[l] = s /\ counter[l] < s /\ s <= seen[l] /\ s \in 1..Issued(l)
  BY <1>2, <1>3, <1>5, <1>6
<1>8. Len(Accepted(l)) = Issued(l) /\ Accepted(l)' = Accepted(l) /\ TakenOff(l)' = TakenOff(l)
  <2> DEFINE n == Issued(l)
  <2>1. n \in Nat
    BY <1>3
  <2> HIDE DEF n
  <2>2. Len([i \in 1..n |-> l]) = n
    BY <2>1
  <2> QED
    BY <1>6, <2>2 DEF Accepted, Issued, TakenOff, n
<1> QED
  BY <1>2, <1>6, <1>7, <1>8
  DEF FifoStep, Fifo!Next, Fifo!Release, Accepted, TakenOff, Issued

(* Every step of the ring is a step of each queue, or none of it. *)
LEMMA LanesStep ==
  ASSUME MeshInv, MeshNext, NEW l \in Lanes \ Faulty
  PROVE  FifoStep(l)
<1>1. TypeOK /\ sent[l] \in Nat /\ flying[l] \in BOOLEAN
  BY LaneIs DEF MeshInv
<1>2. ASSUME NEW k \in Lanes, Send(k)
      PROVE  FifoStep(l)
  <2>1. counter' = counter /\ seen' = seen /\ taken' = taken
    BY <1>2 DEF Send, SendPut, SendFull, SendDisbelieve, SendReturn, recvVars
  <2>2. CASE SendPut(k) /\ k = l
    BY <2>2, FifoAccepts
  <2>3. CASE ~(SendPut(k) /\ k = l)
    <3>1. Issued(l)' = Issued(l)
      <4>1. CASE SendPut(k) /\ k # l
        BY <1>1, <4>1 DEF SendPut, Issued, TypeOK
      <4>2. CASE SendFull(k) \/ SendDisbelieve(k)
        BY <4>2 DEF SendFull, SendDisbelieve, sendVars, Issued
      <4>3. CASE SendReturn(k)
        BY <1>1, <4>3 DEF SendReturn, Issued, TypeOK
      <4> QED
        BY <1>2, <2>3, <4>1, <4>2, <4>3 DEF Send
    <3> QED
      BY <2>1, <3>1, FifoStutters
  <2> QED
    BY <2>2, <2>3
<1>3. ASSUME NEW r \in Ranks, Poll(r)
      PROVE  FifoStep(l)
  <2>1. counter' = counter /\ UNCHANGED sendVars /\ safe' = safe
    BY <1>3 DEF Poll, PollStart, PollMiss, PollTake, PollLapped, PollRecover, PollScan,
       PollDeliver
  <2>2. Issued(l)' = Issued(l)
    BY <2>1 DEF Issued, sendVars
  <2>3. CASE PollTake(r) \/ PollDeliver(r)
    <3>1. /\ Take(Lane(r), Taking(r)) /\ Lane(r) \in Lanes /\ Taking(r) \in Nat
          /\ seen[Lane(r)] < Taking(r) /\ Taking(r) <= Issued(Lane(r))
          /\ safe => Taking(r) = seen[Lane(r)] + 1
      BY <2>3, TakesPastCursor
    <3>2. CASE Lane(r) = l
      <4>1. PICK s \in Nat : s = Taking(r)
        BY <3>1
      <4>2. seen[l] \in Nat /\ Issued(l) \in Nat
        BY <1>1, LaneIs
      <4>3. /\ s \in 1..Issued(l) /\ Take(l, s) /\ s > seen[l]
            /\ safe => s = seen[l] + 1
        BY <3>1, <3>2, <4>1, <4>2
      <4> QED
        BY <2>1, <4>3, FifoTakes
    <3>3. CASE Lane(r) # l
      <4>1. seen'[l] = seen[l] /\ taken'[l] = taken[l]
        BY <1>1, <3>1, <3>3 DEF Take, TypeOK
      <4> QED
        BY <2>1, <2>2, <4>1, FifoStutters
    <3> QED
      BY <3>2, <3>3
  <2>4. CASE ~(PollTake(r) \/ PollDeliver(r))
    <3>1. seen' = seen /\ taken' = taken
      BY <1>3, <2>4 DEF Poll, PollStart, PollMiss, PollLapped, PollRecover, PollScan
    <3> QED
      BY <2>1, <2>2, <3>1, FifoStutters
  <2> QED
    BY <2>3, <2>4
<1>4. ASSUME NEW t \in Threads, Ack(t)
      PROVE  FifoStep(l)
  <2>1. UNCHANGED <<sendVars, recvVars>>
    BY <1>4 DEF Ack, AckIssue, AckApply, AckReturn, AckFails
  <2>2. seen' = seen /\ taken' = taken /\ Issued(l)' = Issued(l)
    BY <2>1 DEF sendVars, recvVars, Issued
  <2>3. CASE AckApply(t) /\ ack[t].lane = l
    BY <2>3, FifoReleases
  <2>4. CASE ~(AckApply(t) /\ ack[t].lane = l)
    <3>1. counter'[l] = counter[l]
      <4>1. CASE AckApply(t)
        BY <1>1, <2>4, <4>1 DEF AckApply, TypeOK
      <4>2. CASE ~AckApply(t)
        BY <1>4, <4>2 DEF Ack, AckIssue, AckReturn, AckFails
      <4> QED
        BY <4>1, <4>2
    <3> QED
      BY <2>2, <3>1, FifoStutters
  <2> QED
    BY <2>3, <2>4
<1> QED
  BY <1>2, <1>3, <1>4 DEF MeshNext

(* Each lane whose acknowledgements do not fail is a queue of its own,     *)
(* bounded and lossless on a safe ring and lossy on a raw one, whatever    *)
(* happens on the lanes that share its polls, its mutexes and its threads. *)
THEOREM LanesAreFifoTheorem == MeshSpec => LanesAreFifo
<1>1. MeshInit => \A l \in Lanes \ Faulty : Fifo(l, TRUE)!Init
  <2> SUFFICES ASSUME MeshInit, NEW l \in Lanes
               PROVE  Fifo(l, TRUE)!Init
    OBVIOUS
  <2>1. /\ sent[l] = 0 /\ flying[l] = FALSE /\ seen[l] = 0 /\ counter[l] = 0
        /\ taken[l] = <<>>
    BY DEF MeshInit, Fresh, Zero
  <2>2. Accepted(l) = <<>> /\ TakenOff(l) = <<>>
    BY <2>1 DEF Accepted, TakenOff, Issued
  <2>3. seen[l] - Len(taken[l]) = 0
    <3> DEFINE q == taken[l]
    <3>1. q = <<>> /\ q \in Seq(Nat)
      BY <2>1
    <3> HIDE DEF q
    <3>2. Len(q) = 0
      BY <3>1
    <3>3. seen[l] = 0
      BY <2>1
    <3> QED
      BY <3>2, <3>3 DEF q
  <2> QED
    BY <2>1, <2>2, <2>3 DEF Fifo!Init, Accepted, TakenOff, Issued
<1>2. MeshInv /\ [MeshNext]_meshVars => [\A l \in Lanes \ Faulty : FifoStep(l)]_meshVars
  BY LanesStep
<1> QED
  BY <1>1, <1>2, MeshInvariant, PTL DEF MeshSpec, LanesAreFifo

-----------------------------------------------------------------------------
(* The loss counter of a ring *)

Lengths == [l \in Lanes |-> Len(taken[l])]

(* What taking a message adds to the cursor of its lane is the message and *)
(* the gap before it.                                                      *)
LEMMA AccountedStep ==
  ASSUME MeshInv, RingAccounted, MeshNext
  PROVE  RingAccounted'
<1>1. /\ TypeOK /\ \A l \in Lanes : seen[l] \in Nat /\ Len(taken[l]) \in Nat
      /\ \A r \in Ranks : IsFiniteSet(Incoming(r)) /\ Incoming(r) \subseteq Lanes
  <2>1. TypeOK
    BY DEF MeshInv
  <2>2. \A l \in Lanes : seen[l] \in Nat /\ Len(taken[l]) \in Nat
    BY <2>1 DEF TypeOK
  <2>3. IsFiniteSet(Lanes)
    BY MeshAssumption, FS_Product, FS_Subset
  <2>4. \A r \in Ranks : IsFiniteSet(Incoming(r)) /\ Incoming(r) \subseteq Lanes
    BY <2>3, FS_Subset DEF Incoming
  <2> QED
    BY <2>1, <2>2, <2>4
<1>2. CASE seen' = seen /\ taken' = taken /\ lost' = lost
  BY <1>2 DEF RingAccounted
<1>3. ASSUME NEW q \in Ranks, PollTake(q) \/ PollDeliver(q)
      PROVE  RingAccounted'
  <2>1. /\ Take(Lane(q), Taking(q)) /\ Lane(q) \in Lanes /\ Taking(q) \in Nat
        /\ seen[Lane(q)] < Taking(q) /\ Lane(q)[2] = q
    BY <1>3, TakesPastCursor, LaneOfPoll DEF PollTake, PollDeliver
  <2>2. PICK l \in Lanes, s \in Nat : l = Lane(q) /\ s = Taking(q)
    BY <2>1
  <2>3. /\ seen' = [seen EXCEPT ![l] = s] /\ taken' = [taken EXCEPT ![l] = Append(@, s)]
        /\ l[2] = q /\ seen[l] < s
    BY <2>1, <2>2 DEF Take
  <2>4. lost' = [lost EXCEPT ![q] = @ + (s - seen[l] - 1)]
    <3>1. CASE PollTake(q)
      <4>1. s = seen[l] + 1 /\ lost' = lost
        BY <2>2, <3>1 DEF PollTake, Taking
      <4>2. lost[q] + (s - seen[l] - 1) = lost[q] /\ lost \in [Ranks -> Int]
        BY <1>1, <4>1 DEF TypeOK
      <4> QED
        BY <4>1, <4>2
    <3>2. CASE PollDeliver(q)
      BY <2>2, <3>2 DEF PollDeliver, Taking, Gap
    <3> QED
      BY <1>3, <3>1, <3>2
  <2>5. /\ seen'[l] = s /\ Lengths'[l] = Lengths[l] + 1
        /\ \A k \in Lanes : Lengths[k] \in Int /\ Lengths'[k] \in Int /\ seen'[k] \in Int
        /\ \A k \in Lanes \ {l} : seen'[k] = seen[k] /\ Lengths'[k] = Lengths[k]
    <3>1. Len(Append(taken[l], s)) = Len(taken[l]) + 1
      BY <1>1 DEF TypeOK
    <3>2. taken'[l] = Append(taken[l], s) /\ \A k \in Lanes \ {l} : taken'[k] = taken[k]
      BY <1>1, <2>3 DEF TypeOK
    <3>3. seen'[l] = s /\ \A k \in Lanes \ {l} : seen'[k] = seen[k]
      BY <1>1, <2>3 DEF TypeOK
    <3>4. Lengths'[l] = Lengths[l] + 1 /\ \A k \in Lanes \ {l} : Lengths'[k] = Lengths[k]
      BY <3>1, <3>2 DEF Lengths
    <3>5. \A k \in Lanes : Lengths[k] \in Nat
      BY <1>1 DEF Lengths
    <3> QED
      BY <1>1, <3>3, <3>4, <3>5
  <2>6. ASSUME NEW r \in Ranks
        PROVE  lost'[r] + Total(Lengths', Incoming(r)) = Total(seen', Incoming(r))
    <3> DEFINE into == Incoming(r)
    <3>1. lost[r] + Total(Lengths, into) = Total(seen, into) /\ lost[r] \in Int
      BY <1>1 DEF RingAccounted, Lengths, TypeOK
    <3>2. IsFiniteSet(into) /\ into \subseteq Lanes
      BY <1>1
    <3>3. CASE r = q
      <4>1. l \in into
        BY <2>3, <3>3 DEF Incoming
      <4> HIDE DEF into
      <4>2. /\ Total(Lengths, into) \in Int
            /\ Total(Lengths', into) = Total(Lengths, into) + (Lengths'[l] - Lengths[l])
        BY <2>5, <3>2, <4>1, TotalMoves
      <4>3. /\ Total(seen, into) \in Int
            /\ Total(seen', into) = Total(seen, into) + (seen'[l] - seen[l])
        <5>1. \A k \in into : seen[k] \in Int /\ seen'[k] \in Int
          BY <1>1, <2>5, <3>2
        <5>2. \A k \in into \ {l} : seen'[k] = seen[k]
          BY <2>5, <3>2
        <5> QED
          BY <3>2, <4>1, <5>1, <5>2, TotalMoves
      <4>4. lost'[r] = lost[r] + (s - seen[l] - 1)
        BY <1>1, <2>4, <3>3 DEF TypeOK
      <4>5. Lengths'[l] - Lengths[l] = 1 /\ seen'[l] = s /\ seen[l] \in Int
        BY <1>1, <2>5
      <4> QED
        BY <3>1, <4>2, <4>3, <4>4, <4>5 DEF into
    <3>4. CASE r # q
      <4>1. l \notin into
        BY <2>3, <3>4 DEF Incoming
      <4> HIDE DEF into
      <4>2. Total(Lengths', into) = Total(Lengths, into)
        BY <2>5, <3>2, <4>1, TotalSame
      <4>3. Total(seen', into) = Total(seen, into)
        BY <1>1, <2>5, <3>2, <4>1, TotalSame
      <4>4. lost'[r] = lost[r]
        BY <1>1, <2>4, <3>4 DEF TypeOK
      <4> QED
        BY <3>1, <4>2, <4>3, <4>4 DEF into
    <3> QED
      BY <3>3, <3>4
  <2> QED
    BY <2>6 DEF RingAccounted, Lengths
<1>4. ASSUME NEW q \in Ranks, Poll(q), ~(PollTake(q) \/ PollDeliver(q))
      PROVE  seen' = seen /\ taken' = taken /\ lost' = lost
  BY <1>4 DEF Poll, PollStart, PollMiss, PollLapped, PollRecover, PollScan
<1>5. ASSUME NEW l \in Lanes, Send(l)
      PROVE  seen' = seen /\ taken' = taken /\ lost' = lost
  BY <1>5 DEF Send, SendPut, SendFull, SendDisbelieve, SendReturn, recvVars
<1>6. ASSUME NEW t \in Threads, Ack(t)
      PROVE  seen' = seen /\ taken' = taken /\ lost' = lost
  BY <1>6 DEF Ack, AckIssue, AckApply, AckReturn, AckFails, recvVars
<1> QED
  BY <1>2, <1>3, <1>4, <1>5, <1>6 DEF MeshNext

(* Nothing was taken or lost of fresh lanes. *)
LEMMA FreshAccounted ==
  ASSUME NEW mode \in BOOLEAN, Fresh(mode)
  PROVE  RingAccounted
<1> SUFFICES ASSUME NEW r \in Ranks
             PROVE  lost[r] + Total(Lengths, Incoming(r)) = Total(seen, Incoming(r))
  BY DEF RingAccounted, Lengths
<1>1. /\ lost[r] = 0 /\ \A l \in Lanes : seen[l] = 0 /\ taken[l] = <<>>
  BY DEF Fresh, Zero
<1>2. \A l \in Lanes : Lengths[l] = 0
  BY <1>1 DEF Lengths
<1>3. IsFiniteSet(Lanes)
  BY MeshAssumption, FS_Product, FS_Subset
<1>4. IsFiniteSet(Incoming(r)) /\ Incoming(r) \subseteq Lanes
  BY <1>3, FS_Subset DEF Incoming
<1> DEFINE into == Incoming(r)
<1> HIDE DEF into
<1>5. Total(Lengths, into) = 0 /\ Total(seen, into) = 0
  BY <1>1, <1>2, <1>4, TotalZero DEF into
<1> QED
  BY <1>1, <1>5 DEF into

(* The one loss counter of a ring and the messages polls have taken        *)
(* account for the cursors of all its incoming lanes together.             *)
THEOREM RingAccountedTheorem == MeshSpec => []RingAccounted
<1>1. MeshInit => RingAccounted
  BY FreshAccounted, MeshAssumption DEF MeshInit
<1>2. MeshInv /\ RingAccounted /\ [MeshNext]_meshVars => RingAccounted'
  <2>1. CASE UNCHANGED meshVars
    BY <2>1 DEF RingAccounted, meshVars, recvVars
  <2> QED
    BY <2>1, AccountedStep
<1> QED
  BY <1>1, <1>2, MeshInvariant, PTL DEF MeshSpec

-----------------------------------------------------------------------------
(* Polls of a ring whose acknowledgements do not fail *)

(* Clearing the batch of a poll that has returned disturbs nothing. *)
LEMMA ClearKeepsMesh ==
  ASSUME MeshInv, NEW r \in Ranks, poll[r].pc = "idle",
         poll' = [poll EXCEPT ![r].batch = <<>>],
         UNCHANGED <<safe, sendVars, counter, seen, lost, taken, acked, ack, errors>>
  PROVE  MeshInv'
<1> DEFINE new == [poll[r] EXCEPT !.batch = <<>>]
<1>1. /\ TypeOK /\ Polling(r) /\ Isolated /\ poll[r] \in PollRecords
      /\ \A l \in Lanes : seen[l] <= Issued(l)
  BY DEF MeshInv, TypeOK
<1>2. new \in PollRecords /\ poll' = [poll EXCEPT ![r] = new]
  <2>1. <<>> \in Seq(MessageRecords)
    OBVIOUS
  <2>2. new \in PollRecords
    BY <1>1, <2>1 DEF PollRecords
  <2>3. poll' = [poll EXCEPT ![r] = new]
    BY <1>1 DEF TypeOK
  <2> QED
    BY <2>2, <2>3
<1>3. poll'[r] = new
  BY <1>1, <1>2 DEF TypeOK
<1>4. Polling(r)'
  BY <1>1, <1>3 DEF Polling, PollRecords
<1>5. \A l \in Lanes : l[2] = r => Due(l) = 0 /\ Due(l)' = 0
  BY <1>3 DEF Due, PollRecords
<1>6. Isolated'
  BY <1>1 DEF Isolated
<1>7. /\ seen' \in [Lanes -> Nat] /\ lost' \in [Ranks -> Int]
      /\ taken' \in [Lanes -> Seq(Nat)]
  BY <1>1 DEF TypeOK
<1>8. \A l \in Lanes : l[2] = r =>
        seen'[l] <= Issued(l) /\ seen[l] - Due(l) <= seen'[l] - Due(l)'
  <2>1. \A l \in Lanes : seen[l] \in Nat /\ seen'[l] = seen[l]
    BY <1>1 DEF TypeOK
  <2> QED
    BY <1>1, <1>5, <2>1
<1> QED
  BY <1>2, <1>4, <1>6, <1>7, <1>8, PollFrame

(* Leaving a lane, a poll keeps its batch and drops the lane. *)
LEMMA LeaveLaneDoes ==
  ASSUME TypeOK, NEW r \in Ranks, NEW messages, LeaveLane(r, messages)
  PROVE  /\ \A q \in Ranks \ {r} : poll'[q] = poll[q]
         /\ poll'[r].batch = messages
         /\ poll'[r].todo = poll[r].todo \ {Lane(r)}
         /\ poll'[r].pc = IF poll'[r].todo = {} THEN "idle" ELSE "lane"
         /\ poll'[r].at = 0
<1> DEFINE todo == poll[r].todo \ {Lane(r)}
           idle == IdlePoll(messages)
           visit == Visit(todo, messages)
<1>1. /\ idle.pc = "idle" /\ idle.batch = messages /\ idle.todo = {} /\ idle.at = 0
      /\ visit.pc = "lane" /\ visit.batch = messages /\ visit.todo = todo /\ visit.at = 0
  BY DEF IdlePoll, Visit, FreshPoll
<1>2. poll' = [poll EXCEPT ![r] = IF todo = {} THEN idle ELSE visit]
  BY DEF LeaveLane
<1> HIDE DEF todo, idle, visit
<1>3. /\ poll'[r] = IF todo = {} THEN idle ELSE visit
      /\ \A q \in Ranks \ {r} : poll'[q] = poll[q]
  BY <1>2 DEF TypeOK
<1> QED
  BY <1>1, <1>3 DEF todo

(* A step of a poll takes the next message of its lane into its batch, or  *)
(* leaves the cursors and the batch alone; no poll fails.                  *)
LEMMA PollDoes ==
  ASSUME MeshInv, Faulty = {}, NEW r \in Ranks, Poll(r), poll[r].pc # "idle"
  PROVE  /\ \A q \in Ranks \ {r} : poll'[q] = poll[q]
         /\ safe' = safe /\ errors' = errors /\ UNCHANGED sendVars
         /\ \/ /\ UNCHANGED <<seen, lost, taken>> /\ poll'[r].batch = poll[r].batch
               /\ PollMiss(r) \/ PollRecover(r) \/ PollScan(r)
            \/ /\ PollTake(r) \/ PollDeliver(r)
               /\ poll'[r].batch = Append(poll[r].batch, Message(Lane(r), Taking(r)))
               /\ safe => UNCHANGED lost
<1>1. TypeOK /\ Polling(r) /\ poll[r] \in PollRecords
  BY AtLane
<1>2. ~PollStart(r) /\ ~PollLapped(r)
  BY NeverLapped DEF PollStart, PollLapped
<1>3. CASE PollMiss(r)
  BY <1>1, <1>3, LeaveLaneDoes DEF PollMiss
<1>4. CASE PollRecover(r)
  <2> DEFINE new == [poll[r] EXCEPT !.pc = "scan"]
  <2>1. poll' = [poll EXCEPT ![r] = new]
    BY <1>1, <1>4 DEF PollRecover, TypeOK
  <2>2. new.batch = poll[r].batch
    BY <1>1 DEF PollRecords
  <2> HIDE DEF new
  <2>3. poll'[r] = new /\ \A q \in Ranks \ {r} : poll'[q] = poll[q]
    BY <1>1, <2>1 DEF TypeOK
  <2> QED
    BY <1>4, <2>2, <2>3 DEF PollRecover
<1>5. CASE PollScan(r)
  <2>1. PICK found :
          \/ poll' = [poll EXCEPT ![r].at = @ + 1, ![r].found = found]
          \/ LeaveLane(r, poll[r].batch)
          \/ poll' = [poll EXCEPT ![r].pc = "deliver", ![r].found = found]
    BY <1>5 DEF PollScan
  <2>2. CASE LeaveLane(r, poll[r].batch)
    BY <1>1, <1>5, <2>2, LeaveLaneDoes DEF PollScan
  <2>3. CASE poll' = [poll EXCEPT ![r].at = @ + 1, ![r].found = found]
    <3> DEFINE new == [poll[r] EXCEPT !.at = @ + 1, !.found = found]
    <3>1. poll' = [poll EXCEPT ![r] = new]
      BY <1>1, <2>3 DEF TypeOK
    <3>2. new.batch = poll[r].batch
      BY <1>1 DEF PollRecords
    <3> HIDE DEF new
    <3>3. poll'[r] = new /\ \A q \in Ranks \ {r} : poll'[q] = poll[q]
      BY <1>1, <3>1 DEF TypeOK
    <3> QED
      BY <1>5, <3>2, <3>3 DEF PollScan
  <2>4. CASE poll' = [poll EXCEPT ![r].pc = "deliver", ![r].found = found]
    <3> DEFINE new == [poll[r] EXCEPT !.pc = "deliver", !.found = found]
    <3>1. poll' = [poll EXCEPT ![r] = new]
      BY <1>1, <2>4 DEF TypeOK
    <3>2. new.batch = poll[r].batch
      BY <1>1 DEF PollRecords
    <3> HIDE DEF new
    <3>3. poll'[r] = new /\ \A q \in Ranks \ {r} : poll'[q] = poll[q]
      BY <1>1, <3>1 DEF TypeOK
    <3> QED
      BY <1>5, <3>2, <3>3 DEF PollScan
  <2> QED
    BY <2>1, <2>2, <2>3, <2>4
<1>6. ASSUME PollTake(r) \/ PollDeliver(r)
      PROVE  /\ \A q \in Ranks \ {r} : poll'[q] = poll[q]
             /\ safe' = safe /\ errors' = errors /\ UNCHANGED sendVars
             /\ poll'[r].batch = Append(poll[r].batch, Message(Lane(r), Taking(r)))
             /\ safe => UNCHANGED lost
  <2> DEFINE s == Taking(r)
             messages == Append(poll[r].batch, Message(Lane(r), s))
             rest == poll[r].found \ {s}
  <2>1. /\ safe' = safe /\ errors' = errors /\ UNCHANGED sendVars
        /\ safe => UNCHANGED lost
        /\ \/ poll' = [poll EXCEPT ![r].read = @ + 1, ![r].batch = messages]
           \/ LeaveLane(r, messages)
           \/ poll' = [poll EXCEPT ![r].found = rest, ![r].batch = messages]
    <3>1. CASE PollTake(r)
      BY <3>1 DEF PollTake, Taking
    <3>2. CASE PollDeliver(r)
      <4>1. ~safe /\ s = Min(poll[r].found)
        BY <1>1, <3>2 DEF PollDeliver, Polling, Taking
      <4> HIDE DEF s
      <4> QED
        BY <3>2, <4>1 DEF PollDeliver
    <3> QED
      BY <1>6, <3>1, <3>2
  <2> HIDE DEF messages, rest
  <2>2. CASE LeaveLane(r, messages)
    BY <1>1, <2>1, <2>2, LeaveLaneDoes DEF messages
  <2>3. ASSUME NEW new, poll' = [poll EXCEPT ![r] = new], new.batch = messages
        PROVE  poll'[r].batch = messages /\ \A q \in Ranks \ {r} : poll'[q] = poll[q]
    BY <1>1, <2>3 DEF TypeOK
  <2>4. CASE poll' = [poll EXCEPT ![r].read = @ + 1, ![r].batch = messages]
    <3> DEFINE new == [poll[r] EXCEPT !.read = @ + 1, !.batch = messages]
    <3>1. poll' = [poll EXCEPT ![r] = new]
      BY <1>1, <2>4 DEF TypeOK
    <3>2. new.batch = messages
      BY <1>1 DEF PollRecords
    <3> HIDE DEF new
    <3> QED
      BY <2>1, <2>3, <3>1, <3>2 DEF messages
  <2>5. CASE poll' = [poll EXCEPT ![r].found = rest, ![r].batch = messages]
    <3> DEFINE new == [poll[r] EXCEPT !.found = rest, !.batch = messages]
    <3>1. poll' = [poll EXCEPT ![r] = new]
      BY <1>1, <2>5 DEF TypeOK
    <3>2. new.batch = messages
      BY <1>1 DEF PollRecords
    <3> HIDE DEF new
    <3> QED
      BY <2>1, <2>3, <3>1, <3>2 DEF messages
  <2> QED
    BY <2>1, <2>2, <2>4, <2>5
<1> QED
  BY <1>2, <1>3, <1>4, <1>5, <1>6 DEF Poll

(* The lanes into a rank, and what was taken off each. *)
LEMMA IncomingIs ==
  ASSUME TypeOK, NEW r \in Ranks
  PROVE  /\ IsFiniteSet(Incoming(r)) /\ Incoming(r) \subseteq Lanes
         /\ \A l \in Lanes : Lengths[l] \in Nat /\ Lengths[l] = Len(taken[l])
<1>1. IsFiniteSet(Lanes)
  BY MeshAssumption, FS_Product, FS_Subset
<1>2. IsFiniteSet(Incoming(r)) /\ Incoming(r) \subseteq Lanes
  BY <1>1, FS_Subset DEF Incoming
<1>3. \A l \in Lanes : Len(taken[l]) \in Nat
  BY DEF TypeOK
<1> QED
  BY <1>2, <1>3 DEF Lengths

(* One more at one place is one more in total. *)
LEMMA TotalOneMore ==
  ASSUME NEW S, IsFiniteSet(S), NEW f, NEW h, NEW l \in S,
         \A x \in S : f[x] \in Int /\ h[x] \in Int,
         \A x \in S \ {l} : h[x] = f[x], h[l] = f[l] + 1
  PROVE  Total(f, S) \in Int /\ Total(h, S) = Total(f, S) + 1
<1>1. ASSUME NEW g, \A x \in S : g[x] \in Int, \A x \in S \ {l} : g[x] = f[x]
      PROVE  Total(f, S) \in Int /\ Total(g, S) = Total(f, S) + (g[l] - f[l])
  BY <1>1, TotalMoves
<1>2. Total(f, S) \in Int /\ Total(h, S) = Total(f, S) + (h[l] - f[l])
  BY <1>1
<1>3. h[l] - f[l] = 1
  OBVIOUS
<1> QED
  BY <1>2, <1>3

(* A receiver has caught up with what was sent down a lane. *)
CaughtUp(l) == seen[l] = sent[l]

(* While no Put is in flight, the slot where a receiver expects its next   *)
(* message holds that one or a later one, if it was sent.                  *)
LEMMA NextIsStored ==
  ASSUME MeshInv, NEW l \in Lanes, ~flying[l], ~CaughtUp(l)
  PROVE  /\ seen[l] < sent[l]
         /\ \A p : Readable(l, p) = {Stored(l, p)}
         /\ Stored(l, Position(l, seen[l] + 1)) > seen[l]
<1> DEFINE p == Position(l, seen[l] + 1)
           here == {s \in 1..sent[l] : Position(l, s) = p}
<1>1. sent[l] \in Nat /\ seen[l] \in Nat /\ TypeOK
  BY LaneIs DEF MeshInv
<1>2. seen[l] < sent[l]
  <2>1. seen[l] <= Issued(l) /\ Issued(l) = sent[l]
    BY <1>1 DEF MeshInv, Issued
  <2> QED
    BY <1>1, <2>1 DEF CaughtUp
<1>3. seen[l] + 1 \in here /\ here \in SUBSET (0..sent[l])
  BY <1>1, <1>2
<1> HIDE DEF p
<1>4. seen[l] + 1 <= Max(here) /\ Max(here) \in here
  BY <1>1, <1>3, MaxIs
<1>5. Stored(l, p) = Max(here)
  BY <1>3 DEF Stored
<1>6. Stored(l, p) > seen[l]
  BY <1>1, <1>3, <1>4, <1>5
<1> QED
  BY <1>1, <1>2, <1>6 DEF Readable, p

(* What a poll on r knows while it has found nothing: the lanes it has     *)
(* left had no more, and one it scans has the slot of the message after    *)
(* the cursor before it, or has shown something.                           *)
FoundNothing(r) ==
  /\ \A l \in Incoming(r) \ poll[r].todo : CaughtUp(l)
  /\ poll[r].pc = "lane" => poll[r].at = 0
  /\ poll[r].pc = "scan" =>
       /\ Lane(r) \in Lanes /\ ~CaughtUp(Lane(r))
       /\ poll[r].found = {} => poll[r].at <= Position(Lane(r), seen[Lane(r)] + 1)

(* A poll that starts when no Put is in flight, and has an empty batch,    *)
(* has drained whatever lanes it has left: a slot of a lane that is not    *)
(* drained would have shown it something.                                  *)
LEMMA NothingToFind ==
  ASSUME MeshInv, Faulty = {}, NEW r \in Ranks, \A l \in Incoming(r) : ~flying[l],
         Poll(r), poll[r].pc # "idle", FoundNothing(r), poll'[r].batch = <<>>
  PROVE  /\ FoundNothing(r)'
         /\ poll'[r].pc = "idle" => \A l \in Incoming(r) : CaughtUp(l)'
<1> DEFINE l == Lane(r)
<1>1. /\ TypeOK /\ ~flying[l] /\ poll[r] \in PollRecords
      /\ l \in poll[r].todo /\ l \in Lanes /\ l \in Incoming(r) /\ l[2] = r
      /\ Polling(r) /\ poll[r].batch \in Seq(MessageRecords)
      /\ Incoming(r) \subseteq Lanes
  <2>1. l \in poll[r].todo /\ l \in Lanes /\ l[2] = r
    BY LaneOfPoll
  <2> QED
    BY <2>1, AtLane DEF Incoming
<1>2. /\ seen' = seen /\ sent' = sent /\ poll[r].batch = <<>>
      /\ PollMiss(r) \/ PollRecover(r) \/ PollScan(r)
  <2>1. ASSUME PollTake(r) \/ PollDeliver(r)
        PROVE  poll'[r].batch # Append(poll[r].batch, Message(l, Taking(r)))
    <3>1. PICK m \in MessageRecords : m = Message(l, Taking(r))
      BY <1>1, <2>1, TakesPastCursor DEF Message, MessageRecords
    <3>2. Append(poll[r].batch, m) # <<>>
      BY <1>1, AppendProperties
    <3> QED
      BY <3>1, <3>2
  <2> QED
    BY <1>1, <2>1, PollDoes DEF sendVars
<1>3. /\ \A k \in Incoming(r) \ poll[r].todo : CaughtUp(k)
      /\ poll[r].pc = "lane" => poll[r].at = 0
      /\ poll[r].pc = "scan" =>
           /\ ~CaughtUp(l)
           /\ poll[r].found = {} => poll[r].at <= Position(l, seen[l] + 1)
  BY DEF FoundNothing
<1>4. ~CaughtUp(l) => /\ seen[l] < sent[l]
                     /\ \A p : Readable(l, p) = {Stored(l, p)}
                     /\ Stored(l, Position(l, seen[l] + 1)) > seen[l]
  BY <1>1, NextIsStored
<1>5. /\ seen[l] \in Nat /\ Depth[l] \in Nat /\ Depth[l] > 0 /\ Issued(l) = sent[l]
      /\ poll[r].at \in Nat /\ seen[l] <= Issued(l) /\ sent[l] \in Nat
  BY <1>1, LaneIs DEF Issued, PollRecords, MeshInv
<1>6. Position(l, seen[l] + 1) \in 0..Depth[l] - 1
  BY <1>5 DEF Position
<1> HIDE DEF l
<1>7. ASSUME LeaveLane(r, poll[r].batch), CaughtUp(l)
      PROVE  /\ FoundNothing(r)'
             /\ poll'[r].pc = "idle" => \A k \in Incoming(r) : CaughtUp(k)'
  <2>1. /\ poll'[r].todo = poll[r].todo \ {l}
        /\ poll'[r].pc = IF poll'[r].todo = {} THEN "idle" ELSE "lane"
        /\ poll'[r].at = 0
    BY <1>1, <1>7, LeaveLaneDoes DEF l
  <2>2. \A k \in Incoming(r) \ poll'[r].todo : CaughtUp(k)'
    BY <1>2, <1>3, <1>7, <2>1 DEF CaughtUp
  <2> QED
    BY <2>1, <2>2 DEF FoundNothing, Incoming
<1>8. CASE PollMiss(r)
  <2>1. LeaveLane(r, poll[r].batch)
    BY <1>8 DEF PollMiss
  <2>2. PICK f \in Readable(l, Position(l, seen[l] + 1)) : f <= seen[l]
    BY <1>8 DEF PollMiss, l
  <2>3. CaughtUp(l)
    <3> SUFFICES ASSUME ~CaughtUp(l) PROVE FALSE
      OBVIOUS
    <3> DEFINE p == Position(l, seen[l] + 1)
    <3>1. f = Stored(l, p) /\ Stored(l, p) > seen[l]
      BY <1>4, <2>2
    <3> HIDE DEF p
    <3>2. f \in Nat
      BY <1>1, <1>5, <2>2, ReadableIs
    <3> QED
      BY <1>5, <2>2, <3>1, <3>2
  <2> QED
    BY <1>7, <2>1, <2>3
<1>9. CASE PollRecover(r)
  <2> DEFINE new == [poll[r] EXCEPT !.pc = "scan"]
  <2>1. /\ poll[r].pc = "lane" /\ poll' = [poll EXCEPT ![r] = new]
        /\ \E f \in Readable(l, Position(l, seen[l] + 1)) : f > seen[l] + 1
    BY <1>1, <1>9 DEF PollRecover, Lapped, TypeOK, l
  <2>2. /\ new.pc = "scan" /\ new.at = poll[r].at /\ new.todo = poll[r].todo
    BY <1>1 DEF PollRecords
  <2> HIDE DEF new
  <2>3. poll'[r] = new
    BY <1>1, <2>1 DEF TypeOK
  <2>4. Lane(r)' = l
    BY <2>2, <2>3 DEF Lane, l
  <2>5. ~CaughtUp(l)
    <3>1. PICK f \in Readable(l, Position(l, seen[l] + 1)) : f > seen[l] + 1
      BY <2>1
    <3> DEFINE p == Position(l, seen[l] + 1)
    <3>2. f = 0 \/ f \in 1..Issued(l)
      BY <1>1, <3>1, ReadableIs
    <3>3. seen[l] < sent[l]
      BY <1>5, <3>1, <3>2
    <3> QED
      BY <1>5, <3>3 DEF CaughtUp
  <2>6. new.at <= Position(l, seen[l] + 1)
    BY <1>3, <1>6, <2>1, <2>2
  <2>7. /\ poll'[r].pc = "scan" /\ Lane(r)' \in Lanes /\ ~CaughtUp(Lane(r))'
        /\ poll'[r].at <= Position(Lane(r), seen[Lane(r)] + 1)'
        /\ \A k \in Incoming(r) \ poll'[r].todo : CaughtUp(k)'
    BY <1>1, <1>2, <1>3, <2>2, <2>3, <2>4, <2>5, <2>6 DEF CaughtUp, Position
  <2> QED
    BY <2>7 DEF FoundNothing, Incoming
<1>10. CASE PollScan(r)
  <2>1. /\ poll[r].pc = "scan" /\ ~CaughtUp(l)
        /\ poll[r].found = {} => poll[r].at <= Position(l, seen[l] + 1)
    BY <1>3, <1>10 DEF PollScan
  <2> DEFINE f == Stored(l, poll[r].at)
             found == poll[r].found \cup ({f} \ 0..seen[l])
  <2>2. \/ /\ poll[r].at + 1 < Depth[l]
           /\ poll' = [poll EXCEPT ![r].at = @ + 1, ![r].found = found]
        \/ /\ ~(poll[r].at + 1 < Depth[l]) /\ found = {}
           /\ LeaveLane(r, poll[r].batch)
        \/ /\ found # {}
           /\ poll' = [poll EXCEPT ![r].pc = "deliver", ![r].found = found]
    <3>1. Readable(l, poll[r].at) = {f}
      BY <1>4, <2>1
    <3> HIDE DEF f
    <3> QED
      BY <1>10, <3>1 DEF PollScan, l
  <2>3. found = {} => poll[r].at < Position(l, seen[l] + 1)
    <3> SUFFICES ASSUME found = {}
                 PROVE  poll[r].at # Position(l, seen[l] + 1)
                        /\ poll[r].at <= Position(l, seen[l] + 1)
      BY <1>5, <1>6
    <3>1. poll[r].found = {} /\ f \in 0..seen[l]
      OBVIOUS
    <3>2. Stored(l, Position(l, seen[l] + 1)) > seen[l]
      BY <1>4, <2>1
    <3> QED
      BY <1>5, <2>1, <3>1, <3>2
  <2> HIDE DEF found
  <2>4. CASE /\ poll[r].at + 1 < Depth[l]
             /\ poll' = [poll EXCEPT ![r].at = @ + 1, ![r].found = found]
    <3> DEFINE new == [poll[r] EXCEPT !.at = @ + 1, !.found = found]
    <3>1. poll' = [poll EXCEPT ![r] = new]
      BY <1>1, <2>4 DEF TypeOK
    <3>2. /\ new.pc = "scan" /\ new.at = poll[r].at + 1 /\ new.todo = poll[r].todo
          /\ new.found = found
      BY <1>1, <2>1 DEF PollRecords
    <3> HIDE DEF new
    <3>3. poll'[r] = new
      BY <1>1, <3>1 DEF TypeOK
    <3>4. Lane(r)' = l
      BY <3>2, <3>3 DEF Lane, l
    <3>5. new.found = {} => new.at <= Position(l, seen[l] + 1)
      BY <1>5, <1>6, <2>3, <3>2
    <3>6. /\ poll'[r].pc = "scan" /\ Lane(r)' \in Lanes /\ ~CaughtUp(Lane(r))'
          /\ poll'[r].found = {} => poll'[r].at <= Position(Lane(r), seen[Lane(r)] + 1)'
          /\ \A k \in Incoming(r) \ poll'[r].todo : CaughtUp(k)'
      BY <1>1, <1>2, <1>3, <2>1, <3>2, <3>3, <3>4, <3>5 DEF CaughtUp, Position
    <3> QED
      BY <3>6 DEF FoundNothing, Incoming
  <2>5. CASE ~(poll[r].at + 1 < Depth[l]) /\ found = {}
    BY <1>5, <1>6, <2>3, <2>5
  <2>6. CASE poll' = [poll EXCEPT ![r].pc = "deliver", ![r].found = found]
    <3> DEFINE new == [poll[r] EXCEPT !.pc = "deliver", !.found = found]
    <3>1. poll' = [poll EXCEPT ![r] = new]
      BY <1>1, <2>6 DEF TypeOK
    <3>2. new.pc = "deliver" /\ new.todo = poll[r].todo
      BY <1>1 DEF PollRecords
    <3> HIDE DEF new
    <3>3. poll'[r] = new
      BY <1>1, <3>1 DEF TypeOK
    <3>4. \A k \in Incoming(r) \ poll'[r].todo : CaughtUp(k)'
      BY <1>2, <1>3, <3>2, <3>3 DEF CaughtUp
    <3> QED
      BY <3>2, <3>3, <3>4 DEF FoundNothing, Incoming
  <2> QED
    BY <2>2, <2>4, <2>5, <2>6
<1> QED
  BY <1>2, <1>8, <1>9, <1>10

(* A ring made anew is as good as the first. *)
LEMMA RenewInv ==
  \A mode \in BOOLEAN : Renew(mode) => MeshInv' /\ RingAccounted'
<1>1. \A mode \in BOOLEAN : Fresh(mode) => MeshInv /\ RingAccounted
  BY FreshInv, FreshAccounted
<1>2. (\A mode \in BOOLEAN : Fresh(mode) => MeshInv /\ RingAccounted)'
  BY <1>1, PTL
<1>3. \A mode \in BOOLEAN : Renew(mode) => Fresh(mode)'
  BY DEF Renew, Fresh, Zero, IdlePoll, FreshPoll, IdleAck
<1> QED
  BY <1>2, <1>3

(* A poll whose sender has not come round is not lapped. *)
LEMMA NotLapped ==
  ASSUME MeshInv, NEW r \in Ranks, poll[r].pc # "idle",
         Issued(Lane(r)) <= seen[Lane(r)] + Depth[Lane(r)]
  PROVE  ~Lapped(r)
<1> SUFFICES ASSUME Lapped(r) PROVE FALSE
  OBVIOUS
<1> DEFINE l == Lane(r)
<1>1. l \in Lanes /\ TypeOK
  BY LaneOfPoll DEF MeshInv
<1> HIDE DEF l
<1>2. PICK f \in Readable(l, Position(l, seen[l] + 1)) : f > seen[l] + 1
  BY DEF Lapped, l
<1>3. seen[l] \in Nat /\ Issued(l) \in Nat /\ Depth[l] \in Nat
  BY <1>1, LaneIs
<1>4. f \in 1..Issued(l) /\ Position(l, f) = Position(l, seen[l] + 1)
  BY <1>1, <1>2, <1>3, ReadableIs
<1>5. f >= seen[l] + 1 + Depth[l]
  BY <1>1, <1>2, <1>3, <1>4, SharedPosition
<1> QED
  BY <1>3, <1>4, <1>5 DEF l

=============================================================================
