----------------------------- MODULE SoakProofs -----------------------------
(***************************************************************************)
(* The soak program passes on either kind of ring, for any number of       *)
(* ranks, messages and slots: no send, poll or acknowledgement of it       *)
(* fails, what each poller is handed is in order, and a poller that stops  *)
(* has accounted for every message of every other rank.                    *)
(***************************************************************************)
EXTENDS Soak, MeshProofs

Stages == {"load", "poll", "polling", "ack", "exited"}

SoakTypeOK ==
  /\ main \in [Ranks -> {"push", "barrier", "join", "gather", "close", "end"}]
  /\ done \in [Ranks -> BOOLEAN] /\ finished \in [Ranks -> BOOLEAN]
  /\ stage \in [Ranks -> Stages]
  /\ got \in [Lanes -> Nat] /\ total \in [Ranks -> Nat]
  /\ owed \in [Ranks -> SUBSET MessageRecords]

(* What a main thread has pushed; the barrier is entered after the last    *)
(* message, and `done` raised when every rank has entered it.              *)
AllSent == \A l \in Lanes : sent[l] = Count /\ ~flying[l]

Pushing ==
  /\ \A l \in Lanes : sent[l] <= Count /\ (flying[l] => sent[l] < Count)
  /\ \A r \in Ranks : main[r] # "push" => AllPushed(r)
  /\ \A r \in Ranks : (done[r] => AllSent) /\ (finished[r] => AllSent)

(* The ring's poll is in progress while the poller thread is in it. *)
InPoll(r) == stage[r] = "polling" <=> poll[r].pc # "idle"

(* The sequences of l known to the poller and those of the poll in         *)
(* progress are in order, up to the cursor.                                *)
Known(r) ==
  /\ stage[r] = "polling" =>
       /\ InOrder(poll[r].batch)
       /\ \A l \in Incoming(r) : Reached(poll[r].batch, l) = seen[l]
       /\ \A i \in DOMAIN poll[r].batch : poll[r].batch[i].lane \in Incoming(r)
  /\ stage[r] # "polling" => \A l \in Incoming(r) : got[l] = seen[l]

(* What the poller has counted, with what it is about to be handed, is     *)
(* what was taken off its lanes.                                           *)
Counted(r) ==
  total[r] + (IF stage[r] = "polling" THEN Len(poll[r].batch) ELSE 0)
    = Total(Lengths, Incoming(r))

Drained(l) == seen[l] = Count

(* Once everything is sent, a poll that has found nothing yet has left     *)
(* only drained lanes, and one that scans a lane has the slot of the       *)
(* message after the cursor before it, or found something.                 *)
Searching(r) ==
  finished[r] /\ stage[r] = "polling" /\ poll[r].batch = <<>> =>
    /\ \A l \in Incoming(r) \ poll[r].todo : Drained(l)
    /\ poll[r].pc = "lane" => poll[r].at = 0
    /\ poll[r].pc = "scan" =>
         /\ ~Drained(Lane(r))
         /\ poll[r].found = {} => poll[r].at <= Position(Lane(r), seen[Lane(r)] + 1)

Leaving(r) ==
  stage[r] = "exited" \/ (stage[r] = "ack" /\ finished[r] /\ poll[r].batch = <<>>) =>
    \A l \in Incoming(r) : Drained(l)

(* What the poller thread of r knows. *)
Local(r) == InPoll(r) /\ Known(r) /\ Counted(r) /\ Searching(r) /\ Leaving(r)

SoakInv ==
  /\ MeshInv
  /\ RingAccounted
  /\ SoakTypeOK
  /\ safe => (\A r \in Ranks : lost[r] = 0)
  /\ Pushing
  /\ \A r \in Ranks : Local(r)

-----------------------------------------------------------------------------
(* The steps of the ring that the program takes *)

(* No acknowledgement fails, hence no lane of the ring is ever reported.   *)
LEMMA NoErrors == ASSUME MeshInv PROVE errors = {}
BY SoakAssumption DEF MeshInv, Isolated

(* While something is left to push there is a next lane to push to. *)
LEMMA TargetIs ==
  ASSUME TypeOK, NEW r \in Ranks, ~AllPushed(r)
  PROVE  Target(r) \in Lanes /\ Target(r)[1] = r
<1> DEFINE mine   == {l \in Lanes : l[1] = r}
           counts == {sent[l] : l \in mine}
<1>1. \A l \in Lanes : sent[l] \in Nat /\ l[2] \in Nat
  BY MeshAssumption DEF TypeOK
<1>2. counts \in SUBSET Nat /\ counts # {}
  BY <1>1 DEF AllPushed
<1>3. PICK n \in counts : \A m \in counts : n <= m
  BY <1>2, LeastNatural
<1> DEFINE first == {l[2] : l \in {l \in mine : sent[l] = n}}
<1>4. first \in SUBSET Nat /\ first # {}
  BY <1>1
<1> HIDE DEF first
<1>5. PICK q \in first : \A m \in first : q <= m
  BY <1>4, LeastNatural
<1>6. PICK l \in mine : sent[l] = n /\ l[2] = q
  BY DEF first
<1>7. \A k \in Lanes : k[1] = r => sent[l] < sent[k] \/ (sent[l] = sent[k] /\ l[2] <= k[2])
  <2> SUFFICES ASSUME NEW k \in Lanes, k[1] = r
               PROVE  sent[l] < sent[k] \/ (sent[l] = sent[k] /\ l[2] <= k[2])
    OBVIOUS
  <2>1. k \in mine /\ n <= sent[k]
    BY <1>3
  <2>2. sent[k] = n => q <= k[2]
    BY <1>5, <2>1 DEF first
  <2>3. n \in Nat /\ sent[k] \in Nat
    BY <1>1, <1>2
  <2> QED
    BY <1>6, <2>1, <2>2, <2>3
<1> QED
  BY <1>6, <1>7 DEF Target

(* Every step of the program is one of the ring, or leaves the ring alone, *)
(* or clears the batch the poller has dealt with.                          *)
LEMMA RingSteps ==
  ASSUME SoakInv, [SoakNext]_soakVars
  PROVE  MeshNext \/ UNCHANGED meshVars \/ \E r \in Ranks : Check(r)
<1>0. MeshInv /\ TypeOK /\ SoakTypeOK
  BY DEF SoakInv, MeshInv
<1>1. ASSUME NEW r \in Ranks, Push(r)
      PROVE  MeshNext
  BY <1>0, <1>1, TargetIs DEF Push, MeshNext, Send
<1>2. ASSUME NEW r \in Ranks, Acknowledge(r)
      PROVE  MeshNext
  <2> DEFINE t == <<r, "poller">>
  <2>1. t \in Threads
    BY SoakAssumption
  <2>2. CASE AckApply(t) \/ AckReturn(t)
    BY <2>1, <2>2 DEF MeshNext, Ack
  <2>3. ASSUME NEW m \in owed[r], AckIssue(t, m.lane, m.sequence)
        PROVE  MeshNext
    <3>1. m.lane \in Lanes /\ m.sequence \in Nat
      BY <1>0 DEF SoakTypeOK, MessageRecords
    <3>2. m.sequence \in 1..seen[m.lane]
      BY <1>0, <2>3, <3>1 DEF AckIssue, TypeOK
    <3> QED
      BY <2>1, <2>3, <3>1, <3>2 DEF MeshNext, Ack
  <2> QED
    BY <1>2, <2>2, <2>3 DEF Acknowledge
<1>3. ASSUME NEW r \in Ranks, StartPoll(r) \/ PollOn(r)
      PROVE  MeshNext
  BY <1>3 DEF StartPoll, PollOn, MeshNext, Poll
<1>4. ASSUME NEW l \in Lanes, Transfer(l)
      PROVE  MeshNext
  BY <1>4 DEF Transfer, MeshNext, Send
<1>5. CASE UNCHANGED soakVars
  BY <1>5 DEF soakVars
<1>6. ASSUME NEW r \in Ranks, EnterBarrier(r) \/ RaiseDone(r) \/ StopNoise(r) \/ Verdict(r)
                                \/ Collective(r) \/ Load(r)
      PROVE  UNCHANGED meshVars
  BY <1>6 DEF EnterBarrier, RaiseDone, StopNoise, Verdict, Collective, Load
<1>7. ASSUME NEW r \in Noisy, Background(r)
      PROVE  UNCHANGED meshVars
  BY <1>7 DEF Background
<1> QED
  BY <1>1, <1>2, <1>3, <1>4, <1>5, <1>6, <1>7 DEF SoakNext, Main, Poller, Over

(* The threads of the program keep the invariant of the ring, and report   *)
(* no error.                                                               *)
LEMMA SoakKeepsMesh ==
  ASSUME SoakInv, [SoakNext]_soakVars
  PROVE  MeshInv' /\ RingAccounted' /\ errors' = {} /\ errors = {}
<1>0. MeshInv /\ RingAccounted /\ \A r \in Ranks : InPoll(r)
  BY DEF SoakInv, Local
<1>1. ASSUME MeshNext
      PROVE  MeshInv' /\ RingAccounted'
  <2>1. MeshInv'
    BY <1>0, <1>1, MeshStepInv
  <2>2. RingAccounted'
    BY <1>0, <1>1, AccountedStep
  <2> QED
    BY <2>1, <2>2
<1>2. ASSUME UNCHANGED meshVars
      PROVE  MeshInv' /\ RingAccounted'
  <2>1. MeshInv'
    BY <1>0, <1>2, MeshStepInv
  <2>2. seen' = seen /\ lost' = lost /\ taken' = taken
    BY <1>2 DEF meshVars, recvVars
  <2>3. RingAccounted'
    BY <1>0, <2>2 DEF RingAccounted
  <2> QED
    BY <2>1, <2>3
<1>3. ASSUME NEW r \in Ranks, Check(r)
      PROVE  MeshInv' /\ RingAccounted'
  <2>1. /\ poll[r].pc = "idle"
        /\ poll' = [poll EXCEPT ![r].batch = <<>>]
        /\ UNCHANGED <<safe, sendVars, counter, seen, lost, taken, acked, ack, errors>>
    <3>1. stage[r] = "ack" => poll[r].pc = "idle"
      BY <1>0 DEF InPoll
    <3> QED
      BY <1>3, <3>1 DEF Check
  <2> QED
    BY <1>0, <2>1, ClearKeepsMesh DEF RingAccounted
<1>4. MeshInv' /\ RingAccounted'
  BY <1>1, <1>2, <1>3, RingSteps
<1>5. errors' = {}
  BY <1>4, SoakAssumption DEF MeshInv, Isolated
<1> QED
  BY <1>0, <1>4, <1>5, NoErrors

-----------------------------------------------------------------------------
(* The operators of the program *)

(* The last of l among the first n messages of a batch, or what the poller *)
(* knew of l before.                                                       *)
LEMMA LatestIs ==
  ASSUME NEW batch \in Seq(MessageRecords), NEW n \in 0..Len(batch), NEW l \in Lanes,
         got[l] \in Nat
  PROVE  /\ Latest(batch, n, l) \in Nat
         /\ (\A i \in 1..n : batch[i].lane # l) => Latest(batch, n, l) = got[l]
<1> DEFINE of == {i \in 1..n : batch[i].lane = l}
<1>1. Len(batch) \in Nat /\ n \in Nat /\ \A i \in 1..n : batch[i] \in MessageRecords
  <2>1. Len(batch) \in Nat /\ n \in Nat
    BY LenProperties
  <2>2. \A i \in 1..Len(batch) : batch[i] \in MessageRecords
    BY ElementOfSeq
  <2> QED
    BY <2>1, <2>2
<1>2. CASE of = {}
  BY <1>2 DEF Latest
<1>3. CASE of # {}
  <2>1. of \in SUBSET (0..n)
    BY <1>1
  <2>2. Max(of) \in of
    BY <1>1, <1>3, <2>1, MaxIs
  <2>3. batch[Max(of)].sequence \in Nat
    BY <1>1, <2>2 DEF MessageRecords
  <2> QED
    BY <1>3, <2>3 DEF Latest
<1> QED
  BY <1>2, <1>3

(* One more message moves what is known of its own lane. *)
LEMMA LatestAppend ==
  ASSUME NEW b \in Seq(MessageRecords), NEW m \in MessageRecords, NEW l \in Lanes, got[l] \in Nat
  PROVE  /\ \A n \in 0..Len(b) : Latest(Append(b, m), n, l) = Latest(b, n, l)
         /\ Latest(Append(b, m), Len(b) + 1, l)
              = IF m.lane = l THEN m.sequence ELSE Latest(b, Len(b), l)
<1> DEFINE c == Append(b, m)
           N == Len(b)
           of(s, n) == {i \in 1..n : s[i].lane = l}
<1>1. /\ N \in Nat /\ c[N + 1] = m /\ \A i \in 1..N : c[i] = b[i]
  BY AppendProperties, LenProperties
<1> HIDE DEF c, N
<1>2. \A n \in 0..N : of(c, n) = of(b, n)
  BY <1>1
<1>3. ASSUME NEW n \in 0..N
      PROVE  Latest(c, n, l) = Latest(b, n, l)
  <2>1. of(c, n) = of(b, n)
    BY <1>2
  <2>2. CASE of(b, n) = {}
    BY <2>1, <2>2 DEF Latest
  <2>3. CASE of(b, n) # {}
    <3>1. of(b, n) \in SUBSET (0..n) /\ n \in Nat
      BY <1>1
    <3>2. Max(of(b, n)) \in of(b, n)
      BY <2>3, <3>1, MaxIs
    <3>3. c[Max(of(b, n))] = b[Max(of(b, n))]
      BY <1>1, <3>2
    <3> QED
      BY <2>1, <2>3, <3>3 DEF Latest
  <2> QED
    BY <2>2, <2>3
<1>4. CASE m.lane = l
  <2> DEFINE S == of(c, N + 1)
  <2>1. N + 1 \in S /\ S \in SUBSET (0..N + 1) /\ N + 1 \in Nat
    BY <1>1, <1>4
  <2> HIDE DEF S
  <2>2. Max(S) \in S /\ N + 1 <= Max(S)
    BY <2>1, MaxIs
  <2>3. Max(S) = N + 1
    <3>1. \A x \in S : x \in 0..N + 1
      BY <2>1
    <3>2. Max(S) \in 0..N + 1
      BY <2>2, <3>1
    <3> QED
      BY <1>1, <2>2, <3>2
  <2>4. Latest(c, N + 1, l) = c[N + 1].sequence
    BY <2>1, <2>3 DEF Latest, S
  <2> QED
    BY <1>1, <1>3, <1>4, <2>4 DEF c, N
<1>5. CASE m.lane # l
  <2>1. of(c, N + 1) = of(c, N)
    BY <1>1, <1>5
  <2>2. Latest(c, N + 1, l) = Latest(c, N, l)
    BY <2>1 DEF Latest
  <2>3. Latest(c, N, l) = Latest(b, N, l)
    BY <1>1, <1>3
  <2> QED
    BY <1>3, <1>5, <2>2, <2>3 DEF c, N
<1> QED
  BY <1>4, <1>5

(* A total of equal terms. *)
LEMMA TotalConstant ==
  ASSUME NEW S, IsFiniteSet(S), NEW f, NEW c \in Nat, \A x \in S : f[x] = c
  PROVE  Total(f, S) = c * Cardinality(S)
<1> DEFINE F == Sum(f, S)
           G == {s \in SUBSET S : F[s] = c * Cardinality(s)}
<1>1. /\ Total(f, S) = F[S] /\ F[{}] = 0
      /\ \A s \in SUBSET S : s # {} =>
           Pick(s) \in s /\ F[s] = f[Pick(s)] + F[s \ {Pick(s)}]
  <2>1. \A x \in S : f[x] \in Int
    OBVIOUS
  <2>2. /\ Total(f, S) = Sum(f, S)[S]
        /\ Sum(f, S)[{}] = 0
        /\ \A s \in SUBSET S : s # {} =>
             Pick(s) \in s /\ Sum(f, S)[s] = f[Pick(s)] + Sum(f, S)[s \ {Pick(s)}]
        /\ \A s \in SUBSET S : Sum(f, S)[s] \in Int
    BY <2>1, SumIs
  <2> QED
    BY <2>2
<1> HIDE DEF F
<1>2. {} \in G
  BY <1>1, FS_EmptySet
<1>3. ASSUME NEW s \in SUBSET S, s # {}, s \ {Pick(s)} \in G
      PROVE  s \in G
  <2> DEFINE x == Pick(s)
             rest == s \ {x}
  <2>1. x \in s /\ F[s] = c + F[rest] /\ F[rest] = c * Cardinality(rest)
    BY <1>1, <1>3
  <2>2. IsFiniteSet(s)
    BY FS_Subset
  <2>3. Cardinality(s) \in Nat /\ Cardinality(rest) = Cardinality(s) - 1
    BY <2>1, <2>2, FS_RemoveElement, FS_CardinalityType
  <2> DEFINE k == Cardinality(s)
  <2> HIDE DEF k
  <2>4. k \in Nat /\ F[s] = c + c * (k - 1)
    BY <2>1, <2>3 DEF k
  <2>5. c + c * (k - 1) = c * k
    BY <2>4
  <2> QED
    BY <2>4, <2>5 DEF k
<1> HIDE DEF G
<1>4. SUBSET S \subseteq G
  BY <1>2, <1>3, SubsetsByPicking
<1> QED
  BY <1>1, <1>4 DEF G

-----------------------------------------------------------------------------
(* A step of a poll *)

-----------------------------------------------------------------------------
(* What a poller knows *)

(* The checks on a batch are about its own lanes. *)
LEMMA InOrderFrame ==
  ASSUME NEW b, safe' = safe, \A i \in DOMAIN b : got'[b[i].lane] = got[b[i].lane]
  PROVE  InOrder(b)' = InOrder(b)
<1>1. \A i \in DOMAIN b :
        Latest(b, i - 1, b[i].lane)' = Latest(b, i - 1, b[i].lane)
  BY DEF Latest
<1> QED
  BY <1>1 DEF InOrder

(* What a poller knows is unaffected by a step that leaves its thread, its *)
(* poll and its incoming lanes alone.                                      *)
LEMMA RankFrame ==
  ASSUME MeshInv, TypeOK', NEW q \in Ranks, Local(q), safe' = safe,
         stage'[q] = stage[q], poll'[q] = poll[q], total'[q] = total[q],
         finished'[q] = finished[q],
         \A l \in Incoming(q) :
           seen'[l] = seen[l] /\ got'[l] = got[l] /\ Len(taken'[l]) = Len(taken[l])
  PROVE  Local(q)'
<1> DEFINE batch == poll[q].batch
<1>1. InPoll(q)'
  BY DEF Local, InPoll
<1>0. TypeOK
  BY DEF MeshInv
<1>2. Known(q)'
  <2>1. CASE stage[q] = "polling"
    <3>1. /\ InOrder(batch)
          /\ \A l \in Incoming(q) : Reached(batch, l) = seen[l]
          /\ \A i \in DOMAIN batch : batch[i].lane \in Incoming(q)
      BY <2>1 DEF Local, Known
    <3>2. PICK b : b = batch
      OBVIOUS
    <3>3. InOrder(poll[q].batch)'
      <4>1. InOrder(b)'
        BY <3>1, <3>2, InOrderFrame
      <4>2. poll'[q].batch = b
        BY <3>2
      <4> QED
        BY <4>1, <4>2 DEF InOrder, Latest
    <3>4. \A l \in Incoming(q) : Reached(poll[q].batch, l)' = seen'[l]
      <4> SUFFICES ASSUME NEW l \in Incoming(q)
                   PROVE  Reached(poll[q].batch, l)' = seen'[l]
        BY DEF Incoming
      <4>1. Reached(b, l) = seen[l] /\ seen'[l] = seen[l] /\ got'[l] = got[l]
        BY <3>1, <3>2
      <4>2. poll'[q].batch = b
        BY <3>2
      <4> HIDE DEF batch
      <4> QED
        BY <4>1, <4>2 DEF Reached, Latest
    <3> QED
      BY <2>1, <3>1, <3>3, <3>4 DEF Known, Incoming
  <2>2. CASE stage[q] # "polling"
    BY <2>2 DEF Local, Known, Incoming
  <2> QED
    BY <2>1, <2>2
<1>3. Counted(q)'
  <2>1. Total(Lengths', Incoming(q)) = Total(Lengths, Incoming(q))
    <3>1. \A l \in Incoming(q) : Lengths[l] \in Int /\ Lengths'[l] = Lengths[l]
      BY <1>0, IncomingIs DEF Lengths
    <3>2. IsFiniteSet(Incoming(q))
      BY <1>0, IncomingIs
    <3> DEFINE f == Lengths
               h == Lengths'
               into == Incoming(q)
    <3>3. \A l \in into : f[l] \in Int /\ h[l] = f[l]
      BY <3>1
    <3>4. IsFiniteSet(into)
      BY <3>2
    <3> HIDE DEF f, h, into
    <3>5. Total(h, into) = Total(f, into)
      BY <3>3, <3>4, TotalSame
    <3> QED
      BY <3>5 DEF f, h, into
  <2> QED
    BY <2>1 DEF Local, Counted, Incoming
<1>4. Lane(q)' = Lane(q)
  BY DEF Lane
<1>5. Incoming(q)' = Incoming(q) /\ \A l \in Incoming(q) : Drained(l)' = Drained(l)
  BY DEF Incoming, Drained
<1>6. Leaving(q)'
  BY <1>5 DEF Local, Leaving
<1>7. Searching(q)'
  <2> SUFFICES ASSUME finished[q], stage[q] = "polling", batch = <<>>
               PROVE  Searching(q)'
    BY DEF Searching
  <2>1. /\ poll[q].pc # "idle" /\ Lane(q) \in Incoming(q)
        /\ \A l \in Incoming(q) \ poll[q].todo : seen[l] = Count
        /\ poll[q].pc = "lane" => poll[q].at = 0
        /\ poll[q].pc = "scan" =>
             /\ seen[Lane(q)] # Count
             /\ poll[q].found = {} => poll[q].at <= Position(Lane(q), seen[Lane(q)] + 1)
    BY LaneOfPoll DEF Local, InPoll, Searching, Drained, Incoming
  <2>2. \A l \in Incoming(q) : seen'[l] = seen[l]
    OBVIOUS
  <2> QED
    BY <1>4, <1>5, <2>1, <2>2 DEF Searching, Drained, Position
<1> QED
  BY <1>1, <1>2, <1>3, <1>6, <1>7 DEF Local

(* A message a poll takes is the next one its poller does not know of. *)
LEMMA BatchGrows ==
  ASSUME SoakInv, NEW r \in Ranks, Poll(r), stage[r] = "polling", NEW b, b = poll'[r].batch
  PROVE  /\ b \in Seq(MessageRecords) /\ InOrder(b)
         /\ \A l \in Incoming(r) : Reached(b, l) = seen'[l]
         /\ \A i \in DOMAIN b : b[i].lane \in Incoming(r)
         /\ total[r] + Len(b) = Total(Lengths', Incoming(r))
         /\ \A l \in Lanes : l[2] # r => seen'[l] = seen[l] /\ taken'[l] = taken[l]
<1> DEFINE old == poll[r].batch
<1>1. /\ MeshInv /\ TypeOK /\ SoakTypeOK /\ poll[r].pc # "idle" /\ old \in Seq(MessageRecords)
      /\ Incoming(r) \subseteq Lanes
  <2>1. MeshInv /\ TypeOK /\ SoakTypeOK /\ poll[r].pc # "idle"
    BY DEF SoakInv, Local, InPoll, MeshInv
  <2> QED
    BY <2>1, AtLane, IncomingIs
<1>2. /\ InOrder(old)
      /\ \A l \in Incoming(r) : Reached(old, l) = seen[l]
      /\ \A i \in DOMAIN old : old[i].lane \in Incoming(r)
      /\ total[r] + Len(old) = Total(Lengths, Incoming(r))
  BY DEF SoakInv, Local, Known, Counted
<1> HIDE DEF old
<1>3. CASE UNCHANGED <<seen, lost, taken>> /\ b = old
  <2>1. Total(Lengths', Incoming(r)) = Total(Lengths, Incoming(r))
    BY <1>3 DEF Lengths
  <2> QED
    BY <1>1, <1>2, <1>3, <2>1
<1>4. ASSUME PollTake(r) \/ PollDeliver(r),
             b = Append(old, Message(Lane(r), Taking(r)))
      PROVE  /\ b \in Seq(MessageRecords) /\ InOrder(b)
             /\ \A l \in Incoming(r) : Reached(b, l) = seen'[l]
             /\ \A i \in DOMAIN b : b[i].lane \in Incoming(r)
             /\ total[r] + Len(b) = Total(Lengths', Incoming(r))
             /\ \A l \in Lanes : l[2] # r => seen'[l] = seen[l] /\ taken'[l] = taken[l]
  <2> DEFINE N == Len(old)
             into == Incoming(r)
  <2>1. PICK l \in Lanes, s \in Nat :
          /\ l = Lane(r) /\ s = Taking(r) /\ l[2] = r /\ Take(l, s)
          /\ seen[l] < s /\ (safe => s = seen[l] + 1)
    BY <1>1, <1>4, TakesPastCursor, AtLane
  <2>2. /\ seen' = [seen EXCEPT ![l] = s] /\ taken' = [taken EXCEPT ![l] = Append(@, s)]
        /\ l \in into
    BY <2>1 DEF Take, Incoming
  <2>3. PICK m \in MessageRecords : m.lane = l /\ m.sequence = s /\ b = Append(old, m)
    <3>1. Message(l, s) \in MessageRecords /\ Message(l, s).lane = l /\ Message(l, s).sequence = s
      BY DEF Message, MessageRecords
    <3> QED
      BY <1>4, <2>1, <3>1
  <2>4. /\ b \in Seq(MessageRecords) /\ N \in Nat /\ Len(b) = N + 1 /\ DOMAIN b = 1..N + 1
        /\ DOMAIN old = 1..N /\ b[N + 1] = m /\ \A i \in 1..N : b[i] = old[i]
    <3>1. b \in Seq(MessageRecords) /\ Len(b) = N + 1
      BY <1>1, <2>3, AppendProperties
    <3> QED
      BY <1>1, <2>3, <3>1, AppendProperties, LenProperties
  <2>5. ASSUME NEW k \in Lanes
        PROVE  /\ \A n \in 0..N : Latest(b, n, k) = Latest(old, n, k)
               /\ Reached(b, k) = IF k = l THEN s ELSE Reached(old, k)
    <3>1. got[k] \in Nat
      BY <1>1 DEF SoakTypeOK
    <3>2. /\ \A n \in 0..N : Latest(b, n, k) = Latest(old, n, k)
          /\ Latest(b, N + 1, k) = IF m.lane = k THEN m.sequence ELSE Latest(old, N, k)
      BY <1>1, <2>3, <3>1, LatestAppend
    <3> QED
      BY <2>3, <2>4, <3>2 DEF Reached
  <2>6. \A i \in DOMAIN b : b[i].lane \in into
    BY <1>2, <2>2, <2>3, <2>4
  <2>7. InOrder(b)
    <3> SUFFICES ASSUME NEW i \in 1..N + 1
                 PROVE  /\ b[i].sequence > Latest(b, i - 1, b[i].lane)
                        /\ safe => b[i].sequence = Latest(b, i - 1, b[i].lane) + 1
      BY <2>4 DEF InOrder
    <3>1. CASE i \in 1..N
      <4>1. b[i] = old[i] /\ old[i].lane \in Lanes /\ i - 1 \in 0..N
        BY <1>1, <1>2, <2>4, <3>1
      <4>2. Latest(b, i - 1, b[i].lane) = Latest(old, i - 1, old[i].lane)
        BY <2>5, <4>1
      <4> QED
        BY <1>2, <2>4, <3>1, <4>1, <4>2 DEF InOrder
    <3>2. CASE i = N + 1
      <4>1. Latest(b, N, l) = Latest(old, N, l) /\ Latest(old, N, l) = seen[l]
        BY <1>2, <2>2, <2>4, <2>5 DEF Reached
      <4>2. b[i].lane = l /\ b[i].sequence = s /\ i - 1 = N
        BY <2>3, <2>4, <3>2
      <4>3. seen[l] \in Nat
        BY <1>1 DEF TypeOK
      <4> QED
        BY <2>1, <4>1, <4>2, <4>3
    <3> QED
      BY <2>4, <3>1, <3>2
  <2>8. \A k \in into : Reached(b, k) = seen'[k]
    <3> SUFFICES ASSUME NEW k \in into PROVE Reached(b, k) = seen'[k]
      OBVIOUS
    <3>1. k \in Lanes /\ Reached(old, k) = seen[k]
      BY <1>1, <1>2
    <3>2. seen'[k] = IF k = l THEN s ELSE seen[k]
      BY <1>1, <2>2, <3>1 DEF TypeOK
    <3> QED
      BY <2>5, <3>1, <3>2
  <2>9. \A k \in Lanes \ {l} : seen'[k] = seen[k] /\ taken'[k] = taken[k]
    BY <1>1, <2>2 DEF TypeOK
  <2>10. Total(Lengths', into) = Total(Lengths, into) + 1 /\ Total(Lengths, into) \in Int
    <3> DEFINE f == Lengths
               h == Lengths'
    <3>1. taken'[l] = Append(taken[l], s) /\ taken[l] \in Seq(Nat)
      BY <1>1, <2>2 DEF TypeOK
    <3>2. Len(taken'[l]) = Len(taken[l]) + 1
      BY <3>1, AppendProperties
    <3>3. /\ \A k \in Lanes : f[k] \in Nat /\ f[k] = Len(taken[k])
          /\ IsFiniteSet(into)
      BY <1>1, IncomingIs
    <3>4. h[l] = f[l] + 1 /\ \A k \in Lanes \ {l} : h[k] = f[k]
      BY <2>9, <3>2, <3>3 DEF Lengths
    <3>5. into \subseteq Lanes /\ l \in into /\ IsFiniteSet(into)
      BY <1>1, <2>2, <3>3
    <3> HIDE DEF f, h, into
    <3>6. \A k \in into : f[k] \in Int /\ h[k] \in Int
      BY <3>3, <3>4, <3>5
    <3>7. \A k \in into \ {l} : h[k] = f[k]
      BY <3>4, <3>5
    <3>8. h[l] = f[l] + 1
      BY <3>4
    <3>9. Total(f, into) \in Int /\ Total(h, into) = Total(f, into) + 1
      BY <3>5, <3>6, <3>7, <3>8, TotalOneMore
    <3> QED
      BY <3>9 DEF f, h, into
  <2>11. total[r] \in Nat
    BY <1>1 DEF SoakTypeOK
  <2>12. total[r] + Len(b) = Total(Lengths', into)
    <3>1. total[r] + N = Total(Lengths, into)
      BY <1>2
    <3> DEFINE before == Total(Lengths, into)
               after  == Total(Lengths', into)
    <3>2. after = before + 1 /\ before \in Int /\ total[r] + N = before
      BY <2>10, <3>1
    <3> HIDE DEF before, after, N
    <3>3. total[r] + Len(b) = after
      BY <2>4, <2>11, <3>2
    <3> QED
      BY <3>3 DEF after
  <2>13. \A k \in Lanes : k[2] # r => seen'[k] = seen[k] /\ taken'[k] = taken[k]
    BY <2>1, <2>9
  <2> QED
    BY <2>4, <2>6, <2>7, <2>8, <2>12, <2>13
<1> QED
  BY <1>1, <1>3, <1>4, PollDoes, SoakAssumption DEF old

(* A poll that starts when everything is sent, and has an empty batch, has *)
(* drained whatever lanes it has left.                                     *)
LEMMA SearchStep ==
  ASSUME SoakInv, NEW r \in Ranks, Poll(r), stage[r] = "polling", finished[r],
         poll'[r].batch = <<>>
  PROVE  /\ finished'[r] = finished[r] => Searching(r)'
         /\ poll'[r].pc = "idle" => \A l \in Incoming(r) : Drained(l)'
<1>1. MeshInv /\ AllSent /\ poll[r].pc # "idle" /\ Faulty = {} /\ Incoming(r) \subseteq Lanes
  BY SoakAssumption DEF SoakInv, Local, InPoll, Pushing, Incoming
<1>2. poll[r].batch = <<>> /\ sent' = sent
  <2>1. Poll(r) /\ poll[r].batch \in Seq(MessageRecords)
    BY <1>1, AtLane
  <2>2. ASSUME PollTake(r) \/ PollDeliver(r)
        PROVE  poll'[r].batch # Append(poll[r].batch, Message(Lane(r), Taking(r)))
    <3>1. PICK m \in MessageRecords : m = Message(Lane(r), Taking(r))
      BY <1>1, <2>2, TakesPastCursor, LaneOfPoll DEF Message, MessageRecords
    <3>2. Append(poll[r].batch, m) # <<>>
      BY <2>1, AppendProperties
    <3> QED
      BY <3>1, <3>2
  <2> QED
    BY <1>1, <2>2, PollDoes DEF sendVars
<1>3. Searching(r) /\ (\A l \in Lanes : Drained(l) <=> CaughtUp(l))
  BY <1>1 DEF SoakInv, Local, AllSent, Drained, CaughtUp
<1>4. FoundNothing(r)
  BY <1>1, <1>2, <1>3, LaneOfPoll DEF Searching, FoundNothing
<1>5. /\ FoundNothing(r)'
      /\ poll'[r].pc = "idle" => \A l \in Incoming(r) : CaughtUp(l)'
  BY <1>1, <1>4, NothingToFind DEF AllSent
<1>6. \A l \in Lanes : Drained(l)' <=> CaughtUp(l)'
  BY <1>1, <1>2 DEF AllSent, Drained, CaughtUp
<1>7. Searching(r)'
  <2>1. /\ \A l \in Incoming(r)' \ poll'[r].todo : Drained(l)'
        /\ poll'[r].pc = "lane" => poll'[r].at = 0
    BY <1>1, <1>5, <1>6 DEF FoundNothing, Incoming
  <2>2. poll'[r].pc = "scan" =>
          /\ ~Drained(Lane(r))'
          /\ poll'[r].found = {} => poll'[r].at <= Position(Lane(r), seen[Lane(r)] + 1)'
    BY <1>5, <1>6 DEF FoundNothing
  <2> QED
    BY <2>1, <2>2 DEF Searching
<1> QED
  BY <1>1, <1>5, <1>6, <1>7

(* The checks on the batch of a poll that returns succeed. *)
LEMMA PollOnIs ==
  ASSUME SoakInv, NEW r \in Ranks, PollOn(r)
  PROVE  /\ Poll(r) /\ stage[r] = "polling" /\ poll[r].pc # "idle"
         /\ safe' = safe /\ errors' = errors /\ UNCHANGED sendVars
         /\ finished' = finished /\ UNCHANGED <<noiseVars, mainVars>>
         /\ safe => UNCHANGED lost
         /\ \A q \in Ranks \ {r} : poll'[q] = poll[q]
         /\ \/ poll'[r].pc # "idle" /\ UNCHANGED <<stage, got, total, owed>>
            \/ /\ poll'[r].pc = "idle"
               /\ stage' = [stage EXCEPT ![r] = "ack"]
               /\ got' = [l \in Lanes |-> Reached(poll'[r].batch, l)]
               /\ total' = [total EXCEPT ![r] = @ + Len(poll'[r].batch)]
               /\ owed' = [owed EXCEPT ![r] = Owes(poll'[r].batch)]
<1>1. /\ Poll(r) /\ stage[r] = "polling" /\ poll[r].pc # "idle" /\ MeshInv
      /\ finished' = finished /\ UNCHANGED <<noiseVars, mainVars>>
  BY DEF PollOn, SoakInv, Local, InPoll
<1>2. /\ safe' = safe /\ errors' = errors /\ UNCHANGED sendVars
      /\ safe => UNCHANGED lost
      /\ \A q \in Ranks \ {r} : poll'[q] = poll[q]
  BY <1>1, PollDoes, SoakAssumption
<1>3. InOrder(poll'[r].batch)
  BY <1>1, BatchGrows
<1>4. IF poll'[r].pc # "idle"
      THEN UNCHANGED <<stage, got, total, owed>>
      ELSE /\ stage' = [stage EXCEPT ![r] = "ack"]
           /\ got' = [l \in Lanes |-> Reached(poll'[r].batch, l)]
           /\ total' = [total EXCEPT ![r] = @ + Len(poll'[r].batch)]
           /\ owed' = [owed EXCEPT ![r] = Owes(poll'[r].batch)]
  BY <1>2, <1>3 DEF PollOn, GoOn
<1> QED
  BY <1>1, <1>2, <1>4

(* What the poller of any rank knows after a step of the poll of r. *)
LEMMA PollOnKeeps ==
  ASSUME SoakInv, TypeOK', NEW r \in Ranks, PollOn(r), NEW q \in Ranks
  PROVE  Local(q)'
<1>1. PICK b : b = poll'[r].batch
  OBVIOUS
<1>2. /\ Poll(r) /\ stage[r] = "polling" /\ poll[r].pc # "idle"
      /\ safe' = safe /\ finished' = finished /\ errors' = errors
      /\ \A p \in Ranks \ {r} : poll'[p] = poll[p]
      /\ \/ poll'[r].pc # "idle" /\ UNCHANGED <<stage, got, total, owed>>
         \/ /\ poll'[r].pc = "idle"
            /\ stage' = [stage EXCEPT ![r] = "ack"]
            /\ \A l \in Lanes : got'[l] = Reached(b, l)
            /\ total' = [total EXCEPT ![r] = @ + Len(b)]
  BY <1>1, PollOnIs
<1>3. /\ b \in Seq(MessageRecords) /\ InOrder(b)
      /\ \A l \in Incoming(r) : Reached(b, l) = seen'[l]
      /\ \A i \in DOMAIN b : b[i].lane \in Incoming(r)
      /\ total[r] + Len(b) = Total(Lengths', Incoming(r))
      /\ \A l \in Lanes : l[2] # r => seen'[l] = seen[l] /\ taken'[l] = taken[l]
  <2>1. Poll(r) /\ stage[r] = "polling" /\ b = poll'[r].batch
    BY <1>1, <1>2
  <2> QED
    BY <2>1, BatchGrows
<1>4. /\ MeshInv /\ TypeOK /\ SoakTypeOK /\ Local(q) /\ Local(r)
      /\ \A p \in Ranks : Incoming(p) \subseteq Lanes
  BY DEF SoakInv, MeshInv, Incoming
<1>5. CASE q # r
  <2>1. /\ stage'[q] = stage[q] /\ poll'[q] = poll[q] /\ total'[q] = total[q]
        /\ finished'[q] = finished[q]
    BY <1>2, <1>4, <1>5 DEF SoakTypeOK
  <2>2. ASSUME NEW l \in Incoming(q)
        PROVE  seen'[l] = seen[l] /\ got'[l] = got[l] /\ Len(taken'[l]) = Len(taken[l])
    <3>1. l \in Lanes /\ l[2] = q /\ got[l] \in Nat
      BY <1>4 DEF Incoming, SoakTypeOK
    <3>2. Reached(b, l) = got[l]
      <4>1. DOMAIN b = 1..Len(b) /\ Len(b) \in 0..Len(b)
        BY <1>3, LenProperties
      <4>2. \A i \in 1..Len(b) : b[i].lane # l
        BY <1>3, <1>5, <3>1, <4>1 DEF Incoming
      <4> QED
        BY <1>3, <3>1, <4>1, <4>2, LatestIs DEF Reached
    <3> QED
      BY <1>2, <1>3, <1>5, <3>1, <3>2
  <2> QED
    BY <1>2, <1>4, <2>1, <2>2, RankFrame
<1>6. CASE q = r /\ poll'[r].pc # "idle"
  <2>1. UNCHANGED <<stage, got, total, owed, safe, finished>>
    BY <1>2, <1>6
  <2>2. InPoll(r)'
    BY <1>2, <1>6, <2>1 DEF InPoll
  <2>3. Known(r)'
    <3>1. InOrder(b)'
      BY <1>3, <2>1, InOrderFrame
    <3>2. InOrder(poll[r].batch)'
      BY <1>1, <3>1 DEF InOrder, Latest
    <3>3. \A l \in Incoming(r) : Reached(poll[r].batch, l)' = seen'[l]
      BY <1>1, <1>3, <2>1 DEF Reached, Latest
    <3> QED
      BY <1>1, <1>2, <1>3, <2>1, <3>2, <3>3 DEF Known, Incoming
  <2>4. Counted(r)'
    BY <1>1, <1>2, <1>3, <2>1 DEF Counted, Incoming
  <2>5. Searching(r)'
    <3> SUFFICES ASSUME finished[r], poll'[r].batch = <<>> PROVE Searching(r)'
      BY <2>1 DEF Searching
    <3> QED
      BY <1>2, <2>1, SearchStep
  <2>6. Leaving(r)'
    BY <1>2, <2>1 DEF Leaving
  <2> QED
    BY <1>6, <2>2, <2>3, <2>4, <2>5, <2>6 DEF Local
<1>7. CASE q = r /\ poll'[r].pc = "idle"
  <2>1. /\ stage'[r] = "ack" /\ total'[r] = total[r] + Len(b)
        /\ \A l \in Incoming(r) : got'[l] = seen'[l]
    BY <1>2, <1>3, <1>4, <1>7 DEF SoakTypeOK
  <2>2. InPoll(r)' /\ Known(r)' /\ Searching(r)'
    BY <1>7, <2>1 DEF InPoll, Known, Searching, Incoming
  <2>3. Counted(r)'
    <3>1. total'[r] \in Nat
      <4>1. total[r] \in Nat /\ Len(b) \in Nat
        BY <1>3, <1>4, LenProperties DEF SoakTypeOK
      <4> QED
        BY <2>1, <4>1
    <3>2. total'[r] + 0 = Total(Lengths', Incoming(r))
      BY <1>3, <2>1, <3>1
    <3> QED
      BY <2>1, <3>2 DEF Counted, Incoming
  <2>4. Leaving(r)'
    <3> SUFFICES ASSUME finished[r], b = <<>>
                 PROVE  \A l \in Incoming(r) : Drained(l)'
      BY <1>1, <1>2, <2>1 DEF Leaving, Incoming
    <3> QED
      BY <1>1, <1>2, <1>3, <1>7, SearchStep
  <2> QED
    BY <1>7, <2>2, <2>3, <2>4 DEF Local
<1> QED
  BY <1>5, <1>6, <1>7

-----------------------------------------------------------------------------
(* The steps of the program *)

(* What a poller knows after any step. *)
LEMMA LocalStep ==
  ASSUME SoakInv, [SoakNext]_soakVars, NEW q \in Ranks
  PROVE  Local(q)'
<1>1. /\ MeshInv /\ TypeOK /\ TypeOK' /\ SoakTypeOK /\ errors = {} /\ errors' = {}
      /\ Local(q)
  BY SoakKeepsMesh DEF SoakInv, MeshInv
<1>2. ASSUME UNCHANGED <<safe, seen, taken, poll, stage, finished, got, total>>
      PROVE  Local(q)'
  BY <1>1, <1>2, RankFrame
<1>3. ASSUME NEW r \in Ranks, EnterBarrier(r) \/ RaiseDone(r) \/ StopNoise(r) \/ Verdict(r)
                                \/ Collective(r)
      PROVE  Local(q)'
  BY <1>2, <1>3
  DEF EnterBarrier, RaiseDone, StopNoise, Verdict, Collective, meshVars, recvVars, pollerVars
<1>4. ASSUME NEW r \in Ranks, Push(r)
      PROVE  Local(q)'
  <2>1. UNCHANGED <<safe, recvVars, pollerVars>>
    BY <1>4 DEF Push, SendPut, SendFull, SendDisbelieve
  <2> QED
    BY <1>2, <2>1 DEF recvVars, pollerVars
<1>5. ASSUME NEW l \in Lanes, Transfer(l)
      PROVE  Local(q)'
  <2>1. UNCHANGED <<safe, recvVars, pollerVars>>
    BY <1>5 DEF Transfer, SendReturn
  <2> QED
    BY <1>2, <2>1 DEF recvVars, pollerVars
<1>6. ASSUME NEW r \in Noisy, Background(r)
      PROVE  Local(q)'
  BY <1>2, <1>6 DEF Background, meshVars, recvVars, pollerVars
<1>7. ASSUME NEW r \in Ranks, Acknowledge(r)
      PROVE  Local(q)'
  <2>1. UNCHANGED <<safe, recvVars, stage, finished, got, total>>
    BY <1>1, <1>7 DEF Acknowledge, AckIssue, AckApply, AckReturn
  <2> QED
    BY <1>2, <2>1 DEF recvVars
<1>8. ASSUME NEW r \in Ranks, Load(r)
      PROVE  Local(q)'
  <2>1. UNCHANGED <<safe, recvVars, got, total>>
    BY <1>8 DEF Load, meshVars
  <2>2. UNCHANGED <<safe, seen, taken, poll, got, total>>
    BY <2>1 DEF recvVars
  <2>3. CASE q # r
    <3>1. stage'[q] = stage[q] /\ finished'[q] = finished[q]
      BY <1>1, <1>8, <2>3 DEF Load, GoOn, SoakTypeOK
    <3> QED
      BY <1>1, <2>2, <3>1, RankFrame
  <2>4. CASE q = r
    <3>1. stage[q] = "load" /\ stage'[q] = "poll"
      BY <1>1, <1>8, <2>4 DEF Load, GoOn, SoakTypeOK
    <3>2. InPoll(q)' /\ Known(q)' /\ Searching(q)' /\ Leaving(q)'
      BY <1>1, <2>2, <3>1 DEF Local, InPoll, Known, Searching, Leaving, Incoming
    <3>3. Counted(q)'
      BY <1>1, <2>2, <3>1 DEF Local, Counted, Incoming, Lengths
    <3> QED
      BY <3>2, <3>3 DEF Local
  <2> QED
    BY <2>3, <2>4
<1>9. ASSUME NEW r \in Ranks, StartPoll(r)
      PROVE  Local(q)'
  <2>1. /\ UNCHANGED <<safe, seen, taken, finished, got, total>>
        /\ poll[r].pc = "idle" /\ poll' = [poll EXCEPT ![r] = Visit(Incoming(r), <<>>)]
        /\ stage[r] = "poll" /\ stage' = [stage EXCEPT ![r] = "polling"]
    BY <1>9 DEF StartPoll, PollStart, GoOn
  <2>2. CASE q # r
    <3>1. stage'[q] = stage[q] /\ poll'[q] = poll[q]
      BY <1>1, <2>1, <2>2 DEF TypeOK, SoakTypeOK
    <3> QED
      BY <1>1, <2>1, <3>1, RankFrame
  <2>3. CASE q = r
    <3> DEFINE new == Visit(Incoming(r), <<>>)
    <3>1. new.pc = "lane" /\ new.todo = Incoming(r) /\ new.at = 0 /\ new.batch = <<>>
      BY DEF Visit, FreshPoll
    <3> HIDE DEF new
    <3>2. stage'[q] = "polling" /\ poll'[q] = new
      BY <1>1, <2>1, <2>3 DEF TypeOK, SoakTypeOK, new
    <3>3. InPoll(q)' /\ Searching(q)' /\ Leaving(q)'
      BY <2>3, <3>1, <3>2 DEF InPoll, Searching, Leaving, Incoming
    <3>4. Known(q)'
      <4>1. PICK b : b = <<>>
        OBVIOUS
      <4>2. b \in Seq(MessageRecords) /\ Len(b) = 0 /\ DOMAIN b = {}
        BY <4>1
      <4>3. InOrder(poll[q].batch)'
        BY <3>1, <3>2 DEF InOrder
      <4>4. \A l \in Incoming(q) : got[l] = seen[l]
        BY <1>1, <2>1, <2>3 DEF Local, Known
      <4>5. ASSUME NEW l \in Incoming(q)
            PROVE  Reached(poll[q].batch, l)' = seen'[l]
        <5>1. Reached(b, l)' = got'[l]
          BY <4>2 DEF Reached, Latest
        <5>2. poll'[q].batch = b
          BY <3>1, <3>2, <4>1
        <5> QED
          BY <2>1, <4>4, <5>1, <5>2
      <4> QED
        BY <3>1, <3>2, <4>3, <4>5 DEF Known, Incoming
    <3>5. Counted(q)'
      <4>1. total[q] = Total(Lengths, Incoming(q))
        <5>1. total[q] \in Nat
          BY <1>1 DEF SoakTypeOK
        <5> QED
          BY <1>1, <2>1, <2>3, <5>1 DEF Local, Counted
      <4>2. total[q] + 0 = total[q] /\ Len(<<>>) = 0
        BY <1>1 DEF SoakTypeOK
      <4>3. Total(Lengths, Incoming(q))' = Total(Lengths, Incoming(q))
        BY <2>1 DEF Lengths, Incoming
      <4> QED
        BY <2>1, <3>1, <3>2, <4>1, <4>2, <4>3 DEF Counted
    <3> QED
      BY <3>3, <3>4, <3>5 DEF Local
  <2> QED
    BY <2>2, <2>3
<1>10. ASSUME NEW r \in Ranks, PollOn(r)
       PROVE  Local(q)'
  BY <1>1, <1>10, PollOnKeeps
<1>11. ASSUME NEW r \in Ranks, Check(r)
       PROVE  Local(q)'
  <2> DEFINE next == IF Finished(r) /\ poll[r].batch = <<>> THEN "exited" ELSE "load"
  <2>1. /\ UNCHANGED <<safe, seen, taken, finished, got, total>>
        /\ stage[r] = "ack" /\ stage' = [stage EXCEPT ![r] = next]
        /\ poll' = [poll EXCEPT ![r].batch = <<>>]
    BY <1>11 DEF Check, GoOn
  <2> HIDE DEF next
  <2>2. CASE q # r
    <3>1. stage'[q] = stage[q] /\ poll'[q] = poll[q]
      BY <1>1, <2>1, <2>2 DEF TypeOK, SoakTypeOK
    <3> QED
      BY <1>1, <2>1, <3>1, RankFrame
  <2>3. CASE q = r
    <3> DEFINE new == [poll[r] EXCEPT !.batch = <<>>]
    <3>1. poll[r] \in PollRecords /\ poll' = [poll EXCEPT ![r] = new]
      BY <1>1, <2>1 DEF TypeOK
    <3>2. new.pc = poll[r].pc
      BY <3>1 DEF PollRecords
    <3> HIDE DEF new
    <3>3. poll'[q] = new /\ stage'[q] = next
      BY <1>1, <2>1, <2>3, <3>1 DEF TypeOK, SoakTypeOK
    <3>4. next \in {"exited", "load"}
      BY DEF next
    <3>5. InPoll(q)' /\ Searching(q)'
      BY <1>1, <2>1, <2>3, <3>2, <3>3, <3>4 DEF Local, InPoll, Searching
    <3>6. Known(q)'
      BY <1>1, <2>1, <2>3, <3>3, <3>4 DEF Local, Known, Incoming
    <3>7. Counted(q)'
      BY <1>1, <2>1, <2>3, <3>3, <3>4 DEF Local, Counted, Incoming, Lengths
    <3>8. Leaving(q)'
      <4> SUFFICES ASSUME next = "exited"
                   PROVE  \A l \in Incoming(q) : Drained(l)'
        BY <3>3, <3>4 DEF Leaving, Incoming
      <4>1. finished[q] /\ poll[q].batch = <<>> /\ stage[q] = "ack"
        BY <2>1, <2>3 DEF next, Finished
      <4> QED
        BY <1>1, <2>1, <4>1 DEF Local, Leaving, Drained
    <3> QED
      BY <3>5, <3>6, <3>7, <3>8 DEF Local
  <2> QED
    BY <2>2, <2>3
<1>12. CASE UNCHANGED soakVars
  BY <1>2, <1>12 DEF soakVars, meshVars, recvVars, pollerVars
<1> QED
  BY <1>3, <1>4, <1>5, <1>6, <1>7, <1>8, <1>9, <1>10, <1>11, <1>12
  DEF SoakNext, Main, Poller, Over

(* A safe ring loses nothing. *)
LEMMA LostStep ==
  ASSUME SoakInv, [SoakNext]_soakVars
  PROVE  /\ safe' = safe
         /\ safe => \A q \in Ranks : lost'[q] = 0
<1>1. MeshInv /\ (safe => \A q \in Ranks : lost[q] = 0) /\ \A r \in Ranks : Local(r)
  BY DEF SoakInv
<1>2. ASSUME NEW r \in Ranks, PollOn(r)
      PROVE  safe' = safe /\ (safe => lost' = lost)
  BY <1>2, PollOnIs
<1>3. ASSUME NEW r \in Ranks, StartPoll(r) \/ Check(r)
      PROVE  safe' = safe /\ lost' = lost
  BY <1>3 DEF StartPoll, PollStart, Check
<1>4. ASSUME NEW r \in Ranks, Push(r)
      PROVE  safe' = safe /\ lost' = lost
  <2>1. UNCHANGED <<safe, recvVars>>
    BY <1>4 DEF Push, SendPut, SendFull, SendDisbelieve
  <2> QED
    BY <2>1 DEF recvVars
<1>5. ASSUME NEW l \in Lanes, Transfer(l)
      PROVE  safe' = safe /\ lost' = lost
  <2>1. UNCHANGED <<safe, recvVars>>
    BY <1>5 DEF Transfer, SendReturn
  <2> QED
    BY <2>1 DEF recvVars
<1>6. ASSUME NEW r \in Ranks, Acknowledge(r)
      PROVE  safe' = safe /\ lost' = lost
  <2>1. UNCHANGED <<safe, recvVars>>
    BY <1>6 DEF Acknowledge, AckIssue, AckApply, AckReturn
  <2> QED
    BY <2>1 DEF recvVars
<1>7. ASSUME UNCHANGED meshVars
      PROVE  safe' = safe /\ lost' = lost
  BY <1>7 DEF meshVars, recvVars
<1>8. ASSUME NEW r \in Ranks,
             EnterBarrier(r) \/ RaiseDone(r) \/ StopNoise(r) \/ Verdict(r) \/ Collective(r)
               \/ Load(r)
      PROVE  UNCHANGED meshVars
  BY <1>8 DEF EnterBarrier, RaiseDone, StopNoise, Verdict, Collective, Load
<1>9. CASE UNCHANGED soakVars
  BY <1>1, <1>7, <1>9 DEF soakVars
<1>10. ASSUME NEW r \in Noisy, Background(r)
       PROVE  UNCHANGED meshVars
  BY <1>10 DEF Background
<1>11. safe' = safe /\ (safe => lost' = lost)
  BY <1>2, <1>3, <1>4, <1>5, <1>6, <1>7, <1>8, <1>9, <1>10
  DEF SoakNext, Main, Poller, Over, soakVars
<1> QED
  BY <1>1, <1>11

(* The push stage comes before the barrier. *)
LEMMA PushIsFirst == "push" \notin After("barrier")
<1> SUFFICES ASSUME NEW i \in DOMAIN Order, NEW k \in 1..i, Order[k] = "barrier",
                    Order[i] = "push"
             PROVE  FALSE
  BY DEF After
<1>1. i \in 1..6 /\ k \in 1..6
  BY DEF Order
<1>2. /\ Order[1] = "push" /\ Order[2] = "barrier" /\ Order[3] = "join"
      /\ Order[4] = "gather" /\ Order[5] = "close" /\ Order[6] = "end"
  BY DEF Order
<1>3. i = 1
  BY <1>1, <1>2
<1> QED
  BY <1>2, <1>3

(* Everyone past the push stage, everything is sent. *)
LEMMA AllArePast ==
  ASSUME SoakInv, \A r \in Ranks : main[r] # "push"
  PROVE  AllSent
<1> SUFFICES ASSUME NEW l \in Lanes PROVE sent[l] = Count /\ ~flying[l]
  BY DEF AllSent
<1>1. l[1] \in Ranks /\ sent[l] \in Nat /\ Count \in Nat /\ (flying[l] => sent[l] < Count)
  BY LaneIs, SoakAssumption DEF SoakInv, MeshInv, Pushing
<1>2. sent[l] = Count
  BY <1>1 DEF SoakInv, Pushing, AllPushed
<1> QED
  BY <1>1, <1>2

(* A poller that has stopped has accounted for every message of every      *)
(* other rank.                                                             *)
LEMMA ExitedPasses ==
  ASSUME SoakInv, NEW r \in Ranks, stage[r] = "exited"
  PROVE  Passes(r)
<1> DEFINE into == Incoming(r)
<1>1. /\ Known(r) /\ Counted(r) /\ Leaving(r) /\ TypeOK /\ SoakTypeOK /\ RingAccounted
      /\ safe => \A q \in Ranks : lost[q] = 0
  BY DEF SoakInv, Local, MeshInv
<1>2. \A l \in into : got[l] = seen[l] /\ seen[l] = Count
  BY <1>1 DEF Known, Leaving, Drained
<1>3. IsFiniteSet(into) /\ Count \in Nat
  BY <1>1, IncomingIs, SoakAssumption
<1>4. /\ total[r] + 0 = Total(Lengths, into) /\ total[r] \in Nat
      /\ lost[r] + Total(Lengths, into) = Total(seen, into) /\ lost[r] \in Int
  BY <1>1 DEF Counted, SoakTypeOK, RingAccounted, Lengths, TypeOK
<1>5. into = {l \in Lanes : l[2] = r}
  BY DEF Incoming
<1> HIDE DEF into
<1>6. Total(seen, into) = Count * Cardinality(into)
  BY <1>2, <1>3, TotalConstant
<1>7. total[r] + lost[r] = Count * Cardinality(into)
  BY <1>4, <1>6
<1> QED
  BY <1>1, <1>2, <1>5, <1>7 DEF Passes

(* The main threads enter the barrier when everything is sent, and raise   *)
(* `done` when all have entered it.                                        *)
LEMMA PushingStep ==
  ASSUME SoakInv, [SoakNext]_soakVars
  PROVE  Pushing'
<1>1. /\ TypeOK /\ SoakTypeOK /\ Pushing /\ errors = {} /\ errors' = {} /\ Count \in Nat
      /\ \A l \in Lanes : Limit[l] = Count /\ sent[l] \in Nat /\ flying[l] \in BOOLEAN
  BY SoakKeepsMesh, SoakAssumption DEF SoakInv, MeshInv, TypeOK
<1>2. ASSUME UNCHANGED <<sendVars, main, done, finished>>
      PROVE  Pushing'
  BY <1>1, <1>2 DEF Pushing, AllSent, AllPushed, sendVars
<1>3. ASSUME UNCHANGED <<sendVars, finished>>, NEW r \in Ranks, AllPushed(r), NEW next,
             main' = [main EXCEPT ![r] = next],
             \A q \in Ranks : done'[q] => done[q] \/ AllSent
      PROVE  Pushing'
  <2>1. \A q \in Ranks : main'[q] # "push" => AllPushed(q)
    BY <1>1, <1>3 DEF Pushing, SoakTypeOK
  <2> QED
    BY <1>1, <1>3, <2>1 DEF Pushing, AllSent, AllPushed, sendVars
<1>4. ASSUME NEW r \in Ranks, Push(r)
      PROVE  Pushing'
  <2> DEFINE l == Target(r)
  <2>1. l \in Lanes /\ l[1] = r
    BY <1>1, <1>4, TargetIs DEF Push
  <2> HIDE DEF l
  <2>2. SendPut(l) \/ SendFull(l)
    <3>1. ~SendDisbelieve(l)
      BY <1>1 DEF SendDisbelieve
    <3> QED
      BY <1>4, <3>1 DEF Push, l
  <2>3. main' = main /\ done' = done /\ finished' = finished
    BY <1>1, <1>4 DEF Push, pollerVars, l, SendDisbelieve
  <2>4. CASE SendFull(l)
    <3>1. sent' = sent /\ flying' = flying
      BY <2>4 DEF SendFull
    <3> QED
      BY <1>1, <2>3, <3>1 DEF Pushing, AllSent, AllPushed
  <2>5. CASE SendPut(l)
    <3>1. /\ sent' = sent /\ flying' = [flying EXCEPT ![l] = TRUE]
          /\ ~flying[l] /\ sent[l] < Count
      BY <1>1, <2>1, <2>5 DEF SendPut, MaySend
    <3>2. ~AllSent
      BY <1>1, <2>1, <3>1 DEF AllSent
    <3>3. \A k \in Lanes : flying'[k] => sent'[k] < Count
      BY <1>1, <2>1, <3>1 DEF Pushing, TypeOK
    <3> QED
      BY <1>1, <2>3, <3>1, <3>2, <3>3 DEF Pushing, AllPushed
  <2> QED
    BY <2>2, <2>4, <2>5
<1>5. ASSUME NEW l \in Lanes, Transfer(l)
      PROVE  Pushing'
  <2>1. /\ flying[l] /\ flying' = [flying EXCEPT ![l] = FALSE]
        /\ sent' = [sent EXCEPT ![l] = @ + 1]
        /\ main' = main /\ done' = done /\ finished' = finished
    BY <1>5 DEF Transfer, SendReturn, mainVars, pollerVars
  <2>2. sent[l] < Count
    BY <1>1, <2>1 DEF Pushing
  <2>3. ~AllSent /\ \A r \in Ranks : AllPushed(r) => l[1] # r
    BY <1>1, <2>1, <2>2 DEF AllSent, AllPushed
  <2>4. \A k \in Lanes : /\ sent'[k] = IF k = l THEN sent[k] + 1 ELSE sent[k]
                         /\ flying'[k] = IF k = l THEN FALSE ELSE flying[k]
    BY <1>1, <2>1 DEF TypeOK
  <2>5. ASSUME NEW k \in Lanes
        PROVE  sent'[k] <= Count /\ (flying'[k] => sent'[k] < Count)
    <3>1. CASE k = l
      <4>1. sent'[k] = sent[l] + 1 /\ ~flying'[k] /\ sent[l] \in Nat
        BY <1>1, <2>1, <3>1 DEF TypeOK
      <4> QED
        BY <1>1, <2>2, <4>1
    <3>2. CASE k # l
      <4>1. sent'[k] = sent[k] /\ flying'[k] = flying[k]
        BY <1>1, <2>1, <3>2 DEF TypeOK
      <4> QED
        BY <1>1, <4>1 DEF Pushing
    <3> QED
      BY <3>1, <3>2
  <2>6. \A r \in Ranks : AllPushed(r) => AllPushed(r)'
    BY <2>3, <2>4 DEF AllPushed
  <2> QED
    BY <1>1, <2>1, <2>3, <2>5, <2>6 DEF Pushing
<1>6. ASSUME NEW r \in Ranks, EnterBarrier(r)
      PROVE  Pushing'
  BY <1>3, <1>6 DEF EnterBarrier, To, meshVars, pollerVars
<1>7. ASSUME NEW r \in Ranks, RaiseDone(r)
      PROVE  Pushing'
  <2>1. \A q \in Ranks : main[q] # "push"
    BY <1>7, PushIsFirst DEF RaiseDone, Through
  <2>2. AllSent
    BY <2>1, AllArePast
  <2>3. AllPushed(r)
    BY <2>2 DEF AllSent, AllPushed
  <2> QED
    BY <1>3, <1>7, <2>2, <2>3 DEF RaiseDone, To, meshVars, pollerVars
<1>8. ASSUME NEW r \in Ranks, Verdict(r)
      PROVE  Pushing'
  <2>1. main[r] # "push" /\ AllPushed(r)
    BY <1>1, <1>8 DEF Verdict, Pushing
  <2> QED
    BY <1>3, <1>8, <2>1 DEF Verdict, To, meshVars, pollerVars
<1>9. ASSUME NEW r \in Ranks, Collective(r)
      PROVE  Pushing'
  <2>1. main[r] # "push" /\ AllPushed(r)
    BY <1>1, <1>9 DEF Collective, Pushing
  <2> QED
    BY <1>3, <1>9, <2>1 DEF Collective, To, meshVars, pollerVars
<1>10. ASSUME NEW r \in Ranks, Load(r)
       PROVE  Pushing'
  <2>1. UNCHANGED <<sendVars, main, done>> /\ finished' = [finished EXCEPT ![r] = done[r]]
    BY <1>10 DEF Load, meshVars, mainVars
  <2>2. \A q \in Ranks : finished'[q] => AllSent
    BY <1>1, <2>1 DEF Pushing, SoakTypeOK
  <2>3. sent' = sent /\ flying' = flying /\ main' = main /\ done' = done
    BY <2>1 DEF sendVars
  <2> QED
    BY <1>1, <2>2, <2>3 DEF Pushing, AllSent, AllPushed
<1>11. ASSUME NEW r \in Ranks, StopNoise(r) \/ StartPoll(r) \/ PollOn(r) \/ Acknowledge(r)
                                 \/ Check(r)
       PROVE  Pushing'
  <2>1. CASE PollOn(r)
    <3>1. UNCHANGED <<sendVars, mainVars, finished>>
      BY <2>1, PollOnIs
    <3> QED
      BY <1>2, <3>1 DEF mainVars
  <2>2. CASE Acknowledge(r)
    <3>1. UNCHANGED <<sendVars, mainVars, finished>>
      BY <2>2 DEF Acknowledge, AckIssue, AckApply, AckReturn
    <3> QED
      BY <1>2, <3>1 DEF mainVars
  <2>3. CASE StopNoise(r)
    BY <1>2, <2>3 DEF StopNoise, meshVars, mainVars, pollerVars
  <2>4. CASE StartPoll(r) \/ Check(r)
    BY <1>2, <2>4 DEF StartPoll, PollStart, Check, mainVars
  <2> QED
    BY <1>11, <2>1, <2>2, <2>3, <2>4
<1>12. ASSUME NEW r \in Noisy, Background(r)
       PROVE  Pushing'
  BY <1>2, <1>12 DEF Background, meshVars, mainVars, pollerVars
<1>13. CASE UNCHANGED soakVars
  BY <1>2, <1>13 DEF soakVars, meshVars, mainVars, pollerVars
<1> QED
  BY <1>4, <1>5, <1>6, <1>7, <1>8, <1>9, <1>10, <1>11, <1>12, <1>13
  DEF SoakNext, Main, Poller, Over

(* The variables of the program keep their types, and no thread fails. *)
LEMMA SoakTypeStep ==
  ASSUME SoakInv, [SoakNext]_soakVars
  PROVE  SoakTypeOK'
<1> DEFINE Mains == {"push", "barrier", "join", "gather", "close", "end"}
<1>1. SoakTypeOK /\ errors = {} /\ errors' = {}
  BY SoakKeepsMesh DEF SoakInv
<1>2. ASSUME NEW r \in Ranks, NEW next \in Mains, To(r, next)
      PROVE  main' \in [Ranks -> Mains]
  BY <1>1, <1>2 DEF To, SoakTypeOK
<1>3. ASSUME NEW r \in Ranks, NEW next \in Stages, GoOn(r, next)
      PROVE  stage' \in [Ranks -> Stages]
  BY <1>1, <1>3 DEF GoOn, SoakTypeOK
<1>4. ASSUME UNCHANGED pollerVars, UNCHANGED done, main' \in [Ranks -> Mains]
      PROVE  SoakTypeOK'
  BY <1>1, <1>4 DEF SoakTypeOK, pollerVars
<1>5. ASSUME NEW r \in Ranks, EnterBarrier(r) \/ Collective(r)
      PROVE  SoakTypeOK'
  <2>1. /\ UNCHANGED <<done, pollerVars>>
        /\ To(r, "barrier") \/ To(r, "close") \/ To(r, "end")
    BY <1>5 DEF EnterBarrier, Collective
  <2> QED
    BY <1>2, <1>4, <2>1
<1>6. ASSUME NEW r \in Ranks, Verdict(r)
      PROVE  SoakTypeOK'
  <2>1. stage[r] = "exited"
    BY <1>1, <1>6 DEF Verdict, Joined, SoakTypeOK, Stages
  <2>2. To(r, "gather") /\ UNCHANGED <<done, pollerVars>>
    BY <1>6, <2>1, ExitedPasses DEF Verdict
  <2> QED
    BY <1>2, <1>4, <2>2
<1>7. ASSUME NEW r \in Ranks, Push(r)
      PROVE  SoakTypeOK'
  <2>1. ~SendDisbelieve(Target(r))
    BY <1>1 DEF SendDisbelieve
  <2>2. main' = main /\ UNCHANGED <<done, pollerVars>>
    BY <1>7, <2>1 DEF Push
  <2> QED
    BY <1>1, <1>4, <2>2 DEF SoakTypeOK
<1>8. ASSUME NEW r \in Ranks, RaiseDone(r)
      PROVE  SoakTypeOK'
  <2>1. /\ To(r, "join") /\ done' = [done EXCEPT ![r] = TRUE] /\ UNCHANGED pollerVars
    BY <1>8 DEF RaiseDone
  <2>2. main' \in [Ranks -> Mains]
    BY <1>2, <2>1
  <2> QED
    BY <1>1, <2>1, <2>2 DEF SoakTypeOK, pollerVars
<1>9. ASSUME NEW r \in Ranks, Load(r)
      PROVE  SoakTypeOK'
  <2>1. /\ GoOn(r, "poll") /\ finished' = [finished EXCEPT ![r] = done[r]]
        /\ UNCHANGED <<mainVars, got, total, owed>>
    BY <1>9 DEF Load
  <2>2. stage' \in [Ranks -> Stages]
    BY <1>3, <2>1 DEF Stages
  <2> QED
    BY <1>1, <2>1, <2>2 DEF SoakTypeOK, mainVars
<1>10. ASSUME NEW r \in Ranks, StartPoll(r) \/ Check(r)
       PROVE  SoakTypeOK'
  <2>1. /\ GoOn(r, "polling") \/ GoOn(r, "exited") \/ GoOn(r, "load")
        /\ UNCHANGED <<mainVars, finished, got, total, owed>>
    BY <1>10 DEF StartPoll, Check
  <2>2. stage' \in [Ranks -> Stages]
    BY <1>3, <2>1 DEF Stages
  <2> QED
    BY <1>1, <2>1, <2>2 DEF SoakTypeOK, mainVars
<1>11. ASSUME NEW r \in Ranks, PollOn(r)
       PROVE  SoakTypeOK'
  <2>1. PICK b : b = poll'[r].batch
    OBVIOUS
  <2>2. UNCHANGED <<mainVars, finished>> /\ Poll(r) /\ stage[r] = "polling"
    BY <1>11, PollOnIs
  <2>3. b \in Seq(MessageRecords)
    BY <2>1, <2>2, BatchGrows
  <2>4. \A l \in Lanes : Reached(b, l) \in Nat
    <3>1. Len(b) \in 0..Len(b)
      BY <2>3, LenProperties
    <3>2. \A l \in Lanes : got[l] \in Nat
      BY <1>1 DEF SoakTypeOK
    <3> QED
      BY <2>3, <3>1, <3>2, LatestIs DEF Reached
  <2>5. CASE UNCHANGED <<stage, got, total, owed>>
    BY <1>1, <2>2, <2>5 DEF SoakTypeOK, mainVars
  <2>6. CASE /\ stage' = [stage EXCEPT ![r] = "ack"]
             /\ got' = [l \in Lanes |-> Reached(b, l)]
             /\ total' = [total EXCEPT ![r] = @ + Len(b)]
             /\ owed' = [owed EXCEPT ![r] = Owes(b)]
    <3>1. stage' \in [Ranks -> Stages]
      BY <1>1, <2>6 DEF SoakTypeOK, Stages
    <3>2. got' \in [Lanes -> Nat]
      BY <2>4, <2>6
    <3>3. total' \in [Ranks -> Nat]
      <4>1. Len(b) \in Nat
        BY <2>3, LenProperties
      <4> QED
        BY <1>1, <2>6, <4>1 DEF SoakTypeOK
    <3>4. owed' \in [Ranks -> SUBSET MessageRecords]
      <4>1. \A i \in DOMAIN b : b[i].lane \in Lanes
        <5>1. \A i \in DOMAIN b : b[i] \in MessageRecords
          BY <2>3, ElementOfSeq, LenProperties
        <5> QED
          BY <5>1 DEF MessageRecords
      <4>2. Furthest(b) \in SUBSET MessageRecords
        BY <2>4, <4>1 DEF Furthest, Message, MessageRecords
      <4>3. Owes(b) \in SUBSET MessageRecords
        BY <4>2 DEF Owes
      <4> QED
        BY <1>1, <2>6, <4>3 DEF SoakTypeOK
    <3> QED
      BY <1>1, <2>2, <3>1, <3>2, <3>3, <3>4 DEF SoakTypeOK, mainVars
  <2> QED
    BY <1>11, <2>1, <2>5, <2>6, PollOnIs
<1>12. ASSUME NEW r \in Ranks, Acknowledge(r)
       PROVE  SoakTypeOK'
  <2>1. /\ UNCHANGED <<mainVars, stage, finished, got, total>>
        /\ owed' = owed \/ \E m \in owed[r] : owed' = [owed EXCEPT ![r] = @ \ {m}]
    BY <1>1, <1>12 DEF Acknowledge
  <2>2. owed' \in [Ranks -> SUBSET MessageRecords]
    BY <1>1, <2>1 DEF SoakTypeOK
  <2> QED
    BY <1>1, <2>1, <2>2 DEF SoakTypeOK, mainVars
<1>13. ASSUME UNCHANGED <<mainVars, pollerVars>>
       PROVE  SoakTypeOK'
  BY <1>1, <1>4, <1>13 DEF SoakTypeOK, mainVars
<1>14. ASSUME NEW r \in Ranks, StopNoise(r)
       PROVE  SoakTypeOK'
  BY <1>13, <1>14 DEF StopNoise
<1>15. ASSUME NEW l \in Lanes, Transfer(l)
       PROVE  SoakTypeOK'
  BY <1>13, <1>15 DEF Transfer
<1>16. ASSUME NEW r \in Noisy, Background(r)
       PROVE  SoakTypeOK'
  BY <1>13, <1>16 DEF Background
<1>17. CASE UNCHANGED soakVars
  BY <1>13, <1>17 DEF soakVars
<1> QED
  BY <1>5, <1>6, <1>7, <1>8, <1>9, <1>10, <1>11, <1>12, <1>14, <1>15, <1>16, <1>17
  DEF SoakNext, Main, Poller, Over

-----------------------------------------------------------------------------
(* The program starts with nothing sent, nothing seen and nothing known. *)
LEMMA SoakInitInv ==
  ASSUME SoakInit
  PROVE  SoakInv
<1>1. MeshInit /\ MeshInv /\ TypeOK
  BY MeshInitInv DEF SoakInit, MeshInv
<1>2. /\ \A l \in Lanes : /\ sent[l] = 0 /\ flying[l] = FALSE /\ seen[l] = 0
                          /\ taken[l] = <<>> /\ got[l] = 0
      /\ \A r \in Ranks : /\ lost[r] = 0 /\ poll[r] = IdlePoll(<<>>) /\ total[r] = 0
                          /\ main[r] = "push" /\ done[r] = FALSE /\ finished[r] = FALSE
                          /\ stage[r] = "load" /\ owed[r] = {}
  BY <1>1 DEF SoakInit, MeshInit, Fresh, Zero
<1>3. SoakTypeOK
  BY <1>1 DEF SoakInit, SoakTypeOK, Stages
<1>4. Pushing
  BY <1>2, SoakAssumption DEF Pushing
<1>5. ASSUME NEW r \in Ranks
      PROVE  /\ lost[r] + Total(Lengths, Incoming(r)) = Total(seen, Incoming(r))
             /\ total[r] + 0 = Total(Lengths, Incoming(r))
  <2> DEFINE into == Incoming(r)
  <2>1. IsFiniteSet(into) /\ into \subseteq Lanes /\ \A l \in Lanes : Lengths[l] = Len(taken[l])
    BY <1>1, IncomingIs
  <2>2. \A l \in Lanes : Lengths[l] = 0
    BY <1>2, <2>1
  <2> HIDE DEF into
  <2>3. Total(Lengths, into) = 0 /\ Total(seen, into) = 0
    BY <1>2, <2>1, <2>2, TotalZero
  <2> QED
    BY <1>2, <2>3 DEF into
<1>6. ASSUME NEW r \in Ranks
      PROVE  Local(r)
  <2>1. InPoll(r)
    BY <1>2 DEF InPoll, IdlePoll, FreshPoll
  <2>2. Known(r) /\ Searching(r) /\ Leaving(r)
    BY <1>2 DEF Known, Searching, Leaving, Incoming
  <2>3. Counted(r)
    BY <1>2, <1>5 DEF Counted
  <2> QED
    BY <2>1, <2>2, <2>3 DEF Local
<1>7. RingAccounted
  BY <1>5 DEF RingAccounted, Lengths
<1> QED
  BY <1>1, <1>2, <1>3, <1>4, <1>6, <1>7 DEF SoakInv

(* The invariant of the program: `done` is raised when everything is sent, *)
(* and what a poller knows, has counted and has drained agrees with the    *)
(* cursors of its ring.                                                    *)
THEOREM SoakInvariant == SoakSpec => []SoakInv
<1>1. SoakInit => SoakInv
  BY SoakInitInv
<1>2. SoakInv /\ [SoakNext]_soakVars => SoakInv'
  <2> SUFFICES ASSUME SoakInv, [SoakNext]_soakVars PROVE SoakInv'
    OBVIOUS
  <2>1. MeshInv' /\ RingAccounted'
    BY SoakKeepsMesh
  <2>2. SoakTypeOK' /\ Pushing' /\ (safe' => \A r \in Ranks : lost'[r] = 0)
    BY SoakTypeStep, PushingStep, LostStep
  <2>3. \A r \in Ranks : Local(r)'
    BY LocalStep
  <2> QED
    BY <2>1, <2>2, <2>3 DEF SoakInv
<1> QED
  BY <1>1, <1>2, PTL DEF SoakSpec

(* Every check of the soak program succeeds: no send, poll or              *)
(* acknowledgement reports an error, every batch is in order, and a poller *)
(* stops when its lanes ended at the last messages of their senders and    *)
(* what it received and what was lost add up, with nothing lost on a safe  *)
(* ring.                                                                   *)
THEOREM SoakPassesTheorem == SoakSpec => []SoakPasses
<1>1. SoakInv => SoakPasses
  <2> SUFFICES ASSUME SoakInv PROVE SoakPasses
    OBVIOUS
  <2>1. SoakTypeOK
    BY DEF SoakInv
  <2>2. \A r \in Ranks : main[r] # "failed" /\ stage[r] # "failed"
    BY <2>1 DEF SoakTypeOK, Stages
  <2> QED
    BY <2>2, ExitedPasses DEF SoakPasses
<1> QED
  BY <1>1, SoakInvariant, PTL

=============================================================================
