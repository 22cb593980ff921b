--------------------------- MODULE CompareProofs ---------------------------
(***************************************************************************)
(* The rows the comparison program prints are true of the ring, for any    *)
(* depth of the lanes and any number of messages and round trips: no send, *)
(* poll or acknowledgement of it fails, what a stream does not deliver was *)
(* lost by a raw ring, a round trip is of the messages it is meant for,    *)
(* and no measurement leaves anything for the next.                        *)
(***************************************************************************)
EXTENDS Compare, MeshProofs

-----------------------------------------------------------------------------
(* The invariant *)

(* The lanes of the pair. *)
Forth == <<0, 1>>
Back  == <<1, 0>>

RingStages == {"push", "flying", "await", "polling", "ack", "drained"}

Stages == RingStages \cup {"post", "posted", "receive", "reply", "answer", "barrier",
                           "dismiss", "world", "end"}

CompareTypeOK ==
  /\ measure \in 1..8
  /\ pc \in [Ranks -> Stages] /\ count \in [Ranks -> Nat]
  /\ got \in Nat /\ stopping \in BOOLEAN
  /\ chan \in [Ranks -> Seq({"data", "stop"} \cup Nat)]

(* A rank of the pair is in a call of the ring when its thread is; its     *)
(* batch is there from the poll until it is dropped.                       *)
Calls(r) ==
  /\ flying[Out(r)] <=> pc[r] = "flying"
  /\ poll[r].pc # "idle" <=> pc[r] = "polling"
  /\ pc[r] \notin {"polling", "ack", "drained"} => poll[r].batch = <<>>
  /\ pc[r] = "ack" => poll[r].batch # <<>>

(* The ring of the measurements in progress. *)
RingOK ==
  /\ MeshInv /\ RingAccounted
  /\ safe => \A r \in Ranks : lost[r] = 0
  /\ \A r \in Ranks : Calls(r)
  /\ measure \in {1, 2} => safe
  /\ measure \in {3, 4} => ~safe

(* The two ranks of a ring stream. *)
Streamed ==
  /\ pc[0] \in {"push", "flying", "reply", "barrier"}
  /\ pc[1] \in {"await", "polling", "ack", "drained", "answer", "barrier"}
  /\ sent[Forth] = count[0] /\ sent[Back] = 0
  /\ count[0] <= Messages
  /\ pc[0] = "flying" => count[0] < Messages
  /\ pc[0] \in {"reply", "barrier"} => count[0] = Messages
  /\ lost[0] = 0 /\ seen[Back] = 0 /\ taken[Back] = <<>>

(* The stop message and the count are sent, and received, once.            *)
Stopped ==
  /\ stopping => pc[0] \in {"reply", "barrier"}
  /\ pc[1] \in {"answer", "barrier"} => stopping
  /\ pc[0] = "barrier" => pc[1] = "barrier" /\ reply = got
  /\ chan[0] = IF pc[0] = "reply" /\ ~stopping THEN <<"stop">> ELSE <<>>
  /\ chan[1] = IF pc[1] = "barrier" /\ pc[0] = "reply" THEN <<got>> ELSE <<>>

(* What rank 1 has counted, and when it has everything. *)
Drains ==
  /\ got + (IF pc[1] = "polling" THEN Len(poll[1].batch) ELSE 0) = Len(taken[Forth])
  /\ stopping /\ pc[1] = "polling" /\ poll[1].batch = <<>> => FoundNothing(1)
  /\ stopping /\ pc[1] \in {"ack", "drained"} /\ poll[1].batch = <<>> =>
       CaughtUp(Forth)
  /\ pc[1] \in {"answer", "barrier"} => CaughtUp(Forth)

StreamInv == Streamed /\ Stopped /\ Drains

(* A rank leaves a round-trip measurement after the last round. *)
Rounds(r) == IF pc[r] = "barrier" THEN count[r] = Iters ELSE count[r] < Iters

(* The messages a rank has of a poll it has not dealt with. *)
Holding(r) == Len(poll[r].batch)

(* Rank 0 has sent a message, and not counted the answer; rank 1 is to     *)
(* answer a message.                                                       *)
Unanswered == IF pc[0] \in {"await", "polling", "ack", "drained"} THEN 1 ELSE 0

Answering == IF pc[1] \in {"push", "flying"} THEN 1 ELSE 0

(* In a round trip each rank has sent and taken what it has counted, but   *)
(* for the message under way.                                              *)
Tripped ==
  /\ \A r \in Ranks :
       /\ pc[r] \in RingStages \cup {"barrier"}
       /\ Rounds(r)
       /\ chan[r] = <<>>
       /\ poll[r].pc \in {"idle", "lane"}
  /\ sent[Forth] = Messages + count[0] + Unanswered
  /\ seen[Back] = count[0] + Holding(0)
  /\ sent[Back] = count[1]
  /\ seen[Forth] = Messages + count[1] + Holding(1) + Answering

(* The last k elements of s are those after n. *)
EndsWith(s, k, n) == k <= Len(s) /\ \A i \in 1..k : s[Len(s) - k + i] = n + i

(* Each rank took every message of the other once, and in order.           *)
Fetched ==
  /\ lost[0] = 0
  /\ Len(taken[Back]) = seen[Back] /\ \A i \in 1..seen[Back] : taken[Back][i] = i
  /\ EndsWith(taken[Forth], seen[Forth] - Messages, Messages)

RttInv == Tripped /\ Fetched

(* A point-to-point stream has been received or is on its way, and its     *)
(* stop message is the last.                                               *)
P2pStreamInv ==
  /\ pc[0] \in {"post", "posted", "reply", "barrier"}
  /\ pc[1] \in {"receive", "answer", "barrier"}
  /\ count[0] <= Messages
  /\ pc[0] = "posted" => count[0] < Messages
  /\ pc[0] \in {"reply", "barrier"} => count[0] = Messages
  /\ IF pc[1] = "receive"
     THEN /\ pc[0] # "barrier"
          /\ Len(chan[0]) + got = count[0] + IF pc[0] \in {"posted", "reply"} THEN 1 ELSE 0
          /\ \A i \in 1..Len(chan[0]) :
               chan[0][i] = "stop" <=> pc[0] = "reply" /\ i = Len(chan[0])
          /\ pc[0] = "reply" => chan[0] # <<>>
     ELSE /\ pc[0] \in {"reply", "barrier"}
          /\ chan[0] = <<>> /\ got = Messages
  /\ chan[1] = IF pc[1] = "barrier" /\ pc[0] = "reply" THEN <<got>> ELSE <<>>
  /\ pc[0] = "barrier" => pc[1] = "barrier" /\ reply = got

(* The point-to-point messages of rank r that are on their way. *)
Queued(r) == Len(chan[r])

(* Rank 0 has posted a message, and not counted the answer; rank 1 is to   *)
(* answer a message, or has posted the answer.                             *)
Asked == IF pc[0] \in {"posted", "receive"} THEN 1 ELSE 0

Owed == IF pc[1] \in {"post", "posted"} THEN 1 ELSE 0

Repaid == IF pc[1] = "posted" THEN 1 ELSE 0

(* A point-to-point message is on its way from its post to its receipt.    *)
P2pRttInv ==
  /\ \A r \in Ranks : pc[r] \in {"post", "posted", "receive", "barrier"} /\ Rounds(r)
  /\ Queued(0) = count[0] + Asked - count[1] - Owed
  /\ Queued(1) = count[1] + Repaid - count[0]

CompareInv ==
  /\ CompareTypeOK
  /\ RingOK
  /\ measure \in {1, 3} => StreamInv
  /\ measure \in {2, 4} => RttInv
  /\ measure \in {5, 6} => P2pStreamInv
  /\ measure = 7 => P2pRttInv
  /\ measure = 8 => pc[0] \in {"dismiss", "world", "end"} /\ pc[1] \in {"world", "end"}

-----------------------------------------------------------------------------
(* The steps of the ring that the program takes *)

(* The pair, and its two lanes. *)
LEMMA PairIs ==
  /\ Ranks = {0, 1} /\ Lanes = {Forth, Back} /\ Forth # Back
  /\ Out(0) = Forth /\ Out(1) = Back /\ Other(0) = 1 /\ Other(1) = 0
  /\ Incoming(0) = {Back} /\ Incoming(1) = {Forth}
  /\ Faulty = {} /\ Messages \in Nat \ {0} /\ Iters \in Nat \ {0}
<1>1. /\ Ranks = {0, 1} /\ Lanes = {Forth, Back} /\ Forth # Back
      /\ Forth[2] = 1 /\ Back[2] = 0
  BY CompareAssumption DEF Forth, Back
<1>2. /\ Out(0) = Forth /\ Out(1) = Back /\ Other(0) = 1 /\ Other(1) = 0
  BY DEF Out, Other, Forth, Back
<1>3. Incoming(0) = {Back} /\ Incoming(1) = {Forth}
  BY <1>1 DEF Incoming
<1> QED
  BY <1>1, <1>2, <1>3, CompareAssumption

(* Each rank sends down a lane of its own. *)
LEMMA OutIs ==
  ASSUME NEW r \in Ranks
  PROVE  /\ Out(r) \in Lanes
         /\ \A q \in Ranks \ {r} : Out(q) \in Lanes /\ Out(q) # Out(r)
BY PairIs

(* The message that is acknowledged is of the batch. *)
LEMMA LastIs ==
  ASSUME NEW batch \in Seq(MessageRecords), batch # <<>>
  PROVE  Last(batch).sequence \in Nat
<1>1. Len(batch) \in 1..Len(batch)
  BY LenProperties, EmptySeq
<1>2. batch[Len(batch)] \in MessageRecords
  BY <1>1, ElementOfSeq
<1> QED
  BY <1>2 DEF Last, MessageRecords

(* Every step of the program is one of the ring, or leaves the ring alone, *)
(* or drops the batch that was dealt with, or makes a new ring.            *)
LEMMA RingSteps ==
  ASSUME CompareInv, [CompareNext]_compareVars
  PROVE  MeshNext \/ UNCHANGED meshVars \/ (\E r \in Ranks : AfterPoll(r)) \/ Barrier
<1>0. MeshInv /\ TypeOK /\ CompareTypeOK /\ \A r \in Ranks : Calls(r)
  BY DEF CompareInv, RingOK, MeshInv
<1>1. ASSUME NEW r \in Ranks
      PROVE  Out(r) \in Lanes /\ Out(Other(r)) \in Lanes /\ <<r, "main">> \in Threads
  BY PairIs, CompareAssumption
<1>2. ASSUME NEW r \in Ranks, Push(r) \/ Transfer(r)
      PROVE  MeshNext
  BY <1>1, <1>2 DEF Push, Transfer, MeshNext, Send
<1>3. ASSUME NEW r \in Ranks, StartPoll(r) \/ PollOn(r)
      PROVE  MeshNext
  BY <1>3 DEF StartPoll, PollOn, MeshNext, Poll
<1>4. ASSUME NEW r \in Ranks, Acknowledge(r)
      PROVE  MeshNext
  <2> DEFINE t == <<r, "main">>
             l == Out(Other(r))
             s == Last(poll[r].batch).sequence
  <2>1. CASE AckApply(t) \/ AckReturn(t)
    BY <1>1, <2>1 DEF MeshNext, Ack
  <2>2. CASE AckIssue(t, l, s)
    <3>1. poll[r].batch \in Seq(MessageRecords) /\ poll[r].batch # <<>>
      BY <1>0, <1>4 DEF Acknowledge, Calls, TypeOK, PollRecords
    <3>2. s \in Nat
      BY <3>1, LastIs
    <3> HIDE DEF s
    <3>3. l \in Lanes /\ seen[l] \in Nat /\ acked[l] \in Nat
      BY <1>0, <1>1 DEF TypeOK
    <3>4. s \in 1..seen[l]
      BY <2>2, <3>2, <3>3 DEF AckIssue
    <3> QED
      BY <1>1, <2>2, <3>3, <3>4 DEF MeshNext, Ack
  <2> QED
    BY <1>4, <2>1, <2>2 DEF Acknowledge
<1>5. ASSUME NEW r \in Ranks, P2pWork(r)
      PROVE  UNCHANGED meshVars
  BY <1>5 DEF P2pWork, Post, Posted, Receive
<1>6. CASE Streaming
  BY <1>6 DEF Streaming, SendStop, Answer, Reply
<1>7. CASE (\E r \in World : Dismiss(r)) \/ Dismissed \/ WorldBarrier
  BY <1>7 DEF Dismiss, Dismissed, WorldBarrier
<1>8. CASE (\E r \in Noisy : Background(r)) \/ Over \/ UNCHANGED compareVars
  BY <1>8 DEF Background, Over, compareVars
<1> QED
  BY <1>2, <1>3, <1>4, <1>5, <1>6, <1>7, <1>8 DEF CompareNext, RingWork, Ending

(* The program keeps the invariant of its ring, and the ring reports no    *)
(* error.                                                                  *)
LEMMA CompareKeepsMesh ==
  ASSUME CompareInv, [CompareNext]_compareVars
  PROVE  MeshInv' /\ RingAccounted' /\ errors' = {} /\ errors = {}
<1>0. MeshInv /\ RingAccounted /\ \A r \in Ranks : Calls(r)
  BY DEF CompareInv, RingOK
<1>1. ASSUME MeshNext
      PROVE  MeshInv' /\ RingAccounted'
  BY <1>0, <1>1, MeshStepInv, AccountedStep
<1>2. ASSUME UNCHANGED meshVars
      PROVE  MeshInv' /\ RingAccounted'
  <2>1. MeshInv'
    BY <1>0, <1>2, MeshStepInv
  <2>2. seen' = seen /\ lost' = lost /\ taken' = taken
    BY <1>2 DEF meshVars, recvVars
  <2>3. RingAccounted'
    BY <1>0, <2>2 DEF RingAccounted
  <2> QED
    BY <2>1, <2>3
<1>3. ASSUME NEW r \in Ranks, AfterPoll(r)
      PROVE  MeshInv' /\ RingAccounted'
  <2>1. /\ poll[r].pc = "idle"
        /\ poll' = [poll EXCEPT ![r].batch = <<>>]
        /\ UNCHANGED <<safe, sendVars, counter, seen, lost, taken, acked, ack, errors>>
    BY <1>0, <1>3 DEF AfterPoll, Calls
  <2> QED
    BY <1>0, <2>1, ClearKeepsMesh DEF RingAccounted
<1>4. ASSUME Barrier
      PROVE  MeshInv' /\ RingAccounted'
  <2>1. (\E mode \in BOOLEAN : Renew(mode)) \/ UNCHANGED meshVars
    BY <1>4 DEF Barrier
  <2> QED
    BY <1>2, <2>1, RenewInv
<1>5. MeshInv' /\ RingAccounted'
  BY <1>1, <1>2, <1>3, <1>4, RingSteps
<1>6. errors' = {} /\ errors = {}
  BY <1>0, <1>5, PairIs DEF MeshInv, Isolated
<1> QED
  BY <1>5, <1>6

-----------------------------------------------------------------------------
(* What each step of the pair does *)

(* Where the ranks are, one moving at most. *)
Moves(r, next) ==
  /\ pc' \in [Ranks -> Stages] /\ pc'[r] = next
  /\ \A q \in Ranks \ {r} : pc'[q] = pc[q]

(* Going somewhere is a move. *)
LEMMA ToMoves ==
  ASSUME CompareTypeOK, NEW r \in Ranks, NEW next \in Stages, To(r, next)
  PROVE  Moves(r, next)
BY DEF To, Moves, CompareTypeOK

(* And so is staying. *)
LEMMA StayMoves ==
  ASSUME CompareTypeOK, NEW r \in Ranks, pc' = pc
  PROVE  Moves(r, pc[r])
BY DEF Moves, CompareTypeOK

(* A call of the ring concerns its own rank: that of the other goes on as  *)
(* it did.                                                                 *)
LEMMA CallsFrame ==
  ASSUME NEW q \in Ranks, Calls(q), pc'[q] = pc[q], poll'[q] = poll[q],
         flying'[Out(q)] = flying[Out(q)]
  PROVE  Calls(q)'
BY DEF Calls, Out, Other

(* What a measurement keeps besides the stages. *)
Kept == UNCHANGED <<measure, got, stopping, reply, chan>>

(* What a send keeps. *)
Received == UNCHANGED <<safe, seen, lost, taken, poll>>

(* A push issues a Put, or finds the lane full; it does not fail.          *)
LEMMA PushIs ==
  ASSUME CompareInv, NEW r \in Ranks, Push(r), errors' = {}
  PROVE  /\ pc[r] = "push" /\ More(r)
         /\ Received /\ Kept /\ sent' = sent /\ count' = count
         /\ Moves(r, "flying") \/ Moves(r, "push")
         /\ \A q \in Ranks : Calls(q)'
<1>0. CompareTypeOK /\ TypeOK /\ Out(r) \in Lanes /\ \A q \in Ranks : Calls(q)
  BY PairIs DEF CompareInv, RingOK, MeshInv
<1>1. /\ pc[r] = "push" /\ More(r) /\ Received /\ Kept /\ sent' = sent /\ count' = count
      /\ \/ flying' = [flying EXCEPT ![Out(r)] = TRUE] /\ To(r, "flying")
         \/ flying' = flying /\ pc' = pc
  <2>1. ~SendDisbelieve(Out(r))
    BY DEF SendDisbelieve
  <2> QED
    BY <2>1 DEF Push, SendPut, SendFull, Received, Kept, recvVars
<1>2. CASE flying' = [flying EXCEPT ![Out(r)] = TRUE] /\ To(r, "flying")
  <2>1. Moves(r, "flying")
    BY <1>0, <1>2, ToMoves DEF Stages, RingStages
  <2>2. /\ flying'[Out(r)] = TRUE
        /\ \A q \in Ranks \ {r} : flying'[Out(q)] = flying[Out(q)]
    BY <1>0, <1>2, OutIs DEF TypeOK
  <2>3. Calls(r)'
    BY <1>0, <1>1, <2>1, <2>2 DEF Calls, Moves, Received, Out, Other
  <2>4. ASSUME NEW q \in Ranks \ {r} PROVE Calls(q)'
    BY <1>0, <1>1, <2>1, <2>2, CallsFrame DEF Moves, Received
  <2> QED
    BY <1>1, <2>1, <2>3, <2>4
<1>3. CASE flying' = flying /\ pc' = pc
  <2>1. Moves(r, "push")
    BY <1>0, <1>1, <1>3, StayMoves
  <2>2. \A q \in Ranks : Calls(q)'
    BY <1>0, <1>1, <1>3, CallsFrame DEF Received
  <2> QED
    BY <1>1, <2>1, <2>2
<1> QED
  BY <1>1, <1>2, <1>3

(* A send returns: rank 0 waits for the answer in a round trip, otherwise  *)
(* one more is done.                                                       *)
LEMMA TransferIs ==
  ASSUME CompareInv, NEW r \in Ranks, Transfer(r)
  PROVE  /\ pc[r] = "flying"
         /\ Received /\ Kept
         /\ sent' = [sent EXCEPT ![Out(r)] = @ + 1]
         /\ IF r = 0 /\ ~Measuring(RingStreams)
            THEN count' = count /\ Moves(r, "await")
            ELSE /\ count' = [count EXCEPT ![r] = @ + 1]
                 /\ Moves(r, IF Measuring(RingStreams) THEN "push"
                             ELSE IF count[r] + 1 < Iters THEN "await" ELSE "barrier")
         /\ \A q \in Ranks : Calls(q)'
<1>0. CompareTypeOK /\ TypeOK /\ Out(r) \in Lanes /\ \A q \in Ranks : Calls(q)
  BY PairIs DEF CompareInv, RingOK, MeshInv
<1>1. /\ pc[r] = "flying" /\ Received /\ Kept
      /\ sent' = [sent EXCEPT ![Out(r)] = @ + 1]
      /\ flying' = [flying EXCEPT ![Out(r)] = FALSE]
  BY DEF Transfer, SendReturn, Received, Kept, recvVars
<1>2. IF r = 0 /\ ~Measuring(RingStreams)
      THEN count' = count /\ Moves(r, "await")
      ELSE /\ count' = [count EXCEPT ![r] = @ + 1]
           /\ Moves(r, IF Measuring(RingStreams) THEN "push"
                       ELSE IF count[r] + 1 < Iters THEN "await" ELSE "barrier")
  <2>1. CASE r = 0 /\ ~Measuring(RingStreams)
    BY <1>0, <2>1, ToMoves DEF Transfer, Stages, RingStages
  <2>2. CASE ~(r = 0 /\ ~Measuring(RingStreams))
    <3> DEFINE next == IF Measuring(RingStreams) THEN "push"
                       ELSE IF count[r] + 1 < Iters THEN "await" ELSE "barrier"
    <3>1. count' = [count EXCEPT ![r] = @ + 1]
      BY <2>2 DEF Transfer
    <3>2. count'[r] = count[r] + 1
      BY <1>0, <3>1 DEF CompareTypeOK
    <3>3. To(r, next)
      BY <2>2, <3>2 DEF Transfer
    <3>4. next \in Stages
      BY DEF Stages, RingStages
    <3> HIDE DEF next
    <3>5. Moves(r, next)
      BY <1>0, <3>3, <3>4, ToMoves
    <3> QED
      BY <2>2, <3>1, <3>5 DEF next
  <2> QED
    BY <2>1, <2>2
<1>3. /\ flying'[Out(r)] = FALSE /\ pc'[r] \in {"push", "await", "barrier"}
      /\ \A q \in Ranks \ {r} : flying'[Out(q)] = flying[Out(q)] /\ pc'[q] = pc[q]
  <2>1. /\ flying'[Out(r)] = FALSE
        /\ \A q \in Ranks \ {r} : flying'[Out(q)] = flying[Out(q)]
    BY <1>0, <1>1, OutIs DEF TypeOK
  <2>2. \A next : Moves(r, next) => pc'[r] = next /\ \A q \in Ranks \ {r} : pc'[q] = pc[q]
    BY DEF Moves
  <2> QED
    BY <1>2, <2>1, <2>2
<1>4. Calls(r)'
  BY <1>0, <1>1, <1>3 DEF Calls, Received, Out, Other
<1>5. ASSUME NEW q \in Ranks \ {r} PROVE Calls(q)'
  BY <1>0, <1>1, <1>3, CallsFrame DEF Received
<1> QED
  BY <1>1, <1>2, <1>4, <1>5

(* An acknowledgement leads from the poll to what the loop does after it;  *)
(* it does not fail.                                                       *)
LEMMA AcknowledgeIs ==
  ASSUME CompareInv, NEW r \in Ranks, Acknowledge(r), errors' = errors
  PROVE  /\ pc[r] = "ack"
         /\ Received /\ Kept /\ sent' = sent /\ count' = count
         /\ Moves(r, "ack") \/ Moves(r, "drained")
         /\ \A q \in Ranks : Calls(q)'
<1>0. CompareTypeOK /\ \A q \in Ranks : Calls(q)
  BY DEF CompareInv, RingOK
<1>1. /\ pc[r] = "ack" /\ Received /\ Kept /\ sent' = sent /\ flying' = flying /\ count' = count
      /\ pc' = pc \/ To(r, "drained")
  BY DEF Acknowledge, AckIssue, AckApply, AckReturn, Received, Kept, recvVars, sendVars
<1>2. Moves(r, "ack") \/ Moves(r, "drained")
  BY <1>0, <1>1, ToMoves, StayMoves DEF Stages, RingStages
<1>3. Calls(r)'
  BY <1>0, <1>1, <1>2 DEF Calls, Moves, Received, Out, Other
<1>4. ASSUME NEW q \in Ranks \ {r} PROVE Calls(q)'
  BY <1>0, <1>1, <1>2, CallsFrame DEF Moves, Received
<1> QED
  BY <1>1, <1>2, <1>3, <1>4

(* What a poll keeps of the ring. *)
Sending == UNCHANGED <<safe, sent, flying>>

(* A poll starts with an empty batch at the lane into the rank. *)
LEMMA StartPollIs ==
  ASSUME CompareInv, NEW r \in Ranks, StartPoll(r)
  PROVE  /\ pc[r] = "await" /\ Moves(r, "polling")
         /\ Sending /\ Kept /\ count' = count
         /\ UNCHANGED <<seen, lost, taken>>
         /\ \A q \in Ranks \ {r} : poll'[q] = poll[q]
         /\ poll[r].batch = <<>> /\ poll'[r].batch = <<>>
         /\ poll'[r].pc = "lane" /\ poll'[r].at = 0 /\ poll'[r].todo = Incoming(r)
         /\ \A q \in Ranks : Calls(q)'
<1>0. CompareTypeOK /\ TypeOK /\ \A q \in Ranks : Calls(q)
  BY DEF CompareInv, RingOK, MeshInv
<1> DEFINE new == Visit(Incoming(r), <<>>)
<1>1. /\ pc[r] = "await" /\ To(r, "polling") /\ Sending /\ Kept /\ count' = count
      /\ UNCHANGED <<seen, lost, taken>>
      /\ poll' = [poll EXCEPT ![r] = new]
  BY DEF StartPoll, PollStart, Sending, Kept, sendVars
<1>2. new.pc = "lane" /\ new.at = 0 /\ new.todo = Incoming(r) /\ new.batch = <<>>
  BY DEF Visit, FreshPoll
<1> HIDE DEF new
<1>3. poll'[r] = new /\ \A q \in Ranks \ {r} : poll'[q] = poll[q]
  BY <1>0, <1>1 DEF TypeOK
<1>4. Moves(r, "polling")
  BY <1>0, <1>1, ToMoves DEF Stages, RingStages
<1>5. poll[r].batch = <<>>
  BY <1>0, <1>1 DEF Calls
<1>6. Calls(r)'
  BY <1>0, <1>1, <1>2, <1>3, <1>4 DEF Calls, Moves, Sending, Out, Other
<1>7. ASSUME NEW q \in Ranks \ {r} PROVE Calls(q)'
  BY <1>0, <1>1, <1>3, <1>4, CallsFrame DEF Moves, Sending
<1> QED
  BY <1>1, <1>2, <1>3, <1>4, <1>5, <1>6, <1>7

(* The lane into a rank of the pair is that of the other. *)
LEMMA LaneInto ==
  ASSUME CompareInv, NEW r \in Ranks, poll[r].pc # "idle"
  PROVE  Lane(r) = Out(Other(r)) /\ Out(Other(r)) \in Lanes
<1>1. MeshInv
  BY DEF CompareInv, RingOK
<1>2. Lane(r) \in Lanes /\ Lane(r)[2] = r
  BY <1>1, LaneOfPoll
<1>3. Lane(r) \in Incoming(r)
  BY <1>2 DEF Incoming
<1> QED
  BY <1>3, PairIs

(* What a poll on r does to what it reads: nothing, or it takes one        *)
(* message past the cursor.                                                *)
Takes(r, s) ==
  LET l == Out(Other(r))
  IN  /\ s \in Nat /\ seen[l] < s /\ s <= Issued(l)
      /\ seen' = [seen EXCEPT ![l] = s]
      /\ taken' = [taken EXCEPT ![l] = Append(@, s)]
      /\ Len(poll'[r].batch) = Len(poll[r].batch) + 1
      /\ poll'[r].batch # <<>>
      /\ safe => lost' = lost
      /\ \A q \in Ranks \ {r} : lost'[q] = lost[q]

TakesNothing(r) ==
  UNCHANGED <<seen, lost, taken>> /\ poll'[r].batch = poll[r].batch

(* What taking one message changes. *)
LEMMA TakesIs ==
  ASSUME TypeOK, NEW r \in Ranks, NEW s, Takes(r, s), NEW l \in Lanes, l = Out(Other(r))
  PROVE  /\ s \in Nat /\ seen[l] < s /\ s <= Issued(l)
         /\ seen'[l] = s /\ taken'[l] = Append(taken[l], s)
         /\ Len(taken'[l]) = Len(taken[l]) + 1
         /\ \A k \in Lanes \ {l} : seen'[k] = seen[k] /\ taken'[k] = taken[k]
         /\ Len(poll'[r].batch) = Len(poll[r].batch) + 1 /\ poll'[r].batch # <<>>
         /\ \A q \in Ranks \ {r} : lost'[q] = lost[q]
<1>1. /\ s \in Nat /\ seen[l] < s /\ s <= Issued(l)
      /\ seen' = [seen EXCEPT ![l] = s]
      /\ taken' = [taken EXCEPT ![l] = Append(@, s)]
      /\ Len(poll'[r].batch) = Len(poll[r].batch) + 1 /\ poll'[r].batch # <<>>
      /\ \A q \in Ranks \ {r} : lost'[q] = lost[q]
  BY DEF Takes
<1>2. /\ seen'[l] = s /\ taken'[l] = Append(taken[l], s) /\ taken[l] \in Seq(Nat)
      /\ \A k \in Lanes \ {l} : seen'[k] = seen[k] /\ taken'[k] = taken[k]
  BY <1>1 DEF TypeOK
<1>3. Len(taken'[l]) = Len(taken[l]) + 1
  BY <1>1, <1>2, AppendProperties
<1> QED
  BY <1>1, <1>2, <1>3

(* A step of a poll; the last one tells the program how many messages      *)
(* there were.                                                             *)
LEMMA PollOnIs ==
  ASSUME CompareInv, NEW r \in Ranks, PollOn(r), errors' = errors
  PROVE  /\ pc[r] = "polling" /\ poll[r].pc # "idle" /\ Poll(r)
         /\ Sending /\ count' = count
         /\ UNCHANGED <<measure, stopping, reply, chan>>
         /\ \A q \in Ranks \ {r} : poll'[q] = poll[q]
         /\ \/ TakesNothing(r) /\ (PollMiss(r) \/ PollRecover(r) \/ PollScan(r))
            \/ (\E s : Takes(r, s)) /\ (PollTake(r) \/ PollDeliver(r))
         /\ IF poll'[r].pc # "idle" THEN Moves(r, "polling") /\ got' = got
            ELSE /\ Moves(r, IF safe /\ poll'[r].batch # <<>> THEN "ack" ELSE "drained")
                 /\ got' = IF Measuring(RingStreams) THEN got + Len(poll'[r].batch) ELSE got
         /\ \A q \in Ranks : Calls(q)'
<1>0. CompareTypeOK /\ MeshInv /\ TypeOK /\ \A q \in Ranks : Calls(q)
  BY DEF CompareInv, RingOK, MeshInv
<1> PICK batch : batch = poll'[r].batch
  OBVIOUS
<1>1. /\ pc[r] = "polling" /\ Poll(r)
      /\ UNCHANGED <<measure, stopping, reply, chan>> /\ count' = count
      /\ IF poll'[r].pc # "idle" THEN pc' = pc /\ got' = got
         ELSE /\ To(r, IF safe /\ batch # <<>> THEN "ack" ELSE "drained")
              /\ got' = IF Measuring(RingStreams) THEN got + Len(batch) ELSE got
  BY DEF PollOn
<1>2. poll[r].pc # "idle"
  BY <1>0, <1>1 DEF Calls
<1>3. /\ \A q \in Ranks \ {r} : poll'[q] = poll[q]
      /\ safe' = safe /\ UNCHANGED sendVars
      /\ \/ /\ UNCHANGED <<seen, lost, taken>> /\ poll'[r].batch = poll[r].batch
            /\ PollMiss(r) \/ PollRecover(r) \/ PollScan(r)
         \/ /\ PollTake(r) \/ PollDeliver(r)
            /\ poll'[r].batch = Append(poll[r].batch, Message(Lane(r), Taking(r)))
            /\ safe => UNCHANGED lost
  BY <1>0, <1>1, <1>2, PairIs, PollDoes
<1>4. Sending
  BY <1>3 DEF Sending, sendVars
<1>5. \/ TakesNothing(r) /\ (PollMiss(r) \/ PollRecover(r) \/ PollScan(r))
      \/ (\E s : Takes(r, s)) /\ (PollTake(r) \/ PollDeliver(r))
  <2>1. CASE PollTake(r) \/ PollDeliver(r)
    <3> DEFINE l == Out(Other(r))
    <3>1. l = Lane(r) /\ l \in Lanes
      BY <1>2, LaneInto
    <3>2. /\ Take(l, Taking(r)) /\ Taking(r) \in Nat
          /\ seen[l] < Taking(r) /\ Taking(r) <= Issued(l)
      BY <1>0, <2>1, <3>1, TakesPastCursor
    <3>3. poll[r].batch \in Seq(MessageRecords)
      BY <1>0 DEF TypeOK, PollRecords
    <3>4. PICK m \in MessageRecords : m = Message(Lane(r), Taking(r))
      BY <3>1, <3>2 DEF MessageRecords, Message
    <3>5. \/ poll'[r].batch = Append(poll[r].batch, m) /\ (safe => lost' = lost)
          \/ UNCHANGED <<seen, lost, taken>>
      BY <1>3, <3>4
    <3>6. ~UNCHANGED <<seen, lost, taken>>
      <4>1. seen'[l] = Taking(r) /\ seen[l] \in Nat
        BY <1>0, <3>1, <3>2 DEF Take, TypeOK
      <4> QED
        BY <3>2, <4>1
    <3>7. /\ Len(poll'[r].batch) = Len(poll[r].batch) + 1
          /\ poll'[r].batch # <<>>
          /\ safe => lost' = lost
      BY <3>3, <3>5, <3>6, AppendProperties
    <3>8. \A q \in Ranks \ {r} : lost'[q] = lost[q]
      BY <1>0, <2>1 DEF PollTake, PollDeliver, TypeOK
    <3>9. Takes(r, Taking(r))
      BY <3>2, <3>7, <3>8 DEF Takes, Take
    <3> QED
      BY <2>1, <3>9
  <2>2. CASE ~(PollTake(r) \/ PollDeliver(r))
    BY <1>3, <2>2 DEF TakesNothing
  <2> QED
    BY <2>1, <2>2
<1>6. IF poll'[r].pc # "idle" THEN Moves(r, "polling")
      ELSE Moves(r, IF safe /\ batch # <<>> THEN "ack" ELSE "drained")
  <2>1. CASE poll'[r].pc # "idle"
    BY <1>0, <1>1, <2>1, StayMoves
  <2>2. CASE poll'[r].pc = "idle"
    BY <1>0, <1>1, <2>2, ToMoves DEF Stages, RingStages
  <2> QED
    BY <2>1, <2>2
<1>7. \A q \in Ranks \ {r} : pc'[q] = pc[q]
  BY <1>6 DEF Moves
<1>8. Calls(r)'
  <2>1. IF poll'[r].pc # "idle" THEN pc'[r] = "polling"
        ELSE pc'[r] = IF safe /\ batch # <<>> THEN "ack" ELSE "drained"
    BY <1>6 DEF Moves
  <2> QED
    BY <1>0, <1>1, <1>4, <2>1 DEF Calls, Sending, Out, Other
<1>9. ASSUME NEW q \in Ranks \ {r} PROVE Calls(q)'
  BY <1>0, <1>3, <1>4, <1>7, CallsFrame DEF Sending
<1> QED
  BY <1>1, <1>2, <1>3, <1>4, <1>5, <1>6, <1>8, <1>9

(* The batch is dropped, and the loop goes on. *)
LEMMA AfterPollIs ==
  ASSUME CompareInv, NEW r \in Ranks, AfterPoll(r)
  PROVE  /\ pc[r] = "drained" /\ (StreamGoesOn \/ RttGoesOn(r))
         /\ Sending /\ UNCHANGED <<seen, lost, taken>>
         /\ UNCHANGED <<measure, got, reply>>
         /\ \A q \in Ranks \ {r} : poll'[q] = poll[q]
         /\ poll'[r].batch = <<>> /\ poll'[r].pc = poll[r].pc /\ poll[r].pc = "idle"
<1>0. CompareTypeOK /\ MeshInv /\ TypeOK /\ \A q \in Ranks : Calls(q)
  BY DEF CompareInv, RingOK, MeshInv
<1> DEFINE new == [poll[r] EXCEPT !.batch = <<>>]
<1>1. /\ pc[r] = "drained" /\ (StreamGoesOn \/ RttGoesOn(r))
      /\ Sending /\ UNCHANGED <<seen, lost, taken>>
      /\ UNCHANGED <<measure, got, reply>>
      /\ poll' = [poll EXCEPT ![r] = new]
  BY <1>0 DEF AfterPoll, Sending, sendVars, TypeOK
<1>2. new.batch = <<>> /\ new.pc = poll[r].pc
  BY <1>0 DEF TypeOK, PollRecords
<1> HIDE DEF new
<1>3. poll'[r] = new /\ \A q \in Ranks \ {r} : poll'[q] = poll[q]
  BY <1>0, <1>1 DEF TypeOK
<1>4. poll[r].pc = "idle"
  BY <1>0, <1>1 DEF Calls
<1> QED
  BY <1>1, <1>2, <1>3, <1>4

-----------------------------------------------------------------------------
(* The same for the point-to-point steps *)

(* The measurements by their numbers. *)
LEMMA MeasuringIs ==
  ASSUME measure \in 1..8
  PROVE  /\ Measuring(RingStreams) <=> measure \in {1, 3}
         /\ Measuring(RingRtts) <=> measure \in {2, 4}
         /\ Measuring(P2pStreams) <=> measure \in {5, 6}
         /\ Measuring(P2pRtts) <=> measure = 7
         /\ Measuring(RingStreams \cup P2pStreams) <=> measure \in {1, 3, 5, 6}
         /\ Measuring({"raw_stream"}) <=> measure = 3
         /\ OnRing <=> measure \in {1, 2, 3, 4}
<1>1. /\ DOMAIN Measures = 1..7
      /\ Measures[1] = "safe_stream" /\ Measures[2] = "safe_rtt"
      /\ Measures[3] = "raw_stream" /\ Measures[4] = "raw_rtt"
      /\ Measures[5] = "send_stream" /\ Measures[6] = "bsend_stream"
      /\ Measures[7] = "send_rtt"
  BY DEF Measures
<1> HIDE DEF Measures
<1>2. measure \in {1, 2, 3, 4, 5, 6, 7} \/ measure = 8
  OBVIOUS
<1>3. measure \in DOMAIN Measures <=> measure \in {1, 2, 3, 4, 5, 6, 7}
  BY <1>1
<1>4. /\ Measuring(RingStreams) <=> measure \in {1, 3}
      /\ Measuring(RingRtts) <=> measure \in {2, 4}
      /\ Measuring(P2pStreams) <=> measure \in {5, 6}
  BY <1>1, <1>2, <1>3 DEF Measuring, RingStreams, RingRtts, P2pStreams
<1>5. /\ Measuring(P2pRtts) <=> measure = 7
      /\ Measuring({"raw_stream"}) <=> measure = 3
  BY <1>1, <1>2, <1>3 DEF Measuring, P2pRtts
<1>6. Measuring(RingStreams \cup P2pStreams) <=> measure \in {1, 3, 5, 6}
  BY <1>2, <1>4 DEF Measuring
<1>7. OnRing <=> measure \in {1, 2, 3, 4}
  BY <1>2, <1>4 DEF Measuring, OnRing
<1> QED
  BY <1>4, <1>5, <1>6, <1>7

Sent == {"data", "stop"} \cup Nat

(* A queue that a message is appended to, or taken from. *)
LEMMA QueueIs ==
  ASSUME NEW queue \in Seq(Sent)
  PROVE  /\ Len(queue) \in Nat /\ (queue = <<>> <=> Len(queue) = 0)
         /\ \A m \in Sent :
              /\ Append(queue, m) \in Seq(Sent)
              /\ Len(Append(queue, m)) = Len(queue) + 1
              /\ \A i \in 1..Len(queue) : Append(queue, m)[i] = queue[i]
              /\ Append(queue, m)[Len(queue) + 1] = m
         /\ queue # <<>> =>
              /\ Head(queue) = queue[1] /\ queue[1] \in Sent
              /\ Tail(queue) \in Seq(Sent) /\ Len(Tail(queue)) = Len(queue) - 1
              /\ \A i \in 1..Len(queue) - 1 : Tail(queue)[i] = queue[i + 1]
<1>1. Len(queue) \in Nat /\ (queue = <<>> <=> Len(queue) = 0)
  BY LenProperties, EmptySeq
<1>2. ASSUME NEW m \in Sent
      PROVE  /\ Append(queue, m) \in Seq(Sent)
             /\ Len(Append(queue, m)) = Len(queue) + 1
             /\ \A i \in 1..Len(queue) : Append(queue, m)[i] = queue[i]
             /\ Append(queue, m)[Len(queue) + 1] = m
  BY AppendProperties
<1>3. ASSUME queue # <<>>
      PROVE  /\ Head(queue) = queue[1] /\ queue[1] \in Sent
             /\ Tail(queue) \in Seq(Sent) /\ Len(Tail(queue)) = Len(queue) - 1
             /\ \A i \in 1..Len(queue) - 1 : Tail(queue)[i] = queue[i + 1]
  <2>1. 1 \in 1..Len(queue)
    BY <1>1, <1>3
  <2>2. queue[1] \in Sent
    BY <2>1, ElementOfSeq
  <2> QED
    BY <1>1, <1>3, <2>2, HeadTailProperties
<1> QED
  BY <1>1, <1>2, <1>3

Calling == {"flying", "polling", "ack", "drained"}

(* A rank that does not call the ring, before and after, disturbs no call. *)
LEMMA NoCall ==
  ASSUME \A q \in Ranks : Calls(q), UNCHANGED <<flying, poll>>,
         NEW r \in Ranks, NEW next, Moves(r, next),
         pc[r] \notin Calling, next \notin Calling
  PROVE  \A q \in Ranks : Calls(q)'
<1>1. Calls(r)'
  BY DEF Calls, Moves, Calling, Out, Other
<1>2. ASSUME NEW q \in Ranks \ {r} PROVE Calls(q)'
  BY <1>2, CallsFrame DEF Moves
<1> QED
  BY <1>1, <1>2

(* The channel of rank r, and of no other, becomes queue. *)
Queues(r, queue) ==
  /\ chan' \in [Ranks -> Seq(Sent)] /\ chan'[r] = queue
  /\ \A q \in Ranks \ {r} : chan'[q] = chan[q]

(* A message is posted. *)
LEMMA PostIs ==
  ASSUME CompareInv, NEW r \in Ranks, Post(r)
  PROVE  /\ pc[r] = "post" /\ More(r) /\ Moves(r, "posted")
         /\ Queues(r, Append(chan[r], "data"))
         /\ UNCHANGED meshVars /\ UNCHANGED <<measure, count, got, stopping, reply>>
         /\ \A q \in Ranks : Calls(q)'
<1>0. CompareTypeOK /\ \A q \in Ranks : Calls(q)
  BY DEF CompareInv, RingOK
<1>1. /\ pc[r] = "post" /\ More(r) /\ To(r, "posted")
      /\ chan' = [chan EXCEPT ![r] = Append(@, "data")]
      /\ UNCHANGED meshVars /\ UNCHANGED <<measure, count, got, stopping, reply>>
  BY DEF Post
<1>2. Moves(r, "posted")
  BY <1>0, <1>1, ToMoves DEF Stages
<1>3. Append(chan[r], "data") \in Seq(Sent) /\ chan \in [Ranks -> Seq(Sent)]
  BY <1>0, QueueIs DEF CompareTypeOK, Sent
<1>4. Queues(r, Append(chan[r], "data"))
  BY <1>1, <1>3 DEF Queues
<1>5. UNCHANGED <<flying, poll>>
  BY <1>1 DEF meshVars, sendVars, recvVars
<1>6. \A q \in Ranks : Calls(q)'
  BY <1>0, <1>1, <1>2, <1>5, NoCall DEF Calling
<1> QED
  BY <1>1, <1>2, <1>4, <1>6

(* A post returns. *)
LEMMA PostedIs ==
  ASSUME CompareInv, NEW r \in Ranks, Posted(r)
  PROVE  /\ pc[r] = "posted"
         /\ UNCHANGED meshVars /\ UNCHANGED <<measure, chan, got, stopping, reply>>
         /\ IF r = 0 /\ Measuring(P2pRtts)
            THEN count' = count /\ Moves(r, "receive")
            ELSE /\ count' = [count EXCEPT ![r] = @ + 1]
                 /\ Moves(r, IF Measuring(P2pStreams) THEN "post"
                             ELSE IF count[r] + 1 < Iters THEN "receive" ELSE "barrier")
         /\ \A q \in Ranks : Calls(q)'
<1>0. CompareTypeOK /\ \A q \in Ranks : Calls(q)
  BY DEF CompareInv, RingOK
<1>1. /\ pc[r] = "posted"
      /\ UNCHANGED meshVars /\ UNCHANGED <<measure, chan, got, stopping, reply>>
      /\ IF r = 0 /\ Measuring(P2pRtts)
         THEN To(r, "receive") /\ UNCHANGED count
         ELSE /\ count' = [count EXCEPT ![r] = @ + 1]
              /\ To(r, IF Measuring(P2pStreams) THEN "post"
                       ELSE IF count'[r] < Iters THEN "receive" ELSE "barrier")
  BY DEF Posted
<1> PICK next : next = IF r = 0 /\ Measuring(P2pRtts) THEN "receive"
                       ELSE IF Measuring(P2pStreams) THEN "post"
                       ELSE IF count[r] + 1 < Iters THEN "receive" ELSE "barrier"
  OBVIOUS
<1>2. ~(r = 0 /\ Measuring(P2pRtts)) => count'[r] = count[r] + 1
  BY <1>0, <1>1 DEF CompareTypeOK
<1>3. To(r, next) /\ next \in Stages \ Calling
  BY <1>1, <1>2 DEF Stages, Calling
<1>4. Moves(r, next)
  BY <1>0, <1>3, ToMoves
<1>5. UNCHANGED <<flying, poll>>
  BY <1>1 DEF meshVars, sendVars, recvVars
<1>6. \A q \in Ranks : Calls(q)'
  BY <1>0, <1>1, <1>3, <1>4, <1>5, NoCall DEF Calling
<1> QED
  BY <1>1, <1>4, <1>6

(* A message is received: in a stream it is counted, unless it is the      *)
(* stop message; in a round trip it is answered, or completes the trip.    *)
LEMMA ReceiveIs ==
  ASSUME CompareInv, NEW r \in Ranks, Receive(r)
  PROVE  LET m == Head(chan[Other(r)])
         IN  /\ pc[r] = "receive" /\ chan[Other(r)] # <<>>
             /\ Queues(Other(r), Tail(chan[Other(r)]))
             /\ UNCHANGED meshVars /\ UNCHANGED <<measure, stopping, reply>>
             /\ IF Measuring(P2pStreams)
                THEN /\ Moves(r, IF m = "stop" THEN "answer" ELSE "receive")
                     /\ got' = IF m = "stop" THEN got ELSE got + 1
                     /\ count' = count
                ELSE /\ got' = got
                     /\ IF r = 1 THEN Moves(r, "post") /\ count' = count
                        ELSE /\ count' = [count EXCEPT ![r] = @ + 1]
                             /\ Moves(r, IF count[r] + 1 < Iters THEN "post" ELSE "barrier")
             /\ \A q \in Ranks : Calls(q)'
<1>0. CompareTypeOK /\ \A q \in Ranks : Calls(q)
  BY DEF CompareInv, RingOK
<1> PICK m : m = Head(chan[Other(r)])
  OBVIOUS
<1>1. /\ pc[r] = "receive" /\ chan[Other(r)] # <<>>
      /\ chan' = [chan EXCEPT ![Other(r)] = Tail(@)]
      /\ UNCHANGED meshVars /\ UNCHANGED <<measure, stopping, reply>>
      /\ IF Measuring(P2pStreams)
         THEN /\ To(r, IF m = "stop" THEN "answer" ELSE "receive")
              /\ got' = IF m = "stop" THEN got ELSE got + 1
              /\ count' = count
         ELSE /\ got' = got
              /\ IF r = 1 THEN To(r, "post") /\ count' = count
                 ELSE /\ count' = [count EXCEPT ![r] = @ + 1]
                      /\ To(r, IF count'[r] < Iters THEN "post" ELSE "barrier")
  BY DEF Receive
<1> PICK next : next = IF Measuring(P2pStreams)
                       THEN IF m = "stop" THEN "answer" ELSE "receive"
                       ELSE IF r = 1 THEN "post"
                       ELSE IF count[r] + 1 < Iters THEN "post" ELSE "barrier"
  OBVIOUS
<1>2. ~Measuring(P2pStreams) /\ r # 1 => count'[r] = count[r] + 1
  BY <1>0, <1>1 DEF CompareTypeOK
<1>3. To(r, next) /\ next \in Stages \ Calling
  BY <1>1, <1>2 DEF Stages, Calling
<1>4. Moves(r, next)
  BY <1>0, <1>3, ToMoves
<1>5. UNCHANGED <<flying, poll>>
  BY <1>1 DEF meshVars, sendVars, recvVars
<1>6. \A q \in Ranks : Calls(q)'
  BY <1>0, <1>1, <1>3, <1>4, <1>5, NoCall DEF Calling
<1>7. Queues(Other(r), Tail(chan[Other(r)]))
  <2>1. chan \in [Ranks -> Seq(Sent)] /\ Other(r) \in Ranks
    BY <1>0, PairIs DEF CompareTypeOK, Sent
  <2>2. Tail(chan[Other(r)]) \in Seq(Sent)
    BY <1>1, <2>1, QueueIs
  <2> QED
    BY <1>1, <2>1, <2>2 DEF Queues
<1> QED
  BY <1>1, <1>4, <1>6, <1>7

(* Rank 0 says that a stream is over. *)
LEMMA SendStopIs ==
  ASSUME CompareInv, SendStop
  PROVE  /\ pc[0] \in {"push", "post"} /\ ~More(0) /\ Moves(0, "reply")
         /\ Queues(0, Append(chan[0], "stop"))
         /\ UNCHANGED meshVars /\ UNCHANGED <<measure, count, got, stopping, reply>>
         /\ \A q \in Ranks : Calls(q)'
<1>0. CompareTypeOK /\ (\A q \in Ranks : Calls(q)) /\ 0 \in Ranks
  BY PairIs DEF CompareInv, RingOK
<1>1. /\ pc[0] \in {"push", "post"} /\ ~More(0) /\ To(0, "reply")
      /\ chan' = [chan EXCEPT ![0] = Append(@, "stop")]
      /\ UNCHANGED meshVars /\ UNCHANGED <<measure, count, got, stopping, reply>>
  BY DEF SendStop
<1>2. Moves(0, "reply")
  BY <1>0, <1>1, ToMoves DEF Stages
<1>3. Append(chan[0], "stop") \in Seq(Sent) /\ chan \in [Ranks -> Seq(Sent)]
  BY <1>0, QueueIs DEF CompareTypeOK, Sent
<1>4. Queues(0, Append(chan[0], "stop"))
  BY <1>0, <1>1, <1>3 DEF Queues
<1>5. UNCHANGED <<flying, poll>>
  BY <1>1 DEF meshVars, sendVars, recvVars
<1>6. \A q \in Ranks : Calls(q)'
  BY <1>0, <1>1, <1>2, <1>5, NoCall DEF Calling
<1> QED
  BY <1>1, <1>2, <1>4, <1>6

(* Rank 1 answers with its count. *)
LEMMA AnswerIs ==
  ASSUME CompareInv, Answer
  PROVE  /\ pc[1] = "answer" /\ Moves(1, "barrier")
         /\ Queues(1, Append(chan[1], got))
         /\ UNCHANGED meshVars /\ UNCHANGED <<measure, count, got, stopping, reply>>
         /\ \A q \in Ranks : Calls(q)'
<1>0. CompareTypeOK /\ (\A q \in Ranks : Calls(q)) /\ 1 \in Ranks
  BY PairIs DEF CompareInv, RingOK
<1>1. /\ pc[1] = "answer" /\ To(1, "barrier")
      /\ chan' = [chan EXCEPT ![1] = Append(@, got)]
      /\ UNCHANGED meshVars /\ UNCHANGED <<measure, count, got, stopping, reply>>
  BY DEF Answer
<1>2. Moves(1, "barrier")
  BY <1>0, <1>1, ToMoves DEF Stages
<1>3. Append(chan[1], got) \in Seq(Sent) /\ chan \in [Ranks -> Seq(Sent)]
  BY <1>0, QueueIs DEF CompareTypeOK, Sent
<1>4. Queues(1, Append(chan[1], got))
  BY <1>0, <1>1, <1>3 DEF Queues
<1>5. UNCHANGED <<flying, poll>>
  BY <1>1 DEF meshVars, sendVars, recvVars
<1>6. \A q \in Ranks : Calls(q)'
  BY <1>0, <1>1, <1>2, <1>5, NoCall DEF Calling
<1> QED
  BY <1>1, <1>2, <1>4, <1>6

(* And rank 0 receives the count. *)
LEMMA ReplyIs ==
  ASSUME CompareInv, Reply
  PROVE  /\ pc[0] = "reply" /\ chan[1] # <<>> /\ Moves(0, "barrier")
         /\ reply' = Head(chan[1]) /\ Queues(1, Tail(chan[1]))
         /\ UNCHANGED meshVars /\ UNCHANGED <<measure, count, got, stopping>>
         /\ \A q \in Ranks : Calls(q)'
<1>0. CompareTypeOK /\ (\A q \in Ranks : Calls(q)) /\ 0 \in Ranks /\ 1 \in Ranks
  BY PairIs DEF CompareInv, RingOK
<1>1. /\ pc[0] = "reply" /\ chan[1] # <<>> /\ To(0, "barrier")
      /\ reply' = Head(chan[1])
      /\ chan' = [chan EXCEPT ![1] = Tail(@)]
      /\ UNCHANGED meshVars /\ UNCHANGED <<measure, count, got, stopping>>
  BY DEF Reply
<1>2. Moves(0, "barrier")
  BY <1>0, <1>1, ToMoves DEF Stages
<1>3. Tail(chan[1]) \in Seq(Sent) /\ chan \in [Ranks -> Seq(Sent)]
  BY <1>0, <1>1, QueueIs DEF CompareTypeOK, Sent
<1>4. Queues(1, Tail(chan[1]))
  BY <1>0, <1>1, <1>3 DEF Queues
<1>5. UNCHANGED <<flying, poll>>
  BY <1>1 DEF meshVars, sendVars, recvVars
<1>6. \A q \in Ranks : Calls(q)'
  BY <1>0, <1>1, <1>2, <1>5, NoCall DEF Calling
<1> QED
  BY <1>1, <1>2, <1>4, <1>6

(* The steps by which rank 0 ends the program. *)
Finishing == (\E r \in World : Dismiss(r)) \/ Dismissed \/ WorldBarrier

(* They leave everything but the stages of the two ranks alone.            *)
LEMMA FinishingIs ==
  ASSUME CompareInv, Finishing
  PROVE  /\ UNCHANGED meshVars /\ UNCHANGED <<measure, count, got, stopping, reply, chan>>
         /\ \/ Moves(0, pc[0])
            \/ pc[0] = "dismiss" /\ Moves(0, "world")
            \/ /\ pc[0] = "world" /\ pc[1] = "world"
               /\ pc' \in [Ranks -> Stages] /\ pc'[0] = "end" /\ pc'[1] = "end"
         /\ \A q \in Ranks : Calls(q)'
<1>0. /\ CompareTypeOK /\ (\A q \in Ranks : Calls(q)) /\ Ranks = {0, 1}
      /\ UNCHANGED meshVars /\ UNCHANGED <<measure, count, got, stopping, reply, chan>>
      /\ UNCHANGED <<flying, poll>>
  BY PairIs DEF CompareInv, RingOK, Finishing, Dismiss, Dismissed, WorldBarrier, meshVars,
                sendVars, recvVars
<1>1. CASE \E r \in World : Dismiss(r)
  <2>1. pc' = pc
    BY <1>1 DEF Dismiss
  <2> QED
    BY <1>0, <2>1, StayMoves, CallsFrame
<1>2. CASE Dismissed
  <2>1. pc[0] = "dismiss" /\ Moves(0, "world")
    BY <1>0, <1>2, ToMoves DEF Dismissed, Stages
  <2>2. \A q \in Ranks : Calls(q)'
    BY <1>0, <2>1, NoCall DEF Calling
  <2> QED
    BY <1>0, <2>1, <2>2
<1>3. CASE WorldBarrier
  <2>1. /\ pc[0] = "world" /\ pc[1] = "world"
        /\ pc' \in [Ranks -> Stages] /\ pc'[0] = "end" /\ pc'[1] = "end"
    BY <1>0, <1>3 DEF WorldBarrier, Stages
  <2>2. Calls(0)' /\ Calls(1)'
    BY <1>0, <2>1 DEF Calls, Out, Other
  <2> QED
    BY <1>0, <2>1, <2>2
<1> QED
  BY <1>1, <1>2, <1>3 DEF Finishing

(* After a poll, a stream goes on until an empty poll follows the stop     *)
(* message, and a round trip until there is a message.                     *)
LEMMA AfterPollMoves ==
  ASSUME CompareInv, NEW r \in Ranks, AfterPoll(r)
  PROVE  /\ \/ /\ measure \in {1, 3} /\ r = 1 /\ count' = count
               /\ IF stopping /\ poll[1].batch = <<>>
                  THEN Moves(1, "answer") /\ stopping' = stopping /\ chan' = chan
                  ELSE /\ Moves(1, "await")
                       /\ IF ~stopping /\ StopArrived
                          THEN stopping' = TRUE /\ Queues(0, Tail(chan[0]))
                          ELSE stopping' = stopping /\ chan' = chan
            \/ /\ measure \in {2, 4} /\ stopping' = stopping /\ chan' = chan
               /\ IF poll[r].batch = <<>> THEN Moves(r, "await") /\ count' = count
                  ELSE IF r = 1 THEN Moves(r, "push") /\ count' = count
                  ELSE /\ count' = [count EXCEPT ![r] = @ + 1]
                       /\ Moves(r, IF count[r] + 1 < Iters THEN "push" ELSE "barrier")
         /\ \A q \in Ranks : Calls(q)'
<1>0. /\ CompareTypeOK /\ (\A q \in Ranks : Calls(q)) /\ Ranks = {0, 1}
      /\ measure \in {1, 3} => StreamInv
  BY PairIs DEF CompareInv, RingOK
<1>1. /\ Measuring(RingStreams) <=> measure \in {1, 3}
      /\ Measuring(RingRtts) <=> measure \in {2, 4}
  BY <1>0, MeasuringIs DEF CompareTypeOK
<1>2. /\ pc[r] = "drained" /\ flying' = flying
      /\ \A q \in Ranks \ {r} : poll'[q] = poll[q]
      /\ poll'[r].batch = <<>> /\ poll'[r].pc = "idle"
  BY AfterPollIs DEF Sending
<1>3. ASSUME NEW next, Moves(r, next), next \in Stages \ Calling
      PROVE  \A q \in Ranks : Calls(q)'
  <2>1. Calls(r)'
    BY <1>0, <1>2, <1>3 DEF Calls, Moves, Calling, Out, Other
  <2>2. ASSUME NEW q \in Ranks \ {r} PROVE Calls(q)'
    BY <1>0, <1>2, <1>3, CallsFrame DEF Moves
  <2> QED
    BY <2>1, <2>2
<1>4. ASSUME StreamGoesOn
      PROVE  /\ measure \in {1, 3} /\ r = 1 /\ count' = count
             /\ IF stopping /\ poll[1].batch = <<>>
                THEN Moves(1, "answer") /\ stopping' = stopping /\ chan' = chan
                ELSE /\ Moves(1, "await")
                     /\ IF ~stopping /\ StopArrived
                        THEN stopping' = TRUE /\ Queues(0, Tail(chan[0]))
                        ELSE stopping' = stopping /\ chan' = chan
             /\ \A q \in Ranks : Calls(q)'
  <2>1. measure \in {1, 3} /\ count' = count
    BY <1>1, <1>4 DEF StreamGoesOn
  <2>2. r = 1
    BY <1>0, <1>2, <2>1 DEF StreamInv, Streamed
  <2>3. CASE stopping /\ poll[1].batch = <<>>
    <3>1. To(1, "answer") /\ stopping' = stopping /\ chan' = chan
      BY <1>4, <2>3 DEF StreamGoesOn, Drained
    <3>2. Moves(1, "answer")
      BY <1>0, <3>1, ToMoves DEF Stages
    <3> QED
      BY <1>3, <2>1, <2>2, <2>3, <3>1, <3>2 DEF Stages, Calling
  <2>4. CASE ~(stopping /\ poll[1].batch = <<>>)
    <3>1. /\ To(1, "await")
          /\ IF ~stopping /\ StopArrived
             THEN stopping' = TRUE /\ chan' = [chan EXCEPT ![0] = Tail(@)]
             ELSE stopping' = stopping /\ chan' = chan
      BY <1>4, <2>4 DEF StreamGoesOn, Drained
    <3>2. Moves(1, "await")
      BY <1>0, <3>1, ToMoves DEF Stages, RingStages
    <3>3. StopArrived => Tail(chan[0]) \in Seq(Sent)
      BY <1>0, QueueIs DEF CompareTypeOK, Sent, StopArrived
    <3>4. ~stopping /\ StopArrived => Queues(0, Tail(chan[0]))
      BY <1>0, <3>1, <3>3 DEF Queues, CompareTypeOK, Sent
    <3> QED
      BY <1>3, <2>1, <2>2, <2>4, <3>1, <3>2, <3>4 DEF Stages, RingStages, Calling
  <2> QED
    BY <2>3, <2>4
<1>5. ASSUME RttGoesOn(r)
      PROVE  /\ measure \in {2, 4} /\ stopping' = stopping /\ chan' = chan
             /\ IF poll[r].batch = <<>> THEN Moves(r, "await") /\ count' = count
                ELSE IF r = 1 THEN Moves(r, "push") /\ count' = count
                ELSE /\ count' = [count EXCEPT ![r] = @ + 1]
                     /\ Moves(r, IF count[r] + 1 < Iters THEN "push" ELSE "barrier")
             /\ \A q \in Ranks : Calls(q)'
  <2> PICK next : next = IF poll[r].batch = <<>> THEN "await"
                         ELSE IF r = 1 THEN "push"
                         ELSE IF count[r] + 1 < Iters THEN "push" ELSE "barrier"
    OBVIOUS
  <2>1. /\ measure \in {2, 4} /\ stopping' = stopping /\ chan' = chan
        /\ IF poll[r].batch = <<>> \/ r = 1 THEN count' = count
           ELSE count' = [count EXCEPT ![r] = @ + 1]
    BY <1>1, <1>5 DEF RttGoesOn
  <2>2. poll[r].batch # <<>> /\ r # 1 => count'[r] = count[r] + 1
    BY <1>0, <2>1 DEF CompareTypeOK
  <2>3. To(r, next) /\ next \in Stages \ Calling
    BY <1>5, <2>2 DEF RttGoesOn, Stages, RingStages, Calling
  <2>4. Moves(r, next)
    BY <1>0, <2>3, ToMoves
  <2>5. \A q \in Ranks : Calls(q)'
    BY <1>3, <2>3, <2>4
  <2> QED
    BY <2>1, <2>4, <2>5
<1> QED
  BY <1>4, <1>5, AfterPollIs

-----------------------------------------------------------------------------
(* What holds of every measurement alike *)

(* The steps within a measurement. *)
Within ==
  \/ \E r \in Ranks : RingWork(r) \/ P2pWork(r) \/ Transfer(r)
  \/ Streaming
  \/ Finishing
  \/ UNCHANGED <<meshVars, pairVars>>

(* Every step is one of these, or the barrier of the pair. *)
LEMMA StepsAre ==
  ASSUME [CompareNext]_compareVars
  PROVE  Within \/ Barrier
<1>1. CASE Ending
  BY <1>1 DEF Ending, Within, Finishing
<1>2. CASE (\E r \in Noisy : Background(r)) \/ Over \/ UNCHANGED compareVars
  BY <1>2 DEF Background, Over, compareVars, Within
<1> QED
  BY <1>1, <1>2 DEF CompareNext, Within

(* One more at a rank's count is a count. *)
LEMMA CountsUp ==
  ASSUME CompareTypeOK, NEW r \in Ranks, count' = [count EXCEPT ![r] = @ + 1]
  PROVE  count' \in [Ranks -> Nat] /\ count'[r] = count[r] + 1
BY DEF CompareTypeOK

(* The types of the pair, and its calls of the ring. *)
LEMMA WithinTypes ==
  ASSUME CompareInv, Within, MeshInv', errors' = {}, errors = {}
  PROVE  measure' = measure /\ CompareTypeOK' /\ \A q \in Ranks : Calls(q)'
<1>0. /\ CompareTypeOK /\ (\A q \in Ranks : Calls(q)) /\ Ranks = {0, 1}
      /\ chan \in [Ranks -> Seq(Sent)] /\ TypeOK'
  BY PairIs DEF CompareInv, RingOK, CompareTypeOK, Sent, MeshInv
<1> SUFFICES /\ measure' = measure /\ pc' \in [Ranks -> Stages]
             /\ count' \in [Ranks -> Nat] /\ got' \in Nat /\ stopping' \in BOOLEAN
             /\ chan' \in [Ranks -> Seq(Sent)]
             /\ \A q \in Ranks : Calls(q)'
  BY <1>0 DEF CompareTypeOK, Sent
<1>1. ASSUME NEW r \in Ranks, Push(r)
      PROVE  /\ measure' = measure /\ pc' \in [Ranks -> Stages]
             /\ count' = count /\ got' = got /\ stopping' = stopping /\ chan' = chan
             /\ \A q \in Ranks : Calls(q)'
  BY <1>0, <1>1, PushIs DEF Moves, Kept
<1>2. ASSUME NEW r \in Ranks, Transfer(r)
      PROVE  /\ measure' = measure /\ pc' \in [Ranks -> Stages]
             /\ count' \in [Ranks -> Nat] /\ got' = got /\ stopping' = stopping
             /\ chan' = chan
             /\ \A q \in Ranks : Calls(q)'
  BY <1>0, <1>2, TransferIs, CountsUp DEF Moves, Kept, CompareTypeOK
<1>3. ASSUME NEW r \in Ranks, StartPoll(r)
      PROVE  /\ measure' = measure /\ pc' \in [Ranks -> Stages]
             /\ count' = count /\ got' = got /\ stopping' = stopping /\ chan' = chan
             /\ \A q \in Ranks : Calls(q)'
  BY <1>0, <1>3, StartPollIs DEF Moves, Kept
<1>4. ASSUME NEW r \in Ranks, PollOn(r)
      PROVE  /\ measure' = measure /\ pc' \in [Ranks -> Stages]
             /\ count' = count /\ got' \in Nat /\ stopping' = stopping /\ chan' = chan
             /\ \A q \in Ranks : Calls(q)'
  <2>1. Len(poll'[r].batch) \in Nat
    BY <1>0 DEF TypeOK, PollRecords
  <2>2. got' \in Nat /\ pc' \in [Ranks -> Stages]
    BY <1>0, <1>4, <2>1, PollOnIs DEF Moves, CompareTypeOK
  <2> QED
    BY <1>4, <2>2, PollOnIs
<1>5. ASSUME NEW r \in Ranks, Acknowledge(r)
      PROVE  /\ measure' = measure /\ pc' \in [Ranks -> Stages]
             /\ count' = count /\ got' = got /\ stopping' = stopping /\ chan' = chan
             /\ \A q \in Ranks : Calls(q)'
  BY <1>0, <1>5, AcknowledgeIs DEF Moves, Kept
<1>6. ASSUME NEW r \in Ranks, AfterPoll(r)
      PROVE  /\ measure' = measure /\ pc' \in [Ranks -> Stages]
             /\ count' \in [Ranks -> Nat] /\ got' = got /\ stopping' \in BOOLEAN
             /\ chan' \in [Ranks -> Seq(Sent)]
             /\ \A q \in Ranks : Calls(q)'
  <2>1. measure' = measure /\ got' = got
    BY <1>6, AfterPollIs
  <2>2. /\ pc' \in [Ranks -> Stages] /\ stopping' \in BOOLEAN
        /\ chan' \in [Ranks -> Seq(Sent)]
    BY <1>0, <1>6, AfterPollMoves DEF Moves, Queues, CompareTypeOK
  <2>3. count' \in [Ranks -> Nat]
    BY <1>0, <1>6, AfterPollMoves, CountsUp DEF CompareTypeOK
  <2> QED
    BY <1>6, <2>1, <2>2, <2>3, AfterPollMoves
<1>7. ASSUME NEW r \in Ranks, Post(r)
      PROVE  /\ measure' = measure /\ pc' \in [Ranks -> Stages]
             /\ count' = count /\ got' = got /\ stopping' = stopping
             /\ chan' \in [Ranks -> Seq(Sent)]
             /\ \A q \in Ranks : Calls(q)'
  BY <1>7, PostIs DEF Moves, Queues
<1>8. ASSUME NEW r \in Ranks, Posted(r)
      PROVE  /\ measure' = measure /\ pc' \in [Ranks -> Stages]
             /\ count' \in [Ranks -> Nat] /\ got' = got /\ stopping' = stopping
             /\ chan' = chan
             /\ \A q \in Ranks : Calls(q)'
  BY <1>0, <1>8, PostedIs, CountsUp DEF Moves, CompareTypeOK
<1>9. ASSUME NEW r \in Ranks, Receive(r)
      PROVE  /\ measure' = measure /\ pc' \in [Ranks -> Stages]
             /\ count' \in [Ranks -> Nat] /\ got' \in Nat /\ stopping' = stopping
             /\ chan' \in [Ranks -> Seq(Sent)]
             /\ \A q \in Ranks : Calls(q)'
  <2>1. measure' = measure /\ stopping' = stopping /\ chan' \in [Ranks -> Seq(Sent)]
    BY <1>9, ReceiveIs DEF Queues
  <2>2. count' \in [Ranks -> Nat] /\ got' \in Nat
    BY <1>0, <1>9, ReceiveIs, CountsUp DEF CompareTypeOK
  <2>3. pc' \in [Ranks -> Stages]
    BY <1>9, ReceiveIs DEF Moves
  <2> QED
    BY <1>9, <2>1, <2>2, <2>3, ReceiveIs
<1>10. ASSUME SendStop \/ Answer \/ Reply
       PROVE  /\ measure' = measure /\ pc' \in [Ranks -> Stages]
              /\ count' = count /\ got' = got /\ stopping' = stopping
              /\ chan' \in [Ranks -> Seq(Sent)]
              /\ \A q \in Ranks : Calls(q)'
  BY <1>10, SendStopIs, AnswerIs, ReplyIs DEF Moves, Queues
<1>11. ASSUME Finishing
       PROVE  /\ measure' = measure /\ pc' \in [Ranks -> Stages]
              /\ count' = count /\ got' = got /\ stopping' = stopping /\ chan' = chan
              /\ \A q \in Ranks : Calls(q)'
  BY <1>11, FinishingIs DEF Moves
<1>12. ASSUME UNCHANGED <<meshVars, pairVars>>
       PROVE  /\ measure' = measure /\ pc' = pc
              /\ count' = count /\ got' = got /\ stopping' = stopping /\ chan' = chan
              /\ \A q \in Ranks : Calls(q)'
  BY <1>0, <1>12, CallsFrame DEF meshVars, sendVars, recvVars, pairVars
<1>13. /\ measure' = measure /\ pc' \in [Ranks -> Stages] /\ got' \in Nat
       /\ count' \in [Ranks -> Nat] /\ stopping' \in BOOLEAN
  BY <1>0, <1>1, <1>2, <1>3, <1>4, <1>5, <1>6, <1>7, <1>8, <1>9, <1>10, <1>11, <1>12
  DEF Within, RingWork, P2pWork, Streaming, CompareTypeOK
<1>14. chan' \in [Ranks -> Seq(Sent)] /\ \A q \in Ranks : Calls(q)'
  BY <1>0, <1>1, <1>2, <1>3, <1>4, <1>5, <1>6, <1>7, <1>8, <1>9, <1>10, <1>11, <1>12
  DEF Within, RingWork, P2pWork, Streaming
<1> QED
  BY <1>13, <1>14

(* A ring keeps its kind, and a safe one loses nothing. *)
LEMMA WithinRing ==
  ASSUME CompareInv, Within, MeshInv', errors' = {}, errors = {}
  PROVE  safe' = safe /\ (safe => lost' = lost)
<1>1. ASSUME NEW r \in Ranks, RingWork(r) \/ Transfer(r)
      PROVE  safe' = safe /\ (safe => lost' = lost)
  <2>1. CASE Push(r) \/ Transfer(r) \/ Acknowledge(r)
    BY <2>1, PushIs, TransferIs, AcknowledgeIs DEF Received
  <2>2. CASE StartPoll(r) \/ AfterPoll(r)
    BY <2>2, StartPollIs, AfterPollIs DEF Sending
  <2>3. CASE PollOn(r)
    BY <2>3, PollOnIs DEF Sending, TakesNothing, Takes
  <2> QED
    BY <1>1, <2>1, <2>2, <2>3 DEF RingWork
<1>2. ASSUME NEW r \in Ranks, P2pWork(r)
      PROVE  UNCHANGED meshVars
  BY <1>2 DEF P2pWork, Post, Posted, Receive
<1>3. Streaming => UNCHANGED meshVars
  BY DEF Streaming, SendStop, Answer, Reply
<1>4. Finishing => UNCHANGED meshVars
  BY FinishingIs
<1>5. UNCHANGED meshVars => safe' = safe /\ lost' = lost
  BY DEF meshVars, recvVars
<1> QED
  BY <1>1, <1>2, <1>3, <1>4, <1>5 DEF Within

(* So what is known of the ring holds throughout a measurement. *)
LEMMA WithinRingOK ==
  ASSUME CompareInv, Within, MeshInv', RingAccounted', errors' = {}, errors = {}
  PROVE  RingOK' /\ CompareTypeOK' /\ measure' = measure
<1>1. measure' = measure /\ CompareTypeOK' /\ \A q \in Ranks : Calls(q)'
  BY WithinTypes
<1>2. safe' = safe /\ (safe => lost' = lost)
  BY WithinRing
<1>3. /\ safe => \A r \in Ranks : lost[r] = 0
      /\ measure \in {1, 2} => safe
      /\ measure \in {3, 4} => ~safe
  BY DEF CompareInv, RingOK
<1> QED
  BY <1>1, <1>2, <1>3 DEF RingOK

(* Where the pair is after a move of one. *)
LEMMA MovesIs ==
  ASSUME NEW next
  PROVE  /\ Moves(0, next) => pc'[0] = next /\ pc'[1] = pc[1]
         /\ Moves(1, next) => pc'[1] = next /\ pc'[0] = pc[0]
BY PairIs DEF Moves

(* What is known of the variables of the pair. *)
LEMMA PairTypes ==
  ASSUME CompareInv
  PROVE  /\ CompareTypeOK /\ MeshInv /\ TypeOK /\ Calls(0) /\ Calls(1)
         /\ 0 \in Ranks /\ 1 \in Ranks /\ Forth \in Lanes /\ Back \in Lanes /\ Forth # Back
         /\ count[0] \in Nat /\ count[1] \in Nat /\ got \in Nat /\ stopping \in BOOLEAN
         /\ chan[0] \in Seq(Sent) /\ chan[1] \in Seq(Sent)
         /\ sent[Forth] \in Nat /\ sent[Back] \in Nat
         /\ seen[Forth] \in Nat /\ seen[Back] \in Nat
         /\ taken[Forth] \in Seq(Nat) /\ taken[Back] \in Seq(Nat)
         /\ poll[0].batch \in Seq(MessageRecords) /\ poll[1].batch \in Seq(MessageRecords)
         /\ Messages \in Nat \ {0} /\ Iters \in Nat \ {0}
<1>1. /\ CompareTypeOK /\ MeshInv /\ TypeOK /\ Calls(0) /\ Calls(1)
      /\ 0 \in Ranks /\ 1 \in Ranks /\ Forth \in Lanes /\ Back \in Lanes /\ Forth # Back
      /\ Messages \in Nat \ {0} /\ Iters \in Nat \ {0}
  BY PairIs DEF CompareInv, RingOK, MeshInv
<1>2. /\ count[0] \in Nat /\ count[1] \in Nat /\ got \in Nat /\ stopping \in BOOLEAN
      /\ chan[0] \in Seq(Sent) /\ chan[1] \in Seq(Sent)
  BY <1>1 DEF CompareTypeOK, Sent
<1>3. /\ sent[Forth] \in Nat /\ sent[Back] \in Nat
      /\ seen[Forth] \in Nat /\ seen[Back] \in Nat
      /\ taken[Forth] \in Seq(Nat) /\ taken[Back] \in Seq(Nat)
  BY <1>1 DEF TypeOK
<1>4. poll[0] \in PollRecords /\ poll[1] \in PollRecords
  BY <1>1 DEF TypeOK
<1> QED
  BY <1>1, <1>2, <1>3, <1>4 DEF PollRecords

-----------------------------------------------------------------------------
(* Streams over a ring *)

(* Until rank 0 has sent the stop message, rank 1 has not received it. *)
LEMMA NotStopping ==
  ASSUME StreamInv, pc[0] \in {"push", "flying"}
  PROVE  /\ ~stopping /\ pc[1] \notin {"answer", "barrier"}
         /\ chan[0] = <<>> /\ chan[1] = <<>>
BY DEF StreamInv, Stopped

(* Rank 0 puts a message. *)
LEMMA StreamPush ==
  ASSUME CompareInv, StreamInv, measure \in {1, 3}, errors' = {}, Push(0)
  PROVE  StreamInv'
<1>0. /\ StreamInv /\ Measuring(RingStreams) /\ Ranks = {0, 1} /\ 0 \in Ranks
      /\ count[0] \in Nat /\ Messages \in Nat
  BY PairTypes, PairIs, MeasuringIs DEF CompareTypeOK
<1>1. /\ pc[0] = "push" /\ More(0) /\ Received /\ Kept /\ sent' = sent /\ count' = count
      /\ pc'[0] \in {"flying", "push"} /\ pc'[1] = pc[1]
  BY <1>0, PushIs, MovesIs
<1>2. count[0] < Messages
  BY <1>0, <1>1 DEF More, Measuring
<1>3. ~stopping /\ pc[1] \notin {"answer", "barrier"} /\ chan[0] = <<>> /\ chan[1] = <<>>
  BY <1>0, <1>1, NotStopping
<1>4. Streamed'
  BY <1>0, <1>1, <1>2 DEF StreamInv, Streamed, Received
<1>5. Stopped'
  BY <1>1, <1>3 DEF Stopped, Kept
<1>6. Drains'
  BY <1>0, <1>1, <1>3 DEF StreamInv, Drains, Kept, Received
<1> QED
  BY <1>4, <1>5, <1>6 DEF StreamInv

(* The message has arrived. *)
LEMMA StreamTransfer ==
  ASSUME CompareInv, StreamInv, measure \in {1, 3}, Transfer(0)
  PROVE  StreamInv'
<1>0. /\ StreamInv /\ Measuring(RingStreams) /\ 0 \in Ranks
      /\ count[0] \in Nat /\ Messages \in Nat
      /\ Out(0) = Forth /\ Forth # Back /\ Forth \in Lanes /\ Back \in Lanes
      /\ CompareTypeOK /\ TypeOK
  BY PairTypes, PairIs, MeasuringIs DEF CompareTypeOK
<1>1. /\ pc[0] = "flying" /\ Received /\ Kept
      /\ sent' = [sent EXCEPT ![Forth] = @ + 1]
      /\ count' = [count EXCEPT ![0] = @ + 1]
      /\ pc'[0] = "push" /\ pc'[1] = pc[1]
  BY <1>0, TransferIs, MovesIs
<1>2. /\ sent'[Forth] = sent[Forth] + 1 /\ sent'[Back] = sent[Back]
      /\ count'[0] = count[0] + 1
  BY <1>0, <1>1 DEF TypeOK, CompareTypeOK
<1>3. ~stopping /\ pc[1] \notin {"answer", "barrier"} /\ chan[0] = <<>> /\ chan[1] = <<>>
  BY <1>0, <1>1, NotStopping
<1>4. Streamed'
  BY <1>0, <1>1, <1>2 DEF StreamInv, Streamed, Received
<1>5. Stopped'
  BY <1>1, <1>3 DEF Stopped, Kept
<1>6. Drains'
  BY <1>0, <1>1, <1>3 DEF StreamInv, Drains, Kept, Received
<1> QED
  BY <1>4, <1>5, <1>6 DEF StreamInv

(* Rank 1 starts a poll, at the lane into it. *)
LEMMA StreamStartPoll ==
  ASSUME CompareInv, StreamInv, measure \in {1, 3}, StartPoll(1)
  PROVE  StreamInv'
<1>0. StreamInv /\ 1 \in Ranks
  BY PairIs
<1>1. /\ pc[1] = "await" /\ pc'[1] = "polling" /\ pc'[0] = pc[0]
      /\ sent' = sent /\ Kept /\ count' = count /\ UNCHANGED <<seen, lost, taken>>
      /\ poll'[1].batch = <<>>
      /\ poll'[1].pc = "lane" /\ poll'[1].at = 0 /\ poll'[1].todo = Incoming(1)
  BY <1>0, StartPollIs, MovesIs DEF Sending
<1>2. Streamed'
  BY <1>0, <1>1 DEF StreamInv, Streamed
<1>3. Stopped'
  BY <1>0, <1>1 DEF StreamInv, Stopped, Kept
<1>4. FoundNothing(1)'
  BY <1>1 DEF FoundNothing, Incoming
<1>5. Drains'
  <2>1. got' = Len(taken'[Forth]) /\ got \in Nat
    BY <1>0, <1>1, PairTypes DEF StreamInv, Drains, Kept
  <2>2. Len(poll'[1].batch) = 0
    BY <1>1
  <2>3. got' + (IF pc'[1] = "polling" THEN Len(poll'[1].batch) ELSE 0) = Len(taken'[Forth])
    BY <1>1, <2>1, <2>2 DEF Kept
  <2> QED
    BY <1>1, <1>4, <2>3 DEF Drains
<1> QED
  BY <1>2, <1>3, <1>5 DEF StreamInv

(* Its poll goes on: what it takes is counted when the poll is over, and   *)
(* one that started after the stop message and finds nothing has drained   *)
(* the lane.                                                               *)
LEMMA StreamPollOn ==
  ASSUME CompareInv, StreamInv, measure \in {1, 3}, errors' = errors, PollOn(1)
  PROVE  StreamInv'
<1>0. /\ StreamInv /\ Measuring(RingStreams) /\ 1 \in Ranks /\ 0 \in Ranks
      /\ MeshInv /\ TypeOK /\ Calls(0)
      /\ Forth # Back /\ Forth \in Lanes /\ Back \in Lanes
      /\ Out(0) = Forth /\ Other(1) = 0 /\ Incoming(1) = {Forth} /\ Ranks = {0, 1}
      /\ got \in Nat /\ Len(poll[1].batch) \in Nat /\ taken[Forth] \in Seq(Nat)
      /\ Faulty = {}
  BY PairTypes, PairIs, MeasuringIs DEF CompareTypeOK
<1>1. /\ pc[1] = "polling" /\ poll[1].pc # "idle" /\ Poll(1)
      /\ sent' = sent /\ count' = count
      /\ UNCHANGED <<measure, stopping, reply, chan>>
      /\ TakesNothing(1) \/ \E s : Takes(1, s)
      /\ IF poll'[1].pc # "idle" THEN Moves(1, "polling") /\ got' = got
         ELSE /\ Moves(1, IF safe /\ poll'[1].batch # <<>> THEN "ack" ELSE "drained")
              /\ got' = got + Len(poll'[1].batch)
  BY <1>0, PollOnIs DEF Sending
<1>2. /\ pc'[0] = pc[0]
      /\ IF poll'[1].pc # "idle" THEN pc'[1] = "polling" /\ got' = got
         ELSE pc'[1] \in {"ack", "drained"} /\ got' = got + Len(poll'[1].batch)
  BY <1>1, MovesIs
<1>3. PICK n, m, b, c : /\ n = Len(taken[Forth]) /\ m = Len(taken'[Forth])
                        /\ b = Len(poll[1].batch) /\ c = Len(poll'[1].batch)
  OBVIOUS
<1>4. /\ lost'[0] = lost[0] /\ seen'[Back] = seen[Back] /\ taken'[Back] = taken[Back]
      /\ (m = n /\ c = b) \/ (m = n + 1 /\ c = b + 1)
      /\ poll'[1].batch = <<>> => poll[1].batch = <<>>
  <2>1. CASE TakesNothing(1)
    BY <1>0, <1>3, <2>1 DEF TakesNothing
  <2>2. CASE \E s : Takes(1, s)
    <3>1. PICK s : Takes(1, s)
      BY <2>2
    <3>2. /\ m = n + 1 /\ c = b + 1 /\ poll'[1].batch # <<>>
          /\ seen'[Back] = seen[Back] /\ taken'[Back] = taken[Back]
          /\ lost'[0] = lost[0]
      BY <1>0, <1>3, <3>1, TakesIs
    <3> QED
      BY <3>2
  <2> QED
    BY <1>1, <2>1, <2>2
<1>5. Streamed'
  BY <1>0, <1>1, <1>2, <1>4 DEF StreamInv, Streamed
<1>6. Stopped'
  BY <1>0, <1>1, <1>2 DEF StreamInv, Stopped, Streamed
<1>7. ASSUME stopping, poll'[1].batch = <<>>
      PROVE  FoundNothing(1)' /\ (poll'[1].pc = "idle" => CaughtUp(Forth)')
  <2>1. FoundNothing(1)
    BY <1>0, <1>1, <1>4, <1>7 DEF StreamInv, Drains
  <2>2. ~flying[Forth]
    BY <1>0, <1>7 DEF StreamInv, Stopped, Calls
  <2> QED
    BY <1>0, <1>1, <1>7, <2>1, <2>2, NothingToFind
<1>8. got + b = n /\ n \in Nat /\ b \in Nat
  BY <1>0, <1>1, <1>3 DEF StreamInv, Drains
<1>9. got' + (IF pc'[1] = "polling" THEN c ELSE 0) = m
  <2>1. got + c = m /\ m \in Nat /\ c \in Nat
    <3>1. got \in Nat /\ ((m = n /\ c = b) \/ (m = n + 1 /\ c = b + 1))
      BY <1>0, <1>4
    <3>2. CASE m = n /\ c = b
      BY <1>8, <3>2
    <3>3. CASE m = n + 1 /\ c = b + 1
      BY <1>8, <3>1, <3>3
    <3> QED
      BY <3>1, <3>2, <3>3
  <2>2. CASE poll'[1].pc # "idle"
    BY <1>2, <2>1, <2>2
  <2>3. CASE poll'[1].pc = "idle"
    <3>1. got' = got + c /\ pc'[1] # "polling"
      BY <1>2, <1>3, <2>3
    <3> QED
      BY <2>1, <3>1
  <2> QED
    BY <2>2, <2>3
<1>10. Drains'
  BY <1>1, <1>2, <1>3, <1>7, <1>9 DEF Drains
<1> QED
  BY <1>5, <1>6, <1>10 DEF StreamInv

(* It acknowledges what it has taken. *)
LEMMA StreamAcknowledge ==
  ASSUME CompareInv, StreamInv, measure \in {1, 3}, errors' = errors, Acknowledge(1)
  PROVE  StreamInv'
<1>0. StreamInv /\ 1 \in Ranks /\ Calls(1)
  BY PairTypes
<1>1. /\ pc[1] = "ack" /\ Received /\ Kept /\ sent' = sent /\ count' = count
      /\ pc'[1] \in {"ack", "drained"} /\ pc'[0] = pc[0]
  BY <1>0, AcknowledgeIs, MovesIs
<1>2. poll'[1].batch # <<>>
  BY <1>0, <1>1 DEF Calls, Received
<1>3. Streamed'
  BY <1>0, <1>1 DEF StreamInv, Streamed, Received
<1>4. Stopped'
  BY <1>0, <1>1 DEF StreamInv, Stopped, Kept
<1>5. Drains'
  BY <1>0, <1>1, <1>2 DEF StreamInv, Drains, Kept, Received
<1> QED
  BY <1>3, <1>4, <1>5 DEF StreamInv

(* It goes on polling, having looked for the stop message, or answers when *)
(* an empty poll followed that.                                            *)
LEMMA StreamAfterPoll ==
  ASSUME CompareInv, StreamInv, measure \in {1, 3}, AfterPoll(1)
  PROVE  StreamInv'
<1>0. StreamInv /\ 1 \in Ranks /\ 0 \in Ranks /\ Ranks = {0, 1}
  BY PairIs
<1>1. /\ pc[1] = "drained" /\ sent' = sent /\ UNCHANGED <<seen, lost, taken>>
      /\ UNCHANGED <<got, reply>> /\ count' = count
      /\ IF stopping /\ poll[1].batch = <<>>
         THEN Moves(1, "answer") /\ stopping' = stopping /\ chan' = chan
         ELSE /\ Moves(1, "await")
              /\ IF ~stopping /\ StopArrived
                 THEN stopping' = TRUE /\ Queues(0, Tail(chan[0]))
                 ELSE stopping' = stopping /\ chan' = chan
  <2>1. measure \notin {2, 4}
    OBVIOUS
  <2>2. /\ pc[1] = "drained" /\ sent' = sent /\ UNCHANGED <<seen, lost, taken>>
        /\ UNCHANGED <<got, reply>>
    BY <1>0, AfterPollIs DEF Sending
  <2> QED
    BY <1>0, <2>1, <2>2, AfterPollMoves
<1>2. pc'[0] = pc[0] /\ pc'[1] \in {"answer", "await"}
  BY <1>1, MovesIs
<1>3. Streamed'
  BY <1>0, <1>1, <1>2 DEF StreamInv, Streamed
<1>4. pc'[1] = "answer" => stopping /\ poll[1].batch = <<>> /\ CaughtUp(Forth)
  BY <1>0, <1>1, MovesIs DEF StreamInv, Drains
<1>5. Drains'
  BY <1>0, <1>1, <1>2, <1>4 DEF StreamInv, Drains, CaughtUp
<1>6. Stopped'
  <2>1. CASE ~stopping /\ StopArrived
    <3>1. pc[0] = "reply" /\ chan[0] = <<"stop">> /\ chan[1] = <<>>
      BY <1>0, <1>1, <2>1 DEF StreamInv, Stopped, StopArrived
    <3>2. stopping' = TRUE /\ chan'[0] = Tail(chan[0]) /\ chan'[1] = chan[1]
      BY <1>0, <1>1, <2>1 DEF Queues
    <3>3. chan'[0] = <<>>
      BY <3>1, <3>2
    <3> QED
      BY <1>1, <1>2, <3>1, <3>2, <3>3 DEF Stopped
  <2>2. CASE ~(~stopping /\ StopArrived)
    BY <1>0, <1>1, <1>2, <1>4, <2>2 DEF StreamInv, Stopped
  <2> QED
    BY <2>1, <2>2
<1> QED
  BY <1>3, <1>5, <1>6 DEF StreamInv

(* Rank 0 has sent everything, and says so. *)
LEMMA StreamStops ==
  ASSUME CompareInv, StreamInv, measure \in {1, 3}, SendStop
  PROVE  StreamInv'
<1>0. /\ StreamInv /\ Measuring(RingStreams) /\ 1 \in Ranks /\ 0 \in Ranks
      /\ count[0] \in Nat /\ Messages \in Nat /\ Ranks = {0, 1}
  BY PairTypes, PairIs, MeasuringIs DEF CompareTypeOK
<1>1. /\ pc[0] \in {"push", "post"} /\ ~More(0)
      /\ pc'[0] = "reply" /\ pc'[1] = pc[1]
      /\ Queues(0, Append(chan[0], "stop"))
      /\ UNCHANGED meshVars /\ UNCHANGED <<count, got, stopping, reply>>
  BY SendStopIs, MovesIs
<1>2. pc[0] = "push" /\ count[0] = Messages
  BY <1>0, <1>1 DEF StreamInv, Streamed, More, Measuring
<1>3. ~stopping /\ pc[1] \notin {"answer", "barrier"} /\ chan[0] = <<>> /\ chan[1] = <<>>
  BY <1>0, <1>2, NotStopping
<1>4. chan'[0] = <<"stop">> /\ chan'[1] = <<>>
  BY <1>0, <1>1, <1>3 DEF Queues
<1>5. sent' = sent /\ seen' = seen /\ lost' = lost /\ taken' = taken /\ poll' = poll
  BY <1>1 DEF meshVars, sendVars, recvVars
<1>6. Streamed'
  BY <1>0, <1>1, <1>2, <1>5 DEF StreamInv, Streamed
<1>7. Stopped'
  BY <1>1, <1>3, <1>4 DEF Stopped
<1>8. Drains'
  BY <1>0, <1>1, <1>3, <1>5 DEF StreamInv, Drains
<1> QED
  BY <1>6, <1>7, <1>8 DEF StreamInv

(* Rank 1 answers, *)
LEMMA StreamAnswers ==
  ASSUME CompareInv, StreamInv, measure \in {1, 3}, Answer
  PROVE  StreamInv'
<1>0. StreamInv /\ 1 \in Ranks /\ 0 \in Ranks /\ Ranks = {0, 1}
  BY PairIs
<1>1. /\ pc[1] = "answer" /\ pc'[1] = "barrier" /\ pc'[0] = pc[0]
      /\ Queues(1, Append(chan[1], got))
      /\ UNCHANGED meshVars /\ UNCHANGED <<count, got, stopping, reply>>
  BY AnswerIs, MovesIs
<1>2. stopping /\ pc[0] = "reply" /\ chan[0] = <<>> /\ chan[1] = <<>> /\ CaughtUp(Forth)
  BY <1>0, <1>1 DEF StreamInv, Stopped, Drains
<1>3. chan'[1] = <<got>> /\ chan'[0] = <<>>
  BY <1>0, <1>1, <1>2 DEF Queues
<1>4. sent' = sent /\ seen' = seen /\ lost' = lost /\ taken' = taken /\ poll' = poll
  BY <1>1 DEF meshVars, sendVars, recvVars
<1>5. Streamed'
  BY <1>0, <1>1, <1>4 DEF StreamInv, Streamed
<1>6. Stopped'
  BY <1>1, <1>2, <1>3 DEF Stopped
<1>7. Drains'
  BY <1>0, <1>1, <1>2, <1>4 DEF StreamInv, Drains, CaughtUp
<1> QED
  BY <1>5, <1>6, <1>7 DEF StreamInv

(* and rank 0 has the answer. *)
LEMMA StreamReplied ==
  ASSUME CompareInv, StreamInv, measure \in {1, 3}, Reply
  PROVE  StreamInv'
<1>0. StreamInv /\ 1 \in Ranks /\ 0 \in Ranks /\ Ranks = {0, 1}
  BY PairIs
<1>1. /\ pc[0] = "reply" /\ chan[1] # <<>> /\ pc'[0] = "barrier" /\ pc'[1] = pc[1]
      /\ reply' = Head(chan[1]) /\ Queues(1, Tail(chan[1]))
      /\ UNCHANGED meshVars /\ UNCHANGED <<count, got, stopping>>
  BY ReplyIs, MovesIs
<1>2. pc[1] = "barrier" /\ chan[1] = <<got>> /\ stopping /\ chan[0] = <<>>
  BY <1>0, <1>1 DEF StreamInv, Stopped
<1>3. reply' = got /\ chan'[1] = <<>> /\ chan'[0] = <<>>
  BY <1>0, <1>1, <1>2 DEF Queues
<1>4. sent' = sent /\ seen' = seen /\ lost' = lost /\ taken' = taken /\ poll' = poll
  BY <1>1 DEF meshVars, sendVars, recvVars
<1>5. Streamed'
  BY <1>0, <1>1, <1>4 DEF StreamInv, Streamed
<1>6. Stopped'
  BY <1>1, <1>2, <1>3 DEF Stopped
<1>7. Drains'
  BY <1>0, <1>1, <1>2, <1>4 DEF StreamInv, Drains, CaughtUp
<1> QED
  BY <1>5, <1>6, <1>7 DEF StreamInv

(* So every step of a stream keeps its invariant: the other steps are not  *)
(* of a stream over a ring.                                                *)
LEMMA StreamStep ==
  ASSUME CompareInv, measure \in {1, 3}, Within, errors' = {}, errors = {}
  PROVE  StreamInv'
<1>0. /\ StreamInv /\ Ranks = {0, 1}
      /\ pc[0] \in {"push", "flying", "reply", "barrier"}
      /\ pc[1] \in {"await", "polling", "ack", "drained", "answer", "barrier"}
  BY PairIs DEF CompareInv, StreamInv, Streamed
<1>1. ASSUME NEW r \in Ranks, RingWork(r) \/ Transfer(r)
      PROVE  \/ r = 0 /\ (Push(0) \/ Transfer(0))
             \/ r = 1 /\ (StartPoll(1) \/ PollOn(1) \/ Acknowledge(1) \/ AfterPoll(1))
  BY <1>0, <1>1 DEF RingWork, Push, Transfer, StartPoll, PollOn, Acknowledge, AfterPoll
<1>2. ASSUME NEW r \in Ranks, P2pWork(r)
      PROVE  FALSE
  BY <1>0, <1>2 DEF P2pWork, Post, Posted, Receive
<1>3. ~Finishing \/ (pc' = pc /\ UNCHANGED <<meshVars, count, got, stopping, reply, chan>>)
  BY <1>0 DEF Finishing, Dismiss, Dismissed, WorldBarrier
<1>4. ASSUME pc' = pc, UNCHANGED <<meshVars, count, got, stopping, reply, chan>>
      PROVE  StreamInv'
  <2>1. sent' = sent /\ seen' = seen /\ lost' = lost /\ taken' = taken /\ poll' = poll
    BY <1>4 DEF meshVars, sendVars, recvVars
  <2>2. Streamed' /\ Stopped'
    BY <1>0, <1>4, <2>1 DEF StreamInv, Streamed, Stopped
  <2>3. Drains'
    BY <1>0, <1>4, <2>1 DEF StreamInv, Drains, CaughtUp, FoundNothing, Lane, Incoming
  <2> QED
    BY <2>2, <2>3 DEF StreamInv
<1>5. UNCHANGED <<meshVars, pairVars>> =>
        pc' = pc /\ UNCHANGED <<meshVars, count, got, stopping, reply, chan>>
  BY DEF pairVars
<1>6. CASE \E r \in Ranks : RingWork(r) \/ Transfer(r)
  BY <1>0, <1>1, <1>6, StreamPush, StreamTransfer, StreamStartPoll, StreamPollOn,
     StreamAcknowledge, StreamAfterPoll
<1>7. CASE Streaming
  BY <1>0, <1>7, StreamStops, StreamAnswers, StreamReplied DEF Streaming
<1> QED
  BY <1>2, <1>3, <1>4, <1>5, <1>6, <1>7 DEF Within

-----------------------------------------------------------------------------
(* Round trips over a ring *)

(* One message is under way at a time: a poll finds one at most, and the   *)
(* sender is no more than that one ahead.                                  *)
LEMMA OneUnderWay ==
  ASSUME CompareInv, RttInv
  PROVE  /\ \A r \in Ranks : Holding(r) \in {0, 1} /\ (Holding(r) = 0 <=> poll[r].batch = <<>>)
         /\ pc[0] = "polling" => Issued(Back) <= seen[Back] + 1
         /\ pc[1] = "polling" => Issued(Forth) <= seen[Forth] + 1
<1>0. /\ CompareTypeOK /\ MeshInv /\ TypeOK /\ Calls(0) /\ Calls(1) /\ Ranks = {0, 1}
      /\ Out(0) = Forth /\ Out(1) = Back /\ Forth \in Lanes /\ Back \in Lanes
  BY PairTypes, PairIs
<1>1. /\ count[0] \in Nat /\ count[1] \in Nat /\ Messages \in Nat
      /\ sent[Forth] \in Nat /\ sent[Back] \in Nat
      /\ seen[Forth] \in Nat /\ seen[Back] \in Nat
  BY PairTypes
<1>2. \A r \in Ranks : Holding(r) \in Nat /\ (Holding(r) = 0 <=> poll[r].batch = <<>>)
  <2>1. \A r \in Ranks : poll[r].batch \in Seq(MessageRecords)
    BY <1>0, PairTypes
  <2> QED
    BY <2>1, LenProperties, EmptySeq DEF Holding
<1>3. /\ sent[Forth] = Messages + count[0] + Unanswered
      /\ seen[Back] = count[0] + Holding(0)
      /\ sent[Back] = count[1]
      /\ seen[Forth] = Messages + count[1] + Holding(1) + Answering
  BY DEF RttInv, Tripped
<1>4. /\ Issued(Forth) = sent[Forth] + IF pc[0] = "flying" THEN 1 ELSE 0
      /\ Issued(Back) = sent[Back] + IF pc[1] = "flying" THEN 1 ELSE 0
      /\ seen[Forth] <= Issued(Forth) /\ seen[Back] <= Issued(Back)
  BY <1>0 DEF Issued, Calls, MeshInv
<1>5. /\ pc[1] \in {"push", "flying"} => Holding(1) = 0
      /\ pc[0] \notin {"polling", "ack", "drained"} => Holding(0) = 0
  BY <1>0, <1>2 DEF Calls
<1>6. count[0] + Holding(0) <= count[1] + IF pc[1] = "flying" THEN 1 ELSE 0
  BY <1>1, <1>2, <1>3, <1>4
<1>7. Holding(0) \in Nat /\ Holding(1) \in Nat
  BY <1>0, <1>2
<1>8. count[1] + Holding(1) + Answering
        <= count[0] + Unanswered + IF pc[0] = "flying" THEN 1 ELSE 0
  <2>1. Unanswered \in Nat /\ Answering \in Nat
    BY DEF Unanswered, Answering
  <2>2. Messages + count[1] + Holding(1) + Answering
          <= Messages + count[0] + Unanswered + IF pc[0] = "flying" THEN 1 ELSE 0
    BY <1>3, <1>4
  <2> QED
    BY <1>1, <1>7, <2>1, <2>2
<1>9. count[1] + Holding(1) + Answering <= count[0] + 1
  BY <1>1, <1>8, <1>7 DEF Unanswered, Answering
<1>10. Holding(0) \in {0, 1} /\ Holding(1) \in {0, 1}
  <2>1. Holding(0) <= 1
    <3>1. CASE pc[1] = "flying"
      <4>1. count[0] + Holding(0) <= count[1] + 1 /\ count[1] + Holding(1) + 1 <= count[0] + 1
        BY <1>6, <1>9, <3>1 DEF Answering
      <4> QED
        BY <1>1, <1>7, <4>1
    <3>2. CASE pc[1] # "flying"
      <4>1. count[0] + Holding(0) <= count[1] /\ count[1] + Holding(1) <= count[0] + 1
        BY <1>1, <1>6, <1>7, <1>9, <3>2 DEF Answering
      <4> QED
        BY <1>1, <1>7, <4>1
    <3> QED
      BY <3>1, <3>2
  <2>2. CASE pc[1] \in {"push", "flying"}
    BY <1>5, <1>7, <2>1, <2>2
  <2>3. CASE pc[1] \notin {"push", "flying"}
    <3>1. count[0] + Holding(0) <= count[1] /\ count[1] + Holding(1) <= count[0] + 1
      BY <1>1, <1>6, <1>7, <1>9, <2>3 DEF Answering
    <3> QED
      BY <1>1, <1>7, <2>1, <3>1
  <2> QED
    BY <2>2, <2>3
<1>11. pc[0] = "polling" => Issued(Back) <= seen[Back] + 1
  BY <1>1, <1>3, <1>4, <1>7, <1>9 DEF Answering
<1>12. pc[1] = "polling" => Issued(Forth) <= seen[Forth] + 1
  BY <1>1, <1>3, <1>4, <1>6, <1>7 DEF Answering, Unanswered
<1> QED
  BY <1>0, <1>2, <1>10, <1>11, <1>12

(* What a measurement of round trips is not. *)
LEMMA RttIs ==
  ASSUME CompareInv, measure \in {2, 4}
  PROVE  /\ ~Measuring(RingStreams) /\ ~Measuring(RingStreams \cup P2pStreams)
         /\ \A r \in Ranks : More(r) <=> count[r] < Iters
<1>1. ~Measuring(RingStreams) /\ ~Measuring(RingStreams \cup P2pStreams)
  BY PairTypes, MeasuringIs DEF CompareTypeOK
<1> QED
  BY <1>1 DEF More

(* A step that takes no message leaves what was taken. *)
LEMMA StillFetched ==
  ASSUME RttInv, UNCHANGED <<seen, lost, taken>>
  PROVE  Fetched'
BY DEF RttInv, Fetched, EndsWith

(* A rank puts a message or an answer. *)
LEMMA RttPush ==
  ASSUME CompareInv, RttInv, measure \in {2, 4}, errors' = {}, NEW r \in Ranks, Push(r)
  PROVE  RttInv'
<1>0. Tripped /\ Ranks = {0, 1}
  BY PairIs DEF RttInv
<1>1. /\ pc[r] = "push" /\ Received /\ Kept /\ sent' = sent /\ count' = count
      /\ pc'[r] \in {"flying", "push"} /\ \A q \in Ranks \ {r} : pc'[q] = pc[q]
  BY PushIs DEF Moves
<1>2. UNCHANGED <<seen, lost, taken, poll>> /\ chan' = chan
  BY <1>1 DEF Received, Kept
<1>3. Unanswered' = Unanswered /\ Answering' = Answering /\ \A q \in Ranks : Holding(q)' = Holding(q)
  BY <1>0, <1>1, <1>2 DEF Unanswered, Answering, Holding
<1>4. \A q \in Ranks : pc'[q] \in RingStages \cup {"barrier"} /\ Rounds(q)'
  BY <1>0, <1>1 DEF Tripped, Rounds, RingStages
<1>5. Tripped'
  BY <1>0, <1>1, <1>2, <1>3, <1>4 DEF Tripped
<1> QED
  BY <1>2, <1>5, StillFetched DEF RttInv

(* It has arrived: rank 0 awaits the answer, and rank 1 has counted.       *)
LEMMA RttTransfer ==
  ASSUME CompareInv, RttInv, measure \in {2, 4}, NEW r \in Ranks, Transfer(r)
  PROVE  RttInv'
<1>0. /\ Tripped /\ Ranks = {0, 1} /\ Forth \in Lanes /\ Back \in Lanes /\ Forth # Back
      /\ Out(0) = Forth /\ Out(1) = Back /\ CompareTypeOK /\ TypeOK
  BY PairIs, PairTypes DEF RttInv
<1>1. /\ pc[r] = "flying" /\ Received /\ Kept
      /\ sent' = [sent EXCEPT ![Out(r)] = @ + 1]
      /\ IF r = 0 THEN count' = count /\ Moves(r, "await")
         ELSE /\ count' = [count EXCEPT ![r] = @ + 1]
              /\ Moves(r, IF count[r] + 1 < Iters THEN "await" ELSE "barrier")
  BY TransferIs, RttIs
<1>2. UNCHANGED <<seen, lost, taken, poll>> /\ chan' = chan
  BY <1>1 DEF Received, Kept
<1>3. \A q \in Ranks : Holding(q)' = Holding(q)
  BY <1>2 DEF Holding
<1>4. /\ count[0] \in Nat /\ count[1] \in Nat /\ Messages \in Nat /\ Iters \in Nat
      /\ sent[Forth] \in Nat /\ sent[Back] \in Nat /\ seen[Forth] \in Nat
      /\ Holding(0) \in {0, 1} /\ Holding(1) \in {0, 1}
  BY <1>0, PairTypes, OneUnderWay
<1>5. CASE r = 0
  <2>1. /\ pc[0] = "flying" /\ pc'[0] = "await" /\ pc'[1] = pc[1] /\ count' = count
        /\ sent'[Forth] = sent[Forth] + 1 /\ sent'[Back] = sent[Back]
    BY <1>0, <1>1, <1>5, MovesIs DEF TypeOK
  <2>2. Unanswered = 0 /\ Unanswered' = 1 /\ Answering' = Answering
    BY <2>1 DEF Unanswered, Answering
  <2>3. \A q \in Ranks : pc'[q] \in RingStages \cup {"barrier"} /\ Rounds(q)'
    BY <1>0, <2>1 DEF Tripped, Rounds, RingStages
  <2>4. sent'[Forth] = Messages + count'[0] + Unanswered'
    BY <1>0, <1>4, <2>1, <2>2 DEF Tripped
  <2> QED
    BY <1>0, <1>2, <1>3, <2>1, <2>2, <2>3, <2>4, StillFetched DEF Tripped, RttInv
<1>6. CASE r = 1
  <2> PICK next : next = IF count[1] + 1 < Iters THEN "await" ELSE "barrier"
    OBVIOUS
  <2>1. /\ pc[1] = "flying" /\ pc'[1] = next /\ pc'[0] = pc[0]
        /\ count'[1] = count[1] + 1 /\ count'[0] = count[0]
        /\ sent'[Back] = sent[Back] + 1 /\ sent'[Forth] = sent[Forth]
    BY <1>0, <1>1, <1>6, MovesIs DEF TypeOK, CompareTypeOK
  <2>2. Answering = 1 /\ Answering' = 0 /\ Unanswered' = Unanswered
    BY <2>1 DEF Unanswered, Answering
  <2>3. count[1] < Iters
    BY <1>0, <2>1 DEF Tripped, Rounds
  <2>4. pc'[1] \in RingStages \cup {"barrier"} /\ Rounds(1)'
    BY <1>4, <2>1, <2>3 DEF Rounds, RingStages
  <2>5. pc'[0] \in RingStages \cup {"barrier"} /\ Rounds(0)'
    BY <1>0, <2>1 DEF Tripped, Rounds
  <2>6. /\ seen'[Forth] = Messages + count'[1] + Holding(1)' + Answering'
        /\ sent'[Back] = count'[1]
    BY <1>0, <1>2, <1>3, <1>4, <2>1, <2>2 DEF Tripped
  <2> QED
    BY <1>0, <1>2, <1>3, <2>1, <2>2, <2>4, <2>5, <2>6, StillFetched DEF Tripped, RttInv
<1> QED
  BY <1>0, <1>5, <1>6

(* A rank starts a poll. *)
LEMMA RttStartPoll ==
  ASSUME CompareInv, RttInv, measure \in {2, 4}, NEW r \in Ranks, StartPoll(r)
  PROVE  RttInv'
<1>0. Tripped /\ Ranks = {0, 1}
  BY PairIs DEF RttInv
<1>1. /\ pc[r] = "await" /\ pc'[r] = "polling" /\ \A q \in Ranks \ {r} : pc'[q] = pc[q]
      /\ sent' = sent /\ chan' = chan /\ count' = count /\ UNCHANGED <<seen, lost, taken>>
      /\ poll[r].batch = poll'[r].batch /\ poll'[r].pc = "lane"
      /\ \A q \in Ranks \ {r} : poll'[q] = poll[q]
  BY StartPollIs DEF Moves, Sending, Kept
<1>2. Unanswered' = Unanswered /\ Answering' = Answering /\ \A q \in Ranks : Holding(q)' = Holding(q)
  BY <1>0, <1>1 DEF Unanswered, Answering, Holding
<1>3. \A q \in Ranks : pc'[q] \in RingStages \cup {"barrier"} /\ Rounds(q)'
  BY <1>0, <1>1 DEF Tripped, Rounds, RingStages
<1>4. \A q \in Ranks : poll'[q].pc \in {"idle", "lane"}
  BY <1>0, <1>1 DEF Tripped
<1>5. Tripped'
  BY <1>0, <1>1, <1>2, <1>3, <1>4 DEF Tripped
<1> QED
  BY <1>1, <1>5, StillFetched DEF RttInv

(* It acknowledges what it has taken. *)
LEMMA RttAcknowledge ==
  ASSUME CompareInv, RttInv, measure \in {2, 4}, errors' = errors,
         NEW r \in Ranks, Acknowledge(r)
  PROVE  RttInv'
<1>0. Tripped /\ Ranks = {0, 1}
  BY PairIs DEF RttInv
<1>1. /\ pc[r] = "ack" /\ Received /\ Kept /\ sent' = sent /\ count' = count
      /\ pc'[r] \in {"ack", "drained"} /\ \A q \in Ranks \ {r} : pc'[q] = pc[q]
  BY AcknowledgeIs DEF Moves
<1>2. UNCHANGED <<seen, lost, taken, poll>> /\ chan' = chan
  BY <1>1 DEF Received, Kept
<1>3. Unanswered' = Unanswered /\ Answering' = Answering /\ \A q \in Ranks : Holding(q)' = Holding(q)
  BY <1>0, <1>1, <1>2 DEF Unanswered, Answering, Holding
<1>4. \A q \in Ranks : pc'[q] \in RingStages \cup {"barrier"} /\ Rounds(q)'
  BY <1>0, <1>1 DEF Tripped, Rounds, RingStages
<1>5. Tripped'
  BY <1>0, <1>1, <1>2, <1>3, <1>4 DEF Tripped
<1> QED
  BY <1>2, <1>5, StillFetched DEF RttInv

(* The poll had nothing, and there is another; or rank 1 answers, or rank  *)
(* 0 counts a round trip.                                                  *)
LEMMA RttAfterPoll ==
  ASSUME CompareInv, RttInv, measure \in {2, 4}, NEW r \in Ranks, AfterPoll(r)
  PROVE  RttInv'
<1>0. Tripped /\ Ranks = {0, 1} /\ CompareTypeOK
  BY PairIs, PairTypes DEF RttInv
<1>1. /\ pc[r] = "drained" /\ sent' = sent /\ UNCHANGED <<seen, lost, taken>>
      /\ \A q \in Ranks \ {r} : poll'[q] = poll[q]
      /\ poll'[r].batch = <<>> /\ poll'[r].pc = "idle"
  BY AfterPollIs DEF Sending
<1>2. /\ chan' = chan
      /\ IF poll[r].batch = <<>> THEN Moves(r, "await") /\ count' = count
         ELSE IF r = 1 THEN Moves(r, "push") /\ count' = count
         ELSE /\ count' = [count EXCEPT ![r] = @ + 1]
              /\ Moves(r, IF count[r] + 1 < Iters THEN "push" ELSE "barrier")
  <2>1. measure \notin {1, 3}
    OBVIOUS
  <2> QED
    BY <2>1, AfterPollMoves
<1>3. /\ count[0] \in Nat /\ count[1] \in Nat /\ Messages \in Nat /\ Iters \in Nat
      /\ sent[Forth] \in Nat /\ sent[Back] \in Nat /\ seen[Forth] \in Nat
      /\ \A q \in Ranks : Holding(q) \in {0, 1} /\ (Holding(q) = 0 <=> poll[q].batch = <<>>)
  BY PairTypes, OneUnderWay
<1>4. /\ Holding(r)' = 0 /\ \A q \in Ranks \ {r} : Holding(q)' = Holding(q)
      /\ \A q \in Ranks : poll'[q].pc \in {"idle", "lane"}
  BY <1>0, <1>1 DEF Holding, Tripped
<1>5. CASE poll[r].batch = <<>>
  <2>1. /\ pc'[r] = "await" /\ \A q \in Ranks \ {r} : pc'[q] = pc[q]
        /\ count' = count
    BY <1>2, <1>5 DEF Moves
  <2>2. /\ Unanswered' = Unanswered /\ Answering' = Answering
        /\ \A q \in Ranks : Holding(q)' = Holding(q)
    BY <1>0, <1>1, <1>3, <1>4, <1>5, <2>1 DEF Unanswered, Answering
  <2>3. \A q \in Ranks : pc'[q] \in RingStages \cup {"barrier"} /\ Rounds(q)'
    BY <1>0, <1>1, <2>1 DEF Tripped, Rounds, RingStages
  <2>4. Tripped'
    BY <1>0, <1>1, <1>2, <1>4, <2>1, <2>2, <2>3 DEF Tripped
  <2> QED
    BY <1>1, <2>4, StillFetched DEF RttInv
<1>6. CASE poll[r].batch # <<>> /\ r = 1
  <2>1. pc'[1] = "push" /\ pc'[0] = pc[0] /\ count' = count
    BY <1>2, <1>6, MovesIs
  <2>2. /\ Unanswered' = Unanswered /\ Answering = 0 /\ Answering' = 1
        /\ Holding(1) = 1 /\ Holding(1)' = 0 /\ Holding(0)' = Holding(0)
    BY <1>0, <1>1, <1>3, <1>4, <1>6, <2>1 DEF Unanswered, Answering
  <2>3. \A q \in Ranks : pc'[q] \in RingStages \cup {"barrier"} /\ Rounds(q)'
    BY <1>0, <1>1, <1>6, <2>1 DEF Tripped, Rounds, RingStages
  <2>4. seen'[Forth] = Messages + count'[1] + Holding(1)' + Answering'
    BY <1>0, <1>1, <1>3, <2>1, <2>2 DEF Tripped
  <2>5. Tripped'
    BY <1>0, <1>1, <1>2, <1>4, <2>1, <2>2, <2>3, <2>4 DEF Tripped
  <2> QED
    BY <1>1, <2>5, StillFetched DEF RttInv
<1>7. CASE poll[r].batch # <<>> /\ r = 0
  <2> PICK next : next = IF count[0] + 1 < Iters THEN "push" ELSE "barrier"
    OBVIOUS
  <2>1. pc'[0] = next /\ pc'[1] = pc[1] /\ count'[0] = count[0] + 1 /\ count'[1] = count[1]
    BY <1>0, <1>2, <1>7, MovesIs DEF CompareTypeOK
  <2>2. /\ Unanswered = 1 /\ Unanswered' = 0 /\ Answering' = Answering
        /\ Holding(0) = 1 /\ Holding(0)' = 0 /\ Holding(1)' = Holding(1)
    BY <1>0, <1>1, <1>3, <1>4, <1>7, <2>1 DEF Unanswered, Answering
  <2>3. count[0] < Iters
    BY <1>0, <1>1, <1>7 DEF Tripped, Rounds
  <2>4. pc'[0] \in RingStages \cup {"barrier"} /\ Rounds(0)'
    BY <1>3, <2>1, <2>3 DEF Rounds, RingStages
  <2>5. pc'[1] \in RingStages \cup {"barrier"} /\ Rounds(1)'
    BY <1>0, <2>1 DEF Tripped, Rounds
  <2>6. /\ sent'[Forth] = Messages + count'[0] + Unanswered'
        /\ seen'[Back] = count'[0] + Holding(0)'
    BY <1>0, <1>1, <1>3, <2>1, <2>2 DEF Tripped
  <2>7. Tripped'
    BY <1>0, <1>1, <1>2, <1>4, <2>1, <2>2, <2>4, <2>5, <2>6 DEF Tripped
  <2> QED
    BY <1>1, <2>7, StillFetched DEF RttInv
<1> QED
  BY <1>0, <1>5, <1>6, <1>7

(* A sequence that ends with the numbers after n goes on with the next.    *)
LEMMA EndsLonger ==
  ASSUME NEW t \in Seq(Nat), NEW k \in Nat, NEW n \in Nat, EndsWith(t, k, n)
  PROVE  EndsWith(Append(t, n + k + 1), k + 1, n)
<1> DEFINE u == Append(t, n + k + 1)
<1>1. PICK m \in Nat : m = Len(t)
  BY LenProperties
<1>2. n + k + 1 \in Nat
  OBVIOUS
<1>3. /\ Len(u) = m + 1 /\ u[m + 1] = n + k + 1
      /\ \A i \in 1..m : u[i] = t[i]
  BY <1>1, <1>2, AppendProperties
<1> HIDE DEF u
<1>4. k <= m /\ \A i \in 1..k : t[m - k + i] = n + i
  BY <1>1 DEF EndsWith
<1>5. ASSUME NEW i \in 1..k + 1 PROVE u[(m + 1) - (k + 1) + i] = n + i
  <2>1. CASE i = k + 1
    <3>1. (m + 1) - (k + 1) + i = m + 1
      BY <2>1
    <3> QED
      BY <1>3, <2>1, <3>1
  <2>2. CASE i # k + 1
    <3>1. /\ (m + 1) - (k + 1) + i = m - k + i
          /\ i \in 1..k /\ m - k + i \in 1..m
      BY <1>4, <2>2
    <3>2. u[m - k + i] = t[m - k + i] /\ t[m - k + i] = n + i
      BY <1>3, <1>4, <3>1
    <3> QED
      BY <3>1, <3>2
  <2> QED
    BY <2>1, <2>2
<1>6. k + 1 <= m + 1
  BY <1>4
<1>7. EndsWith(u, k + 1, n)
  BY <1>3, <1>5, <1>6 DEF EndsWith
<1> QED
  BY <1>7 DEF u

(* A step of a poll in a round trip: it finds nothing, or takes the next   *)
(* message; it is not lapped.                                              *)
LEMMA RttPollIs ==
  ASSUME CompareInv, RttInv, measure \in {2, 4}, errors' = errors,
         NEW r \in Ranks, PollOn(r), NEW l \in Lanes, l = Out(Other(r))
  PROVE  /\ lost' = lost /\ poll'[r].pc \in {"idle", "lane"}
         /\ \/ /\ UNCHANGED <<seen, taken>>
               /\ Holding(r)' = Holding(r)
            \/ /\ seen'[l] = seen[l] + 1 /\ taken'[l] = Append(taken[l], seen[l] + 1)
               /\ Len(taken'[l]) = Len(taken[l]) + 1
               /\ \A k \in Lanes \ {l} : seen'[k] = seen[k] /\ taken'[k] = taken[k]
               /\ Holding(r)' = Holding(r) + 1
<1>0. MeshInv /\ TypeOK /\ Tripped /\ Ranks = {0, 1} /\ poll[r] \in PollRecords
  BY PairIs, PairTypes DEF RttInv, TypeOK
<1>1. /\ pc[r] = "polling" /\ poll[r].pc # "idle" /\ Poll(r)
      /\ \/ TakesNothing(r) /\ (PollMiss(r) \/ PollRecover(r) \/ PollScan(r))
         \/ (\E s : Takes(r, s)) /\ (PollTake(r) \/ PollDeliver(r))
  BY PollOnIs
<1>2. poll[r].pc = "lane" /\ Lane(r) = l
  BY <1>0, <1>1, LaneInto DEF Tripped
<1>3. Issued(l) <= seen[l] + 1
  BY <1>0, <1>1, PairIs, OneUnderWay
<1>4. seen[l] \in Nat /\ Issued(l) \in Nat /\ Depth[l] \in Nat /\ Depth[l] > 0
  BY <1>0, LaneIs
<1>5. ~Lapped(r)
  <2>1. Issued(l) <= seen[l] + Depth[l]
    BY <1>3, <1>4
  <2> QED
    BY <1>0, <1>1, <1>2, <2>1, NotLapped
<1>6. CASE TakesNothing(r)
  <2>1. ~PollRecover(r) /\ ~PollScan(r)
    BY <1>2, <1>5 DEF PollRecover, PollScan
  <2>2. ~(\E s : Takes(r, s))
    <3> SUFFICES ASSUME NEW s, Takes(r, s) PROVE FALSE
      OBVIOUS
    <3>1. s \in Nat /\ seen[l] < s /\ seen'[l] = s
      BY <1>0, TakesIs
    <3>2. seen' = seen
      BY <1>6 DEF TakesNothing
    <3> QED
      BY <1>4, <3>1, <3>2
  <2>3. PollMiss(r)
    BY <1>1, <2>1, <2>2
  <2>4. LeaveLane(r, poll[r].batch)
    BY <2>3 DEF PollMiss
  <2>5. poll'[r].pc \in {"idle", "lane"}
    BY <1>0, <2>4, LeaveLaneDoes
  <2> QED
    BY <1>6, <2>5 DEF TakesNothing, Holding
<1>7. CASE ~TakesNothing(r)
  <2>1. PICK s : Takes(r, s)
    BY <1>1, <1>7
  <2>2. PollTake(r)
    BY <1>1, <1>2, <1>7 DEF PollDeliver
  <2>3. /\ s \in Nat /\ seen[l] < s /\ s <= Issued(l)
        /\ seen'[l] = s /\ taken'[l] = Append(taken[l], s)
        /\ Len(taken'[l]) = Len(taken[l]) + 1
        /\ \A k \in Lanes \ {l} : seen'[k] = seen[k] /\ taken'[k] = taken[k]
        /\ Holding(r)' = Holding(r) + 1
    BY <1>0, <2>1, TakesIs DEF Holding
  <2>4. s = seen[l] + 1
    BY <1>3, <1>4, <2>3
  <2>5. lost' = lost
    BY <2>2 DEF PollTake
  <2>6. poll'[r].pc \in {"idle", "lane"}
    <3>1. PICK messages :
            \/ poll' = [poll EXCEPT ![r].read = @ + 1, ![r].batch = messages]
            \/ LeaveLane(r, messages)
      BY <2>2 DEF PollTake
    <3>2. CASE LeaveLane(r, messages)
      BY <1>0, <3>2, LeaveLaneDoes
    <3>3. CASE poll' = [poll EXCEPT ![r].read = @ + 1, ![r].batch = messages]
      <4> DEFINE new == [poll[r] EXCEPT !.read = @ + 1, !.batch = messages]
      <4>1. poll' = [poll EXCEPT ![r] = new]
        BY <1>0, <3>3 DEF TypeOK
      <4>2. new.pc = "lane"
        BY <1>0, <1>2 DEF PollRecords
      <4> HIDE DEF new
      <4> QED
        BY <1>0, <4>1, <4>2 DEF TypeOK
    <3> QED
      BY <3>1, <3>2, <3>3
  <2> QED
    BY <2>3, <2>4, <2>5, <2>6
<1> QED
  BY <1>6, <1>7

(* Either rank polls. *)
LEMMA RttPollOn ==
  ASSUME CompareInv, RttInv, measure \in {2, 4}, errors' = errors, NEW r \in Ranks, PollOn(r)
  PROVE  RttInv'
<1>0. /\ Tripped /\ Fetched /\ Ranks = {0, 1} /\ TypeOK
      /\ Forth \in Lanes /\ Back \in Lanes /\ Forth # Back
      /\ Out(Other(0)) = Back /\ Out(Other(1)) = Forth
  BY PairIs, PairTypes DEF RttInv
<1>1. /\ pc[r] = "polling" /\ sent' = sent /\ count' = count /\ chan' = chan
      /\ \A q \in Ranks \ {r} : poll'[q] = poll[q]
      /\ pc'[r] \in {"polling", "ack", "drained"}
      /\ \A q \in Ranks \ {r} : pc'[q] = pc[q]
  BY PollOnIs DEF Sending, Moves
<1>2. Unanswered' = Unanswered /\ Answering' = Answering
  BY <1>0, <1>1 DEF Unanswered, Answering
<1>3. \A q \in Ranks : pc'[q] \in RingStages \cup {"barrier"} /\ Rounds(q)'
  BY <1>0, <1>1 DEF Tripped, Rounds, RingStages
<1>4. \A q \in Ranks \ {r} : Holding(q)' = Holding(q)
  BY <1>1 DEF Holding
<1>5. /\ count[0] \in Nat /\ count[1] \in Nat /\ Messages \in Nat
      /\ seen[Forth] \in Nat /\ seen[Back] \in Nat
      /\ taken[Forth] \in Seq(Nat) /\ taken[Back] \in Seq(Nat)
      /\ Holding(0) \in {0, 1} /\ Holding(1) \in {0, 1}
      /\ Unanswered \in {0, 1} /\ Answering \in {0, 1}
  BY <1>0, PairTypes, OneUnderWay DEF Unanswered, Answering
<1>6. lost' = lost /\ \A q \in Ranks : poll'[q].pc \in {"idle", "lane"}
  <2>1. Out(Other(r)) \in Lanes
    BY <1>0
  <2>2. lost' = lost /\ poll'[r].pc \in {"idle", "lane"}
    BY <2>1, RttPollIs
  <2> QED
    BY <1>0, <1>1, <2>2 DEF Tripped
<1>7. CASE UNCHANGED <<seen, taken>> /\ Holding(r)' = Holding(r)
  <2>1. \A q \in Ranks : Holding(q)' = Holding(q)
    BY <1>4, <1>7
  <2>2. Tripped'
    BY <1>0, <1>1, <1>2, <1>3, <1>6, <1>7, <2>1 DEF Tripped
  <2> QED
    BY <1>6, <1>7, <2>2, StillFetched DEF RttInv
<1>8. CASE r = 0 /\ ~(UNCHANGED <<seen, taken>> /\ Holding(r)' = Holding(r))
  <2>1. /\ seen'[Back] = seen[Back] + 1 /\ taken'[Back] = Append(taken[Back], seen[Back] + 1)
        /\ seen'[Forth] = seen[Forth] /\ taken'[Forth] = taken[Forth]
        /\ Holding(0)' = Holding(0) + 1 /\ Holding(1)' = Holding(1)
    BY <1>0, <1>4, <1>8, RttPollIs
  <2>2. seen'[Back] = count'[0] + Holding(0)'
    BY <1>0, <1>1, <1>5, <2>1 DEF Tripped
  <2>3. Tripped'
    BY <1>0, <1>1, <1>2, <1>3, <1>6, <2>1, <2>2 DEF Tripped
  <2>4. Len(taken'[Back]) = seen'[Back] /\ \A i \in 1..seen'[Back] : taken'[Back][i] = i
    <3>1. Len(taken[Back]) = seen[Back] /\ \A i \in 1..seen[Back] : taken[Back][i] = i
      BY <1>0 DEF Fetched
    <3>2. seen[Back] + 1 \in Nat
      BY <1>5
    <3>3. /\ Len(taken'[Back]) = seen[Back] + 1
          /\ \A i \in 1..seen[Back] : taken'[Back][i] = taken[Back][i]
          /\ taken'[Back][seen[Back] + 1] = seen[Back] + 1
      BY <1>5, <2>1, <3>1, <3>2, AppendProperties
    <3>4. \A i \in 1..seen[Back] + 1 : i \in 1..seen[Back] \/ i = seen[Back] + 1
      BY <1>5
    <3> QED
      BY <2>1, <3>1, <3>3, <3>4
  <2>5. Fetched'
    BY <1>0, <1>6, <2>1, <2>4 DEF Fetched, EndsWith
  <2> QED
    BY <2>3, <2>5 DEF RttInv
<1>9. CASE r = 1 /\ ~(UNCHANGED <<seen, taken>> /\ Holding(r)' = Holding(r))
  <2>1. /\ seen'[Forth] = seen[Forth] + 1
        /\ taken'[Forth] = Append(taken[Forth], seen[Forth] + 1)
        /\ seen'[Back] = seen[Back] /\ taken'[Back] = taken[Back]
        /\ Holding(1)' = Holding(1) + 1 /\ Holding(0)' = Holding(0)
    BY <1>0, <1>4, <1>9, RttPollIs
  <2>2. seen'[Forth] = Messages + count'[1] + Holding(1)' + Answering'
    BY <1>0, <1>1, <1>2, <1>5, <2>1 DEF Tripped
  <2>3. Tripped'
    BY <1>0, <1>1, <1>2, <1>3, <1>6, <2>1, <2>2 DEF Tripped
  <2>4. EndsWith(taken[Forth], seen[Forth] - Messages, Messages)
    BY <1>0 DEF Fetched
  <2> PICK k : k = seen[Forth] - Messages
    OBVIOUS
  <2>5. /\ k \in Nat /\ Messages + k + 1 = seen[Forth] + 1
        /\ seen'[Forth] - Messages = k + 1
    <3>1. seen[Forth] = Messages + count[1] + Holding(1) + Answering
      BY <1>0 DEF Tripped
    <3>2. k = count[1] + Holding(1) + Answering
      BY <1>5, <3>1
    <3>3. k \in Nat
      BY <1>5, <3>2
    <3> QED
      BY <1>5, <2>1, <3>3
  <2>6. EndsWith(taken'[Forth], k + 1, Messages)
    BY <1>5, <2>1, <2>4, <2>5, EndsLonger
  <2>7. Fetched'
    BY <1>0, <1>6, <2>1, <2>5, <2>6 DEF Fetched, EndsWith
  <2> QED
    BY <2>3, <2>7 DEF RttInv
<1> QED
  BY <1>0, <1>7, <1>8, <1>9

(* Every step of round trips keeps their invariant. *)
LEMMA RttStep ==
  ASSUME CompareInv, measure \in {2, 4}, Within, errors' = {}, errors = {}
  PROVE  RttInv'
<1>0. /\ RttInv /\ Ranks = {0, 1}
      /\ \A r \in Ranks : pc[r] \in RingStages \cup {"barrier"} /\ Rounds(r)
      /\ pc[0] \in RingStages \cup {"barrier"} /\ pc[1] \in RingStages \cup {"barrier"}
  BY PairIs DEF CompareInv, RttInv, Tripped
<1>1. ASSUME NEW r \in Ranks, P2pWork(r)
      PROVE  FALSE
  BY <1>0, <1>1 DEF P2pWork, Post, Posted, Receive, RingStages
<1>2. ~Streaming
  <2>1. ~Answer /\ ~Reply
    BY <1>0 DEF Answer, Reply, RingStages
  <2>2. ~SendStop
    <3> SUFFICES ASSUME SendStop PROVE FALSE
      OBVIOUS
    <3>1. pc[0] = "push" /\ ~More(0)
      BY <1>0 DEF SendStop, RingStages
    <3>2. ~(count[0] < Iters)
      BY <1>0, <3>1, RttIs
    <3> QED
      BY <1>0, <3>1, <3>2 DEF Rounds
  <2> QED
    BY <2>1, <2>2 DEF Streaming
<1>3. Finishing => pc' = pc /\ UNCHANGED <<meshVars, count, got, stopping, reply, chan>>
  BY <1>0 DEF Finishing, Dismiss, Dismissed, WorldBarrier, RingStages
<1>4. ASSUME pc' = pc, UNCHANGED <<meshVars, count, got, stopping, reply, chan>>
      PROVE  RttInv'
  <2>1. sent' = sent /\ seen' = seen /\ lost' = lost /\ taken' = taken /\ poll' = poll
    BY <1>4 DEF meshVars, sendVars, recvVars
  <2>2. Tripped'
    BY <1>0, <1>4, <2>1 DEF RttInv, Tripped, Rounds, Holding, Unanswered, Answering
  <2> QED
    BY <1>0, <2>1, <2>2, StillFetched DEF RttInv
<1>5. UNCHANGED <<meshVars, pairVars>> =>
        pc' = pc /\ UNCHANGED <<meshVars, count, got, stopping, reply, chan>>
  BY DEF pairVars
<1>6. CASE \E r \in Ranks : RingWork(r) \/ Transfer(r)
  BY <1>0, <1>6, RttPush, RttTransfer, RttStartPoll, RttPollOn, RttAcknowledge, RttAfterPoll
  DEF RingWork
<1> QED
  BY <1>1, <1>2, <1>3, <1>4, <1>5, <1>6 DEF Within

-----------------------------------------------------------------------------
(* Point-to-point streams *)

(* What is known of such a stream. *)
LEMMA P2pStreamIs ==
  ASSUME CompareInv, measure \in {5, 6}
  PROVE  /\ P2pStreamInv /\ Ranks = {0, 1}
         /\ Measuring(P2pStreams) /\ ~Measuring(P2pRtts)
         /\ More(0) <=> count[0] < Messages
         /\ count[0] \in Nat /\ got \in Nat /\ Messages \in Nat
         /\ CompareTypeOK /\ chan[0] \in Seq(Sent) /\ chan[1] \in Seq(Sent)
         /\ Len(chan[0]) \in Nat
<1>1. /\ P2pStreamInv /\ Ranks = {0, 1}
      /\ count[0] \in Nat /\ got \in Nat /\ Messages \in Nat
      /\ CompareTypeOK /\ chan[0] \in Seq(Sent) /\ chan[1] \in Seq(Sent)
  BY PairIs, PairTypes DEF CompareInv
<1>2. /\ Measuring(P2pStreams) /\ ~Measuring(P2pRtts)
      /\ Measuring(RingStreams \cup P2pStreams)
  BY <1>1, MeasuringIs DEF CompareTypeOK
<1>3. Len(chan[0]) \in Nat
  BY <1>1, QueueIs
<1> QED
  BY <1>1, <1>2, <1>3 DEF More

(* A message, or the stop message, is appended while rank 1 receives. *)
LEMMA P2pStreamPosts ==
  ASSUME CompareInv, measure \in {5, 6}, NEW m \in {"data", "stop"},
         Queues(0, Append(chan[0], m)), pc'[1] = pc[1],
         UNCHANGED <<count, got, reply>>,
         pc[0] = "post",
         IF m = "stop" THEN count[0] = Messages /\ pc'[0] = "reply"
                       ELSE count[0] < Messages /\ pc'[0] = "posted"
  PROVE  P2pStreamInv'
<1>0. /\ P2pStreamInv /\ Ranks = {0, 1} /\ chan[0] \in Seq(Sent)
      /\ count[0] \in Nat /\ got \in Nat /\ Messages \in Nat
  BY P2pStreamIs
<1>1. /\ pc[1] = "receive" /\ chan[1] = <<>>
      /\ Len(chan[0]) + got = count[0]
      /\ \A i \in 1..Len(chan[0]) : chan[0][i] # "stop"
  BY <1>0 DEF P2pStreamInv
<1>2. PICK n \in Nat : n = Len(chan[0])
  BY <1>0, QueueIs
<1>3. chan'[0] = Append(chan[0], m) /\ chan'[1] = chan[1]
  BY <1>0 DEF Queues
<1>4. /\ Len(chan'[0]) = n + 1 /\ chan'[0] # <<>> /\ chan'[0][n + 1] = m
      /\ \A i \in 1..n : chan'[0][i] = chan[0][i]
  <2>1. m \in Sent
    BY DEF Sent
  <2>2. Append(chan[0], m) \in Seq(Sent)
    BY <1>0, <2>1, QueueIs
  <2> QED
    BY <1>0, <1>2, <1>3, <2>1, <2>2, QueueIs
<1>5. ASSUME NEW i \in 1..n + 1
      PROVE  chan'[0][i] = "stop" <=> pc'[0] = "reply" /\ i = n + 1
  <2>1. CASE i = n + 1
    BY <1>4, <2>1
  <2>2. CASE i # n + 1
    <3>1. i \in 1..n
      BY <1>2, <2>2
    <3> QED
      BY <1>1, <1>2, <1>4, <2>2, <3>1
  <2> QED
    BY <2>1, <2>2
<1>6. \A i \in 1..Len(chan'[0]) :
        chan'[0][i] = "stop" <=> pc'[0] = "reply" /\ i = Len(chan'[0])
  BY <1>4, <1>5
<1>7. /\ pc'[1] = "receive" /\ pc'[0] \in {"posted", "reply"} /\ chan'[1] = <<>>
      /\ pc'[0] = "posted" => count'[0] < Messages
      /\ pc'[0] = "reply" => count'[0] = Messages
  BY <1>1, <1>3
<1>8. Len(chan'[0]) + got' = count'[0] + IF pc'[0] \in {"posted", "reply"} THEN 1 ELSE 0
  BY <1>0, <1>1, <1>2, <1>4, <1>7
<1>9. count'[0] <= Messages
  BY <1>0
<1> QED
  BY <1>4, <1>6, <1>7, <1>8, <1>9 DEF P2pStreamInv

(* Rank 1 receives a message. *)
LEMMA P2pStreamReceive ==
  ASSUME CompareInv, measure \in {5, 6}, Receive(1)
  PROVE  P2pStreamInv'
<1>0. /\ P2pStreamInv /\ Ranks = {0, 1} /\ chan[0] \in Seq(Sent) /\ Other(1) = 0
      /\ count[0] \in Nat /\ got \in Nat /\ Messages \in Nat /\ Measuring(P2pStreams)
  BY PairIs, P2pStreamIs
<1>1. PICK m : m = Head(chan[0])
  OBVIOUS
<1>2. /\ pc[1] = "receive" /\ chan[0] # <<>> /\ Queues(0, Tail(chan[0]))
      /\ UNCHANGED <<stopping, reply>> /\ count' = count
      /\ pc'[1] = IF m = "stop" THEN "answer" ELSE "receive"
      /\ pc'[0] = pc[0]
      /\ got' = IF m = "stop" THEN got ELSE got + 1
  BY <1>0, <1>1, ReceiveIs, MovesIs
<1>3. PICK n \in Nat : n = Len(chan[0])
  BY <1>0, QueueIs
<1>4. /\ n > 0 /\ m = chan[0][1]
      /\ chan'[0] = Tail(chan[0]) /\ chan'[1] = chan[1]
      /\ Tail(chan[0]) \in Seq(Sent)
      /\ Len(chan'[0]) = n - 1
      /\ \A i \in 1..n - 1 : chan'[0][i] = chan[0][i + 1]
  <2>1. chan'[0] = Tail(chan[0]) /\ chan'[1] = chan[1]
    BY <1>0, <1>2 DEF Queues
  <2> QED
    BY <1>0, <1>1, <1>2, <1>3, <2>1, QueueIs
<1>5. chan'[0] = <<>> <=> n = 1
  <2>1. chan'[0] = <<>> <=> Len(chan'[0]) = 0
    BY <1>4, QueueIs
  <2> QED
    BY <1>3, <1>4, <2>1
<1>6. /\ n + got = count[0] + IF pc[0] \in {"posted", "reply"} THEN 1 ELSE 0
      /\ \A i \in 1..n : chan[0][i] = "stop" <=> pc[0] = "reply" /\ i = n
      /\ pc[0] \in {"post", "posted", "reply"} /\ chan[1] = <<>>
  BY <1>0, <1>2, <1>3 DEF P2pStreamInv
<1>7. m = "stop" <=> pc[0] = "reply" /\ n = 1
  <2>1. 1 \in 1..n
    BY <1>3, <1>4
  <2> QED
    BY <1>4, <1>6, <2>1
<1>8. /\ pc'[0] \in {"post", "posted", "reply"}
      /\ pc'[1] \in {"receive", "answer"}
      /\ chan'[1] = <<>>
      /\ count'[0] <= Messages
      /\ pc'[0] = "posted" => count'[0] < Messages
      /\ pc'[0] = "reply" => count'[0] = Messages
  BY <1>0, <1>2, <1>4, <1>6 DEF P2pStreamInv
<1>9. CASE m = "stop"
  <2>1. got = Messages
    <3>1. 1 + got = Messages + 1
      BY <1>6, <1>7, <1>8, <1>9, <1>2
    <3> QED
      BY <1>0, <3>1
  <2> QED
    BY <1>2, <1>5, <1>7, <1>8, <1>9, <2>1 DEF P2pStreamInv
<1>10. CASE m # "stop"
  <2>1. Len(chan'[0]) + got' = count'[0] + IF pc'[0] \in {"posted", "reply"} THEN 1 ELSE 0
    <3>1. got' = got + 1 /\ count'[0] = count[0] /\ pc'[0] = pc[0]
      BY <1>2, <1>10
    <3>2. Len(chan'[0]) + got' = n + got
      <4>1. Len(chan'[0]) = n - 1
        BY <1>4
      <4>2. got \in Nat
        BY <1>0
      <4>3. n - 1 + (got + 1) = n + got
        BY <4>2
      <4> QED
        BY <3>1, <4>1, <4>3
    <3>3. n + got = count'[0] + IF pc'[0] \in {"posted", "reply"} THEN 1 ELSE 0
      BY <1>6, <3>1
    <3> QED
      BY <3>2, <3>3
  <2>2. ASSUME NEW i \in 1..n - 1
        PROVE  chan'[0][i] = "stop" <=> pc'[0] = "reply" /\ i = n - 1
    <3>1. i + 1 \in 1..n /\ (i + 1 = n <=> i = n - 1)
      BY <1>3
    <3> QED
      BY <1>2, <1>4, <1>6, <3>1
  <2>3. \A i \in 1..Len(chan'[0]) :
          chan'[0][i] = "stop" <=> pc'[0] = "reply" /\ i = Len(chan'[0])
    BY <1>4, <2>2
  <2>4. pc'[0] = "reply" => chan'[0] # <<>>
    BY <1>2, <1>5, <1>7, <1>10
  <2> QED
    BY <1>2, <1>8, <1>10, <2>1, <2>3, <2>4 DEF P2pStreamInv
<1> QED
  BY <1>9, <1>10

(* Every step of a point-to-point stream keeps its invariant. *)
LEMMA P2pStreamStep ==
  ASSUME CompareInv, measure \in {5, 6}, Within
  PROVE  P2pStreamInv'
<1>0. /\ P2pStreamInv /\ Ranks = {0, 1} /\ 0 \in Ranks /\ 1 \in Ranks
      /\ Measuring(P2pStreams) /\ ~Measuring(P2pRtts)
      /\ More(0) <=> count[0] < Messages
      /\ count[0] \in Nat /\ got \in Nat /\ Messages \in Nat /\ CompareTypeOK
      /\ Len(chan[0]) \in Nat
      /\ pc[0] \in {"post", "posted", "reply", "barrier"}
      /\ pc[1] \in {"receive", "answer", "barrier"}
  <2>1. /\ pc[0] \in {"post", "posted", "reply", "barrier"}
        /\ pc[1] \in {"receive", "answer", "barrier"}
    BY P2pStreamIs DEF P2pStreamInv
  <2> QED
    BY <2>1, P2pStreamIs
<1>1. ASSUME NEW r \in Ranks, RingWork(r) \/ Transfer(r)
      PROVE  FALSE
  BY <1>0, <1>1 DEF RingWork, Push, Transfer, StartPoll, PollOn, Acknowledge, AfterPoll
<1>2. ASSUME NEW r \in Ranks, Post(r)
      PROVE  P2pStreamInv'
  <2>1. r = 0
    BY <1>0, <1>2 DEF Post
  <2>2. /\ pc[0] = "post" /\ count[0] < Messages /\ pc'[0] = "posted" /\ pc'[1] = pc[1]
        /\ Queues(0, Append(chan[0], "data")) /\ UNCHANGED <<count, got, reply>>
    BY <1>0, <1>2, <2>1, PostIs, MovesIs
  <2> QED
    BY <2>2, P2pStreamPosts
<1>3. ASSUME NEW r \in Ranks, Posted(r)
      PROVE  P2pStreamInv'
  <2>1. r = 0
    BY <1>0, <1>3 DEF Posted
  <2>2. /\ pc[0] = "posted" /\ pc'[0] = "post" /\ pc'[1] = pc[1]
        /\ count' = [count EXCEPT ![0] = @ + 1]
        /\ UNCHANGED <<chan, got, reply>>
    BY <1>0, <1>3, <2>1, PostedIs, MovesIs
  <2>3. count'[0] = count[0] + 1
    BY <1>0, <2>2, CountsUp
  <2>4. /\ pc[1] = "receive" /\ count[0] < Messages /\ chan[1] = <<>>
        /\ Len(chan[0]) + got = count[0] + 1
        /\ \A i \in 1..Len(chan[0]) : chan[0][i] # "stop"
    BY <1>0, <2>2 DEF P2pStreamInv
  <2>5. Len(chan'[0]) + got' = count'[0] + IF pc'[0] \in {"posted", "reply"} THEN 1 ELSE 0
    BY <1>0, <2>2, <2>3, <2>4
  <2>6. count'[0] <= Messages
    BY <1>0, <2>3, <2>4
  <2> QED
    BY <2>2, <2>4, <2>5, <2>6 DEF P2pStreamInv
<1>4. ASSUME NEW r \in Ranks, Receive(r)
      PROVE  P2pStreamInv'
  <2>1. r = 1
    BY <1>0, <1>4 DEF Receive
  <2> QED
    BY <1>4, <2>1, P2pStreamReceive
<1>5. ASSUME SendStop
      PROVE  P2pStreamInv'
  <2>1. /\ pc[0] = "post" /\ ~More(0) /\ pc'[0] = "reply" /\ pc'[1] = pc[1]
        /\ Queues(0, Append(chan[0], "stop")) /\ UNCHANGED <<count, got, reply>>
    BY <1>0, <1>5, SendStopIs, MovesIs
  <2>2. count[0] = Messages
    BY <1>0, <2>1 DEF P2pStreamInv
  <2> QED
    BY <2>1, <2>2, P2pStreamPosts
<1>6. ASSUME Answer
      PROVE  P2pStreamInv'
  <2>1. /\ pc[1] = "answer" /\ pc'[1] = "barrier" /\ pc'[0] = pc[0]
        /\ Queues(1, Append(chan[1], got)) /\ UNCHANGED <<count, got, reply>>
    BY <1>6, AnswerIs, MovesIs
  <2>2. pc[0] = "reply" /\ chan[1] = <<>> /\ chan[0] = <<>> /\ got = Messages
    BY <1>0, <2>1 DEF P2pStreamInv
  <2>3. chan'[1] = <<got>> /\ chan'[0] = <<>>
    BY <1>0, <2>1, <2>2 DEF Queues
  <2> QED
    BY <1>0, <2>1, <2>2, <2>3 DEF P2pStreamInv
<1>7. ASSUME Reply
      PROVE  P2pStreamInv'
  <2>1. /\ pc[0] = "reply" /\ chan[1] # <<>> /\ pc'[0] = "barrier" /\ pc'[1] = pc[1]
        /\ reply' = Head(chan[1]) /\ Queues(1, Tail(chan[1]))
        /\ UNCHANGED <<count, got>>
    BY <1>7, ReplyIs, MovesIs
  <2>2. pc[1] = "barrier" /\ chan[1] = <<got>> /\ chan[0] = <<>> /\ got = Messages
    BY <1>0, <2>1 DEF P2pStreamInv
  <2>3. reply' = got /\ chan'[1] = <<>> /\ chan'[0] = <<>>
    BY <1>0, <2>1, <2>2 DEF Queues
  <2> QED
    BY <1>0, <2>1, <2>2, <2>3 DEF P2pStreamInv
<1>8. Finishing \/ UNCHANGED <<meshVars, pairVars>> =>
        pc' = pc /\ UNCHANGED <<count, got, reply, chan>>
  BY <1>0 DEF Finishing, Dismiss, Dismissed, WorldBarrier, pairVars
<1>9. ASSUME pc' = pc, UNCHANGED <<count, got, reply, chan>>
      PROVE  P2pStreamInv'
  BY <1>0, <1>9 DEF P2pStreamInv
<1> QED
  BY <1>1, <1>2, <1>3, <1>4, <1>5, <1>6, <1>7, <1>8, <1>9 DEF Within, P2pWork, Streaming

-----------------------------------------------------------------------------
(* Point-to-point round trips *)

(* What is known of such round trips. *)
LEMMA P2pRttIs ==
  ASSUME CompareInv, measure = 7
  PROVE  /\ pc[0] \in {"post", "posted", "receive", "barrier"} /\ Rounds(0)
         /\ pc[1] \in {"post", "posted", "receive", "barrier"} /\ Rounds(1)
         /\ Queued(0) = count[0] + Asked - count[1] - Owed
         /\ Queued(1) = count[1] + Repaid - count[0]
         /\ Ranks = {0, 1} /\ CompareTypeOK
         /\ Measuring(P2pRtts) /\ ~Measuring(P2pStreams)
         /\ \A r \in Ranks : More(r) <=> count[r] < Iters
         /\ count[0] \in Nat /\ count[1] \in Nat /\ Iters \in Nat
         /\ Queued(0) \in Nat /\ Queued(1) \in Nat
<1>1. /\ P2pRttInv /\ Ranks = {0, 1} /\ CompareTypeOK
      /\ count[0] \in Nat /\ count[1] \in Nat /\ Iters \in Nat
      /\ chan[0] \in Seq(Sent) /\ chan[1] \in Seq(Sent)
  BY PairIs, PairTypes DEF CompareInv
<1>2. /\ Measuring(P2pRtts) /\ ~Measuring(P2pStreams)
      /\ ~Measuring(RingStreams \cup P2pStreams)
  BY <1>1, MeasuringIs DEF CompareTypeOK
<1>3. \A r \in Ranks : More(r) <=> count[r] < Iters
  BY <1>2 DEF More
<1>4. Queued(0) \in Nat /\ Queued(1) \in Nat
  BY <1>1, QueueIs DEF Queued
<1>5. /\ pc[0] \in {"post", "posted", "receive", "barrier"} /\ Rounds(0)
      /\ pc[1] \in {"post", "posted", "receive", "barrier"} /\ Rounds(1)
      /\ Queued(0) = count[0] + Asked - count[1] - Owed
      /\ Queued(1) = count[1] + Repaid - count[0]
  BY <1>1 DEF P2pRttInv
<1> QED
  BY <1>1, <1>2, <1>3, <1>4, <1>5

(* Posting a message makes one more on its way, receiving one less. *)
LEMMA QueuedIs ==
  ASSUME CompareInv, NEW r \in Ranks
  PROVE  /\ Queues(r, Append(chan[r], "data")) =>
              /\ Queued(r)' = Queued(r) + 1
              /\ \A q \in Ranks \ {r} : Queued(q)' = Queued(q)
         /\ chan[r] # <<>> /\ Queues(r, Tail(chan[r])) =>
              /\ Queued(r)' = Queued(r) - 1
              /\ \A q \in Ranks \ {r} : Queued(q)' = Queued(q)
<1>1. chan[r] \in Seq(Sent) /\ "data" \in Sent
  BY DEF CompareInv, CompareTypeOK, Sent
<1> QED
  BY <1>1, QueueIs DEF Queues, Queued

(* What makes the invariant of these round trips, spelt out for the two. *)
LEMMA P2pRttAgain ==
  ASSUME pc'[0] \in {"post", "posted", "receive", "barrier"}, Rounds(0)',
         pc'[1] \in {"post", "posted", "receive", "barrier"}, Rounds(1)',
         Queued(0)' = (count[0] + Asked - count[1] - Owed)',
         Queued(1)' = (count[1] + Repaid - count[0])'
  PROVE  P2pRttInv'
BY PairIs DEF P2pRttInv

(* Every step of point-to-point round trips keeps their invariant. *)
LEMMA P2pRttStep ==
  ASSUME CompareInv, measure = 7, Within
  PROVE  P2pRttInv'
<1>0. /\ pc[0] \in {"post", "posted", "receive", "barrier"} /\ Rounds(0)
      /\ pc[1] \in {"post", "posted", "receive", "barrier"} /\ Rounds(1)
      /\ Queued(0) = count[0] + Asked - count[1] - Owed
      /\ Queued(1) = count[1] + Repaid - count[0]
      /\ count[0] \in Nat /\ count[1] \in Nat /\ Iters \in Nat
      /\ Queued(0) \in Nat /\ Queued(1) \in Nat
  BY P2pRttIs
<1>1. /\ Ranks = {0, 1} /\ CompareTypeOK /\ 0 \in Ranks /\ 1 \in Ranks
      /\ Other(0) = 1 /\ Other(1) = 0
      /\ Measuring(P2pRtts) /\ ~Measuring(P2pStreams)
      /\ \A r \in Ranks : More(r) <=> count[r] < Iters
  BY P2pRttIs, PairIs
<1>2. ASSUME NEW r \in Ranks, RingWork(r) \/ Transfer(r)
      PROVE  FALSE
  BY <1>0, <1>1, <1>2 DEF RingWork, Push, Transfer, StartPoll, PollOn, Acknowledge, AfterPoll
<1>3. ~Streaming
  <2>1. ~Answer /\ ~Reply
    BY <1>0 DEF Answer, Reply
  <2>2. ~SendStop
    <3> SUFFICES ASSUME SendStop PROVE FALSE
      OBVIOUS
    <3>1. pc[0] = "post" /\ ~More(0)
      BY <1>0 DEF SendStop
    <3>2. ~(count[0] < Iters)
      BY <1>1, <3>1
    <3> QED
      BY <1>0, <3>1, <3>2 DEF Rounds
  <2> QED
    BY <2>1, <2>2 DEF Streaming
<1>4. ASSUME Post(0)
      PROVE  P2pRttInv'
  <2>1. pc[0] = "post" /\ pc'[0] = "posted" /\ pc'[1] = pc[1] /\ count' = count
    BY <1>1, <1>4, PostIs, MovesIs
  <2>2. Queued(0)' = Queued(0) + 1 /\ Queued(1)' = Queued(1)
    BY <1>1, <1>4, PostIs, QueuedIs
  <2>3. Asked = 0 /\ Asked' = 1 /\ Owed' = Owed /\ Repaid' = Repaid
    BY <2>1 DEF Asked, Owed, Repaid
  <2>4. Owed \in Int /\ Repaid \in Int
    BY DEF Owed, Repaid
  <2>5. Rounds(0)' /\ Rounds(1)'
    BY <1>0, <2>1 DEF Rounds
  <2>6. Queued(0)' = (count[0] + Asked - count[1] - Owed)'
    BY <1>0, <2>1, <2>2, <2>3, <2>4
  <2> QED
    BY <1>0, <2>1, <2>2, <2>3, <2>5, <2>6, P2pRttAgain
<1>5. ASSUME Post(1)
      PROVE  P2pRttInv'
  <2>1. pc[1] = "post" /\ pc'[1] = "posted" /\ pc'[0] = pc[0] /\ count' = count
    BY <1>1, <1>5, PostIs, MovesIs
  <2>2. Queued(1)' = Queued(1) + 1 /\ Queued(0)' = Queued(0)
    BY <1>1, <1>5, PostIs, QueuedIs
  <2>3. Repaid = 0 /\ Repaid' = 1 /\ Owed = 1 /\ Owed' = 1 /\ Asked' = Asked
    BY <2>1 DEF Asked, Owed, Repaid
  <2>4. Rounds(0)' /\ Rounds(1)'
    BY <1>0, <2>1 DEF Rounds
  <2>5. Queued(1)' = (count[1] + Repaid - count[0])'
    BY <1>0, <2>1, <2>2, <2>3
  <2>6. Queued(0)' = (count[0] + Asked - count[1] - Owed)'
    BY <1>0, <2>1, <2>2, <2>3
  <2> QED
    BY <1>0, <2>1, <2>4, <2>5, <2>6, P2pRttAgain
<1>6. ASSUME Posted(0)
      PROVE  P2pRttInv'
  <2>1. /\ pc[0] = "posted" /\ pc'[0] = "receive" /\ pc'[1] = pc[1] /\ count' = count
        /\ chan' = chan
    BY <1>1, <1>6, PostedIs, MovesIs
  <2>2. Queued(1)' = Queued(1) /\ Queued(0)' = Queued(0)
    BY <2>1 DEF Queued
  <2>3. Asked = Asked' /\ Owed' = Owed /\ Repaid' = Repaid
    BY <2>1 DEF Asked, Owed, Repaid
  <2>4. Rounds(0)' /\ Rounds(1)'
    BY <1>0, <2>1 DEF Rounds
  <2> QED
    BY <1>0, <2>1, <2>2, <2>3, <2>4, P2pRttAgain
<1>7. ASSUME Posted(1)
      PROVE  P2pRttInv'
  <2>1. /\ pc[1] = "posted" /\ pc'[0] = pc[0] /\ chan' = chan
        /\ pc'[1] = IF count[1] + 1 < Iters THEN "receive" ELSE "barrier"
        /\ count' = [count EXCEPT ![1] = @ + 1]
    BY <1>1, <1>7, PostedIs, MovesIs
  <2>2. count'[1] = count[1] + 1 /\ count'[0] = count[0]
    BY <1>1, <2>1 DEF CompareTypeOK
  <2>3. Queued(1)' = Queued(1) /\ Queued(0)' = Queued(0)
    BY <2>1 DEF Queued
  <2>4. /\ Repaid = 1 /\ Repaid' = 0 /\ Owed = 1 /\ Owed' = 0 /\ Asked' = Asked
        /\ Asked \in Int
    BY <2>1 DEF Asked, Owed, Repaid
  <2>5. Rounds(0)'
    BY <1>0, <2>1, <2>2 DEF Rounds
  <2>6. count[1] < Iters
    BY <1>0, <2>1 DEF Rounds
  <2>7. Rounds(1)'
    BY <1>0, <2>1, <2>2, <2>6 DEF Rounds
  <2>8. Queued(1)' = (count[1] + Repaid - count[0])'
    BY <1>0, <2>2, <2>3, <2>4
  <2>9. Queued(0)' = (count[0] + Asked - count[1] - Owed)'
    BY <1>0, <2>2, <2>3, <2>4
  <2> QED
    BY <1>0, <2>1, <2>5, <2>7, <2>8, <2>9, P2pRttAgain
<1>8. ASSUME Receive(0)
      PROVE  P2pRttInv'
  <2>1. /\ pc[0] = "receive" /\ pc'[1] = pc[1]
        /\ pc'[0] = IF count[0] + 1 < Iters THEN "post" ELSE "barrier"
        /\ count' = [count EXCEPT ![0] = @ + 1]
    BY <1>1, <1>8, ReceiveIs, MovesIs
  <2>2. count'[0] = count[0] + 1 /\ count'[1] = count[1]
    BY <1>1, <2>1 DEF CompareTypeOK
  <2>3. chan[1] # <<>> /\ Queues(1, Tail(chan[1]))
    BY <1>1, <1>8, ReceiveIs
  <2>4. Queued(1)' = Queued(1) - 1 /\ Queued(0)' = Queued(0)
    BY <1>1, <2>3, QueuedIs
  <2>5. /\ Asked = 1 /\ Asked' = 0 /\ Owed' = Owed /\ Repaid' = Repaid
        /\ Owed \in Int /\ Repaid \in Int
    BY <2>1 DEF Asked, Owed, Repaid
  <2>6. Rounds(1)'
    BY <1>0, <2>1, <2>2 DEF Rounds
  <2>7. count[0] < Iters
    BY <1>0, <2>1 DEF Rounds
  <2>8. Rounds(0)'
    BY <1>0, <2>1, <2>2, <2>7 DEF Rounds
  <2>9. Queued(1)' = (count[1] + Repaid - count[0])'
    BY <1>0, <2>2, <2>4, <2>5
  <2>10. Queued(0)' = (count[0] + Asked - count[1] - Owed)'
    BY <1>0, <2>2, <2>4, <2>5
  <2> QED
    BY <1>0, <2>1, <2>6, <2>8, <2>9, <2>10, P2pRttAgain
<1>9. ASSUME Receive(1)
      PROVE  P2pRttInv'
  <2>1. pc[1] = "receive" /\ pc'[0] = pc[0] /\ pc'[1] = "post" /\ count' = count
    BY <1>1, <1>9, ReceiveIs, MovesIs
  <2>2. chan[0] # <<>> /\ Queues(0, Tail(chan[0]))
    BY <1>1, <1>9, ReceiveIs
  <2>3. Queued(0)' = Queued(0) - 1 /\ Queued(1)' = Queued(1)
    BY <1>1, <2>2, QueuedIs
  <2>4. /\ Owed = 0 /\ Owed' = 1 /\ Asked' = Asked /\ Repaid = 0 /\ Repaid' = 0
        /\ Asked \in Int
    BY <2>1 DEF Asked, Owed, Repaid
  <2>5. Rounds(0)'
    BY <1>0, <2>1 DEF Rounds
  <2>6. Rounds(1)'
    BY <1>0, <2>1 DEF Rounds
  <2>7. Queued(0)' = (count[0] + Asked - count[1] - Owed)'
    BY <1>0, <2>1, <2>3, <2>4
  <2>8. Queued(1)' = (count[1] + Repaid - count[0])'
    BY <1>0, <2>1, <2>3, <2>4
  <2> QED
    BY <1>0, <2>1, <2>5, <2>6, <2>7, <2>8, P2pRttAgain
<1>10. Finishing \/ UNCHANGED <<meshVars, pairVars>> => pc' = pc /\ UNCHANGED <<count, chan>>
  BY <1>0, <1>1 DEF Finishing, Dismiss, Dismissed, WorldBarrier, pairVars
<1>11. ASSUME pc' = pc, UNCHANGED <<count, chan>>
       PROVE  P2pRttInv'
  <2>1. /\ Queued(0)' = Queued(0) /\ Queued(1)' = Queued(1)
        /\ Asked' = Asked /\ Owed' = Owed /\ Repaid' = Repaid
    BY <1>11 DEF Queued, Asked, Owed, Repaid
  <2>2. Rounds(0)' /\ Rounds(1)'
    BY <1>0, <1>11 DEF Rounds
  <2> QED
    BY <1>0, <1>11, <2>1, <2>2, P2pRttAgain
<1>12. ASSUME NEW r \in Ranks, P2pWork(r)
       PROVE  P2pRttInv'
  BY <1>1, <1>4, <1>5, <1>6, <1>7, <1>8, <1>9, <1>12 DEF P2pWork
<1> QED
  BY <1>2, <1>3, <1>10, <1>11, <1>12 DEF Within

-----------------------------------------------------------------------------
(* After the last measurement *)

(* The pair ends in order. *)
LEMMA LastStep ==
  ASSUME CompareInv, measure = 8, Within
  PROVE  pc'[0] \in {"dismiss", "world", "end"} /\ pc'[1] \in {"world", "end"}
<1>0. /\ pc[0] \in {"dismiss", "world", "end"} /\ pc[1] \in {"world", "end"}
      /\ Ranks = {0, 1}
  BY PairIs DEF CompareInv
<1>1. ASSUME NEW r \in Ranks, RingWork(r) \/ Transfer(r) \/ P2pWork(r)
      PROVE  FALSE
  BY <1>0, <1>1 DEF RingWork, Push, Transfer, StartPoll, PollOn, Acknowledge, AfterPoll,
                    P2pWork, Post, Posted, Receive
<1>2. ~Streaming
  BY <1>0 DEF Streaming, SendStop, Answer, Reply
<1>3. Finishing => pc'[0] \in {"dismiss", "world", "end"} /\ pc'[1] \in {"world", "end"}
  BY <1>0, FinishingIs, MovesIs
<1>4. UNCHANGED <<meshVars, pairVars>> => pc' = pc
  BY DEF pairVars
<1> QED
  BY <1>0, <1>1, <1>2, <1>3, <1>4 DEF Within

-----------------------------------------------------------------------------
(* From one measurement to the next *)

(* Where a measurement starts. *)
LEMMA OpeningIs ==
  ASSUME NEW k \in 1..7
  PROVE  LET start == Opening(Measures[k])
         IN  /\ start \in [Ranks -> Stages]
             /\ k \in 1..4 => start[0] = "push" /\ start[1] = "await"
             /\ k \in 5..7 => start[0] = "post" /\ start[1] = "receive"
<1>1. /\ k \in 1..4 => Measures[k] \in RingStreams \cup RingRtts
      /\ k \in 5..7 => Measures[k] \notin RingStreams \cup RingRtts
  <2>1. k \in {1, 2, 3, 4, 5, 6, 7}
    OBVIOUS
  <2> QED
    BY <2>1 DEF Measures, RingStreams, RingRtts
<1> PICK name : name = Measures[k]
  OBVIOUS
<1>2. Ranks = {0, 1} /\ 0 \in Ranks /\ 1 \in Ranks /\ 0 # 1
  BY PairIs
<1>3. CASE k \in 1..4
  <2>1. Opening(name) = [r \in Ranks |-> IF r = 0 THEN "push" ELSE "await"]
    BY <1>1, <1>3 DEF Opening
  <2> QED
    BY <1>2, <1>3, <2>1 DEF Stages, RingStages
<1>4. CASE k \in 5..7
  <2>1. Opening(name) = [r \in Ranks |-> IF r = 0 THEN "post" ELSE "receive"]
    BY <1>1, <1>4 DEF Opening
  <2> QED
    BY <1>2, <1>4, <2>1 DEF Stages
<1> QED
  BY <1>3, <1>4

(* A stream over a new ring starts. *)
Starts(mode) ==
  /\ Fresh(mode) /\ measure = IF mode THEN 1 ELSE 3
  /\ pc = Opening(Measures[measure])
  /\ count = [r \in Ranks |-> 0] /\ got = 0 /\ stopping = FALSE
  /\ chan = [r \in Ranks |-> <<>>]

(* The invariant holds there. *)
LEMMA StartsRight == \A mode \in BOOLEAN : Starts(mode) => CompareInv
<1> SUFFICES ASSUME NEW mode \in BOOLEAN, Starts(mode) PROVE CompareInv
  OBVIOUS
<1>0. Fresh(mode) /\ measure = IF mode THEN 1 ELSE 3
  BY DEF Starts
<1>1. /\ measure \in {1, 3}
      /\ Ranks = {0, 1} /\ 0 \in Ranks /\ 1 \in Ranks
      /\ Forth \in Lanes /\ Back \in Lanes
      /\ Messages \in Nat \ {0}
      /\ \A r \in Ranks : Out(r) \in Lanes
  BY <1>0, PairIs
<1>2. /\ pc \in [Ranks -> Stages] /\ pc[0] = "push" /\ pc[1] = "await"
  BY <1>1, OpeningIs DEF Starts
<1>3. /\ count \in [Ranks -> Nat] /\ count[0] = 0 /\ got = 0 /\ stopping = FALSE
      /\ chan \in [Ranks -> Seq(Sent)] /\ chan[0] = <<>> /\ chan[1] = <<>>
  BY <1>1 DEF Starts
<1>4. /\ \A l \in Lanes : sent[l] = 0 /\ seen[l] = 0 /\ ~flying[l] /\ taken[l] = <<>>
      /\ \A r \in Ranks : lost[r] = 0 /\ poll[r] = IdlePoll(<<>>)
      /\ safe = mode
  BY <1>0, <1>1 DEF Fresh, Zero
<1>5. \A r \in Ranks : poll[r].pc = "idle" /\ poll[r].batch = <<>>
  BY <1>4 DEF IdlePoll, FreshPoll
<1>6. MeshInv /\ RingAccounted
  BY <1>0, FreshInv, FreshAccounted
<1>7. CompareTypeOK
  <2>1. measure \in 1..8
    BY <1>1
  <2>2. stopping \in BOOLEAN
    BY <1>3
  <2> QED
    BY <1>2, <1>3, <2>1, <2>2 DEF CompareTypeOK, Sent
<1>8. \A r \in Ranks : Calls(r)
  BY <1>1, <1>2, <1>4, <1>5 DEF Calls
<1>9. RingOK
  <2>1. /\ measure \in {1, 2} => safe
        /\ measure \in {3, 4} => ~safe
    BY <1>0, <1>1, <1>4
  <2> QED
    BY <1>4, <1>6, <1>8, <2>1 DEF RingOK
<1>10. StreamInv
  <2>1. Streamed
    BY <1>1, <1>2, <1>3, <1>4 DEF Streamed
  <2>2. Stopped
    BY <1>1, <1>2, <1>3 DEF Stopped
  <2>3. Drains
    <3>1. Len(taken[Forth]) = 0
      BY <1>1, <1>4, EmptySeq
    <3> QED
      BY <1>2, <1>3, <3>1 DEF Drains
  <2> QED
    BY <2>1, <2>2, <2>3 DEF StreamInv
<1> QED
  BY <1>1, <1>7, <1>9, <1>10 DEF CompareInv

(* So it holds first, *)
LEMMA CompareInitInv == CompareInit => CompareInv
<1>1. CompareInit => Starts(TRUE)
  BY DEF CompareInit, Starts
<1> QED
  BY <1>1, StartsRight

(* and whenever a new ring is made. *)
LEMMA BarrierRenews ==
  ASSUME CompareInv, Barrier, measure = 2
  PROVE  CompareInv'
<1>1. measure' = 3 /\ 3 \in DOMAIN Measures /\ Measures[3] \in RingStreams
      /\ Measures[3] # "safe_stream"
  BY DEF Barrier, Measures, RingStreams
<1>2. Renew(FALSE)
  BY <1>1 DEF Barrier
<1>3. Fresh(FALSE)'
  BY <1>2 DEF Renew, Fresh, Zero, IdlePoll, FreshPoll, IdleAck
<1>4. chan = [r \in Ranks |-> <<>>]
  <2>1. RttInv /\ CompareTypeOK
    BY DEF CompareInv
  <2>2. \A r \in Ranks : chan[r] = <<>>
    BY <2>1 DEF RttInv, Tripped
  <2> QED
    BY <2>1, <2>2 DEF CompareTypeOK
<1>5. Starts(FALSE)'
  <2>1. pc' = Opening(Measures[measure'])
    BY <1>1 DEF Barrier
  <2>2. /\ count' = [r \in Ranks |-> 0] /\ got' = 0 /\ stopping' = FALSE
        /\ chan' = [r \in Ranks |-> <<>>]
    BY <1>4 DEF Barrier
  <2> QED
    BY <1>1, <1>3, <2>1, <2>2 DEF Starts
<1>6. (\A mode \in BOOLEAN : Starts(mode) => CompareInv)'
  BY StartsRight, PTL
<1> QED
  BY <1>5, <1>6

(* Otherwise the next measurement goes on with the ring as it is. *)
LEMMA BarrierKeeps ==
  ASSUME CompareInv, Barrier, measure # 2, MeshInv', RingAccounted'
  PROVE  /\ measure \in {1, 3, 4, 5, 6, 7} /\ measure' = measure + 1
         /\ pc[0] = "barrier" /\ pc[1] = "barrier"
         /\ poll[0].pc = "idle" /\ poll[1].pc = "idle"
         /\ poll[0].batch = <<>> /\ poll[1].batch = <<>>
         /\ count'[0] = 0 /\ count'[1] = 0 /\ got' = 0
         /\ chan' = chan /\ UNCHANGED meshVars
         /\ measure \in {1, 3} => pc'[0] = "push" /\ pc'[1] = "await"
         /\ measure \in {4, 5, 6} => pc'[0] = "post" /\ pc'[1] = "receive"
         /\ measure = 7 => pc'[0] = "dismiss" /\ pc'[1] = "world"
         /\ RingOK' /\ CompareTypeOK'
<1>0. /\ CompareTypeOK /\ RingOK /\ Calls(0) /\ Calls(1) /\ Ranks = {0, 1}
      /\ 0 \in Ranks /\ 1 \in Ranks
  BY PairIs DEF CompareInv, RingOK
<1>1. DOMAIN Measures = 1..7
  BY DEF Measures
<1>2. measure \in {1, 3, 4, 5, 6, 7} /\ measure' = measure + 1
  BY <1>1 DEF Barrier
<1>3. pc[0] = "barrier" /\ pc[1] = "barrier"
  BY <1>0 DEF Barrier, PairArrived
<1>4. /\ poll[0].pc = "idle" /\ poll[1].pc = "idle"
      /\ poll[0].batch = <<>> /\ poll[1].batch = <<>>
      /\ ~flying[Out(0)] /\ ~flying[Out(1)]
  BY <1>0, <1>3 DEF Calls
<1>5. /\ count' = [r \in Ranks |-> 0] /\ got' = 0 /\ stopping' = FALSE
      /\ chan' = chan
      /\ pc' = IF measure' \in DOMAIN Measures THEN Opening(Measures[measure'])
               ELSE [r \in Ranks |-> IF r = 0 THEN "dismiss" ELSE "world"]
  BY DEF Barrier
<1>6. UNCHANGED meshVars
  <2>1. measure' \in DOMAIN Measures => Measures[measure'] \notin RingStreams
    BY <1>2 DEF Measures, RingStreams
  <2> QED
    BY <2>1 DEF Barrier
<1>7. /\ pc' \in [Ranks -> Stages]
      /\ measure \in {1, 3} => pc'[0] = "push" /\ pc'[1] = "await"
      /\ measure \in {4, 5, 6} => pc'[0] = "post" /\ pc'[1] = "receive"
      /\ measure = 7 => pc'[0] = "dismiss" /\ pc'[1] = "world"
  <2>1. CASE measure = 7
    <3>1. pc' = [r \in Ranks |-> IF r = 0 THEN "dismiss" ELSE "world"]
      BY <1>1, <1>2, <1>5, <2>1
    <3> QED
      BY <1>0, <2>1, <3>1 DEF Stages
  <2>2. CASE measure # 7
    <3>1. pc' = Opening(Measures[measure']) /\ measure' \in 1..7
      BY <1>1, <1>2, <1>5, <2>2
    <3>2. /\ measure \in {1, 3} => measure' \in 1..4
          /\ measure \in {4, 5, 6} => measure' \in 5..7
      BY <1>2
    <3> QED
      BY <2>2, <3>1, <3>2, OpeningIs
  <2> QED
    BY <2>1, <2>2
<1>8. CompareTypeOK'
  <2>1. measure' \in 1..8 /\ got' \in Nat
    BY <1>2, <1>5
  <2>2. stopping' \in BOOLEAN
    BY <1>5
  <2>3. count' \in [Ranks -> Nat]
    BY <1>5
  <2> QED
    BY <1>0, <1>5, <1>7, <2>1, <2>2, <2>3 DEF CompareTypeOK
<1>9. /\ safe' = safe /\ lost' = lost /\ poll' = poll /\ flying' = flying
  BY <1>6 DEF meshVars, sendVars, recvVars
<1>10. \A r \in Ranks : Calls(r)'
  BY <1>0, <1>2, <1>4, <1>7, <1>9 DEF Calls, Out, Other
<1>11. RingOK'
  <2>1. /\ measure' \in {1, 2} => measure = 1
        /\ measure' \in {3, 4} => measure = 3
    BY <1>2
  <2> QED
    BY <1>0, <1>9, <1>10, <2>1 DEF RingOK
<1>12. count'[0] = 0 /\ count'[1] = 0
  BY <1>0, <1>5
<1> QED
  BY <1>2, <1>3, <1>4, <1>5, <1>6, <1>7, <1>8, <1>11, <1>12

(* The round trips after a stream start with nothing in the ring. *)
LEMMA BarrierToRtt ==
  ASSUME CompareInv, Barrier, measure \in {1, 3}, MeshInv', RingAccounted'
  PROVE  RttInv'
<1>0. /\ StreamInv /\ Ranks = {0, 1} /\ Messages \in Nat \ {0} /\ Iters \in Nat \ {0}
      /\ taken[Forth] \in Seq(Nat)
  BY PairIs, PairTypes DEF CompareInv
<1>1. /\ pc[0] = "barrier" /\ pc[1] = "barrier"
      /\ poll[0].pc = "idle" /\ poll[1].pc = "idle"
      /\ poll[0].batch = <<>> /\ poll[1].batch = <<>>
      /\ count'[0] = 0 /\ count'[1] = 0
      /\ chan' = chan /\ UNCHANGED meshVars
      /\ pc'[0] = "push" /\ pc'[1] = "await"
  BY BarrierKeeps
<1>2. /\ sent' = sent /\ seen' = seen /\ lost' = lost /\ taken' = taken /\ poll' = poll
  BY <1>1 DEF meshVars, sendVars, recvVars
<1>3. /\ sent[Forth] = Messages /\ sent[Back] = 0 /\ seen[Forth] = Messages
      /\ seen[Back] = 0 /\ taken[Back] = <<>> /\ lost[0] = 0
  BY <1>0, <1>1 DEF StreamInv, Streamed, Drains, CaughtUp
<1>4. chan[0] = <<>> /\ chan[1] = <<>>
  BY <1>0, <1>1 DEF StreamInv, Stopped
<1>5. Holding(0)' = 0 /\ Holding(1)' = 0 /\ Unanswered' = 0 /\ Answering' = 0
  <2>1. Len(<<>>) = 0
    OBVIOUS
  <2> QED
    BY <1>1, <1>2, <2>1 DEF Holding, Unanswered, Answering
<1>6. Tripped'
  <2>1. ASSUME NEW r \in Ranks
        PROVE  /\ pc'[r] \in RingStages \cup {"barrier"} /\ Rounds(r)'
               /\ chan'[r] = <<>> /\ poll'[r].pc \in {"idle", "lane"}
    BY <1>0, <1>1, <1>2, <1>4 DEF RingStages, Rounds
  <2> QED
    BY <1>0, <1>1, <1>2, <1>3, <1>5, <2>1 DEF Tripped
<1>7. Fetched'
  <2>1. Len(taken[Back]) = 0 /\ Len(taken[Forth]) \in Nat
    BY <1>0, <1>3
  <2>2. EndsWith(taken[Forth], 0, Messages)
    BY <2>1 DEF EndsWith
  <2>3. seen'[Forth] - Messages = 0
    BY <1>0, <1>2, <1>3
  <2> QED
    BY <1>2, <1>3, <2>1, <2>2, <2>3 DEF Fetched
<1> QED
  BY <1>6, <1>7 DEF RttInv

(* The point-to-point measurements start with no message on its way. *)
LEMMA BarrierToP2p ==
  ASSUME CompareInv, Barrier, measure \in {4, 5, 6}, MeshInv', RingAccounted'
  PROVE  /\ measure \in {4, 5} => P2pStreamInv'
         /\ measure = 6 => P2pRttInv'
<1>0. /\ Ranks = {0, 1} /\ Messages \in Nat \ {0} /\ Iters \in Nat \ {0}
      /\ measure = 4 => RttInv
      /\ measure \in {5, 6} => P2pStreamInv
  BY PairIs DEF CompareInv
<1>1. /\ pc[0] = "barrier" /\ pc[1] = "barrier"
      /\ count'[0] = 0 /\ count'[1] = 0 /\ got' = 0 /\ chan' = chan
      /\ pc'[0] = "post" /\ pc'[1] = "receive"
  BY BarrierKeeps
<1>2. chan[0] = <<>> /\ chan[1] = <<>>
  <2>1. CASE measure = 4
    BY <1>0, <2>1 DEF RttInv, Tripped
  <2>2. CASE measure \in {5, 6}
    BY <1>0, <1>1, <2>2 DEF P2pStreamInv
  <2> QED
    BY <2>1, <2>2
<1>3. Len(chan'[0]) = 0 /\ Len(chan'[1]) = 0
  BY <1>1, <1>2
<1>4. P2pStreamInv'
  BY <1>0, <1>1, <1>2, <1>3 DEF P2pStreamInv
<1>5. P2pRttInv'
  <2>1. /\ Queued(0)' = 0 /\ Queued(1)' = 0 /\ Asked' = 0 /\ Owed' = 0 /\ Repaid' = 0
    BY <1>1, <1>3 DEF Queued, Asked, Owed, Repaid
  <2>2. Rounds(0)' /\ Rounds(1)'
    BY <1>0, <1>1 DEF Rounds
  <2> QED
    BY <1>1, <2>1, <2>2, P2pRttAgain
<1> QED
  BY <1>4, <1>5

(* The barrier keeps the invariant. *)
LEMMA BarrierStep ==
  ASSUME CompareInv, Barrier, MeshInv', RingAccounted'
  PROVE  CompareInv'
<1>1. CASE measure = 2
  BY <1>1, BarrierRenews
<1>2. CASE measure # 2
  <2>1. /\ measure \in {1, 3, 4, 5, 6, 7} /\ measure' = measure + 1
        /\ measure = 7 => pc'[0] = "dismiss" /\ pc'[1] = "world"
        /\ RingOK' /\ CompareTypeOK'
    BY <1>2, BarrierKeeps
  <2>2. measure \in {1, 3} => RttInv'
    BY BarrierToRtt
  <2>3. /\ measure \in {4, 5} => P2pStreamInv'
        /\ measure = 6 => P2pRttInv'
    BY BarrierToP2p
  <2>4. /\ measure' \in {2, 4} => measure \in {1, 3}
        /\ measure' \in {5, 6} => measure \in {4, 5}
        /\ measure' = 7 => measure = 6
        /\ measure' = 8 => measure = 7
        /\ measure' \notin {1, 3}
    BY <2>1
  <2> QED
    BY <2>1, <2>2, <2>3, <2>4 DEF CompareInv
<1> QED
  BY <1>1, <1>2

-----------------------------------------------------------------------------
(* The theorems *)

(* Every step of the program keeps the invariant. *)
LEMMA CompareStepInv ==
  ASSUME CompareInv, [CompareNext]_compareVars
  PROVE  CompareInv'
<1>1. MeshInv' /\ RingAccounted' /\ errors' = {} /\ errors = {}
  BY CompareKeepsMesh
<1>2. ASSUME Within
      PROVE  CompareInv'
  <2>1. RingOK' /\ CompareTypeOK' /\ measure' = measure
    BY <1>1, <1>2, WithinRingOK
  <2>2. /\ measure \in {1, 3} => StreamInv'
        /\ measure \in {2, 4} => RttInv'
    BY <1>1, <1>2, StreamStep, RttStep
  <2>3. /\ measure \in {5, 6} => P2pStreamInv'
        /\ measure = 7 => P2pRttInv'
    BY <1>2, P2pStreamStep, P2pRttStep
  <2>4. measure = 8 => pc'[0] \in {"dismiss", "world", "end"} /\ pc'[1] \in {"world", "end"}
    BY <1>2, LastStep
  <2> QED
    BY <2>1, <2>2, <2>3, <2>4 DEF CompareInv
<1>3. Barrier => CompareInv'
  BY <1>1, BarrierStep
<1> QED
  BY <1>2, <1>3, StepsAre

(* Whatever the depths and the numbers of messages and rounds, the counts  *)
(* of the two ranks, the cursors of the ring and the point-to-point        *)
(* messages on their way agree in every measurement.                       *)
THEOREM CompareInvariant == CompareSpec => []CompareInv
<1>1. CompareInit => CompareInv
  BY CompareInitInv
<1>2. CompareInv /\ [CompareNext]_compareVars => CompareInv'
  BY CompareStepInv
<1> QED
  BY <1>1, <1>2, PTL DEF CompareSpec

(* The total over one lane. *)
LEMMA TotalOfOne ==
  ASSUME NEW l, NEW f, f[l] \in Int
  PROVE  Total(f, {l}) = f[l]
<1> DEFINE none == [x \in {l} |-> 0]
<1>1. IsFiniteSet({l}) /\ l \in {l} /\ none[l] = 0
  BY FS_Singleton
<1> HIDE DEF none
<1>2. Total(none, {l}) = 0
  BY <1>1, TotalZero
<1>3. /\ \A x \in {l} : none[x] \in Int /\ f[x] \in Int
      /\ \A x \in {l} \ {l} : f[x] = none[x]
  BY <1>1
<1>4. Total(f, {l}) = Total(none, {l}) + (f[l] - none[l])
  BY <1>1, <1>3, TotalMoves
<1> QED
  BY <1>1, <1>2, <1>4

(* What rank 1 took and what it lost are what its cursor passed. *)
LEMMA ForthAccounted ==
  ASSUME CompareInv
  PROVE  lost[1] \in Int /\ lost[1] + Len(taken[Forth]) = seen[Forth]
<1>1. RingAccounted /\ TypeOK /\ 1 \in Ranks /\ Forth \in Lanes /\ Incoming(1) = {Forth}
  BY PairIs, PairTypes DEF CompareInv, RingOK
<1> DEFINE lengths == [l \in Lanes |-> Len(taken[l])]
<1>2. lost[1] + Total(lengths, {Forth}) = Total(seen, {Forth})
  BY <1>1 DEF RingAccounted
<1>3. lengths[Forth] = Len(taken[Forth]) /\ lengths[Forth] \in Int /\ seen[Forth] \in Int
  BY <1>1 DEF TypeOK
<1> HIDE DEF lengths
<1>4. Total(lengths, {Forth}) = lengths[Forth] /\ Total(seen, {Forth}) = seen[Forth]
  BY <1>3, TotalOfOne
<1>5. lost[1] \in Int
  BY <1>1 DEF TypeOK
<1> QED
  BY <1>2, <1>3, <1>4, <1>5

(* The row of a stream is true of what was taken off the ring. *)
LEMMA StreamRowTrue == CompareInv => StreamRow
<1> SUFFICES ASSUME CompareInv, pc[0] = "barrier", Measuring(RingStreams \cup P2pStreams)
             PROVE  /\ ~Measuring({"raw_stream"}) => reply = Messages
                    /\ Measuring({"raw_stream"}) => reply + lost[1] = Messages
  BY DEF StreamRow
<1>1. /\ measure \in {1, 3, 5, 6} /\ (Measuring({"raw_stream"}) <=> measure = 3)
      /\ Messages \in Nat
  BY MeasuringIs, PairTypes DEF CompareTypeOK
<1>2. CASE measure \in {1, 3}
  <2>1. StreamInv /\ poll[1].batch \in Seq(MessageRecords)
    BY <1>2, PairTypes DEF CompareInv
  <2>2. pc[1] = "barrier" /\ reply = got
    BY <2>1 DEF StreamInv, Stopped
  <2>3. got + 0 = Len(taken[Forth]) /\ seen[Forth] = Messages
    BY <2>1, <2>2 DEF StreamInv, Streamed, Drains, CaughtUp
  <2>4. got \in Nat /\ lost[1] \in Int /\ lost[1] + Len(taken[Forth]) = seen[Forth]
    BY PairTypes, ForthAccounted
  <2>5. reply + lost[1] = Messages
    BY <2>2, <2>3, <2>4
  <2>6. measure = 1 => lost[1] = 0
    BY PairIs DEF CompareInv, RingOK
  <2> QED
    BY <1>1, <1>2, <2>2, <2>4, <2>5, <2>6
<1>3. CASE measure \in {5, 6}
  <2>1. reply = got /\ got = Messages
    BY <1>3 DEF CompareInv, P2pStreamInv
  <2> QED
    BY <1>1, <1>3, <2>1
<1> QED
  BY <1>1, <1>2, <1>3

(* What holds when both ranks have made their round trips. *)
LEMMA TripsMade ==
  ASSUME CompareInv, PairArrived, measure \in {2, 4}
  PROVE  /\ Fetched /\ chan[0] = <<>> /\ chan[1] = <<>>
         /\ sent[Forth] = Messages + Iters /\ seen[Forth] = Messages + Iters
         /\ sent[Back] = Iters /\ seen[Back] = Iters
<1>1. /\ RttInv /\ Ranks = {0, 1} /\ Calls(0) /\ Calls(1)
      /\ Messages \in Nat /\ Iters \in Nat
  BY PairIs, PairTypes DEF CompareInv
<1>2. pc[0] = "barrier" /\ pc[1] = "barrier"
  BY <1>1 DEF PairArrived
<1>3. poll[0].batch = <<>> /\ poll[1].batch = <<>>
  BY <1>1, <1>2 DEF Calls
<1>4. Holding(0) = 0 /\ Holding(1) = 0 /\ Unanswered = 0 /\ Answering = 0
  BY <1>2, <1>3 DEF Holding, Unanswered, Answering
<1>5. count[0] = Iters /\ count[1] = Iters
  BY <1>1, <1>2 DEF RttInv, Tripped, Rounds
<1>6. /\ Fetched /\ chan[0] = <<>> /\ chan[1] = <<>>
      /\ sent[Forth] = Messages + count[0] + Unanswered
      /\ seen[Back] = count[0] + Holding(0)
      /\ sent[Back] = count[1]
      /\ seen[Forth] = Messages + count[1] + Holding(1) + Answering
  BY <1>1 DEF RttInv, Tripped
<1> QED
  BY <1>1, <1>4, <1>5, <1>6

(* The row of round trips is of the messages it is meant for. *)
LEMMA RttRowTrue == CompareInv => RttRow
<1> SUFFICES ASSUME CompareInv, PairArrived, Measuring(RingRtts)
             PROVE  /\ taken[Back] = [i \in 1..Iters |-> i]
                    /\ \A i \in 1..Iters :
                         taken[Forth][Len(taken[Forth]) - Iters + i] = Messages + i
                    /\ lost[0] = 0 /\ seen[Forth] = Messages + Iters
  BY DEF RttRow, Forth, Back
<1>1. measure \in {2, 4} /\ taken[Back] \in Seq(Nat) /\ Messages \in Nat /\ Iters \in Nat
  BY MeasuringIs, PairTypes DEF CompareTypeOK
<1>2. Fetched /\ seen[Forth] = Messages + Iters /\ seen[Back] = Iters
  BY <1>1, TripsMade
<1>3. seen[Forth] - Messages = Iters
  BY <1>1, <1>2
<1>4. /\ lost[0] = 0 /\ Len(taken[Back]) = Iters
      /\ \A i \in 1..Iters : taken[Back][i] = i
      /\ EndsWith(taken[Forth], Iters, Messages)
  BY <1>2, <1>3 DEF Fetched
<1>5. taken[Back] = [i \in 1..Iters |-> i]
  <2>1. taken[Back] = [i \in 1..Len(taken[Back]) |-> taken[Back][i]]
    BY <1>1
  <2> QED
    BY <1>4, <2>1
<1> QED
  BY <1>2, <1>4, <1>5 DEF EndsWith

(* Whatever the depths and the numbers of messages and rounds, no rank     *)
(* panics and every row printed is true: a stream delivered everything or, *)
(* on a raw ring only, lost the rest, and each round trip was of the       *)
(* message it was meant for.                                               *)
THEOREM RowsTrueTheorem == CompareSpec => []RowsTrue
<1>1. CompareInv => \A r \in Ranks : pc[r] # "failed"
  BY DEF CompareInv, CompareTypeOK, Stages, RingStages
<1>2. CompareInv => RowsTrue
  BY <1>1, StreamRowTrue, RttRowTrue DEF RowsTrue
<1> QED
  BY <1>2, CompareInvariant, PTL

(* A measurement leaves no message for the next one, on its way or in the  *)
(* ring: waiting for the count of the receiver drains a stream.            *)
LEMMA NothingLeft == CompareInv => NothingLeftOver
<1> SUFFICES ASSUME CompareInv, PairArrived
             PROVE  (\A r \in Ranks : chan[r] = <<>>) /\ (OnRing => seen = sent)
  BY DEF NothingLeftOver
<1>1. /\ measure \in 1..8 /\ Ranks = {0, 1} /\ TypeOK /\ Lanes = {Forth, Back}
      /\ OnRing <=> measure \in {1, 2, 3, 4}
  BY PairIs, PairTypes, MeasuringIs DEF CompareTypeOK
<1>2. pc[0] = "barrier" /\ pc[1] = "barrier"
  BY <1>1 DEF PairArrived
<1>3. ASSUME seen[Forth] = sent[Forth], seen[Back] = sent[Back]
      PROVE  seen = sent
  BY <1>1, <1>3 DEF TypeOK
<1>4. CASE measure \in {1, 3}
  <2>1. StreamInv
    BY <1>4 DEF CompareInv
  <2>2. chan[0] = <<>> /\ chan[1] = <<>>
    BY <1>2, <2>1 DEF StreamInv, Stopped
  <2>3. seen[Forth] = sent[Forth] /\ seen[Back] = sent[Back]
    BY <1>2, <2>1 DEF StreamInv, Streamed, Drains, CaughtUp
  <2> QED
    BY <1>1, <1>3, <2>2, <2>3
<1>5. CASE measure \in {2, 4}
  BY <1>1, <1>3, <1>5, TripsMade
<1>6. CASE measure \in {5, 6}
  BY <1>1, <1>2, <1>6 DEF CompareInv, P2pStreamInv
<1>7. CASE measure = 7
  <2>1. /\ Rounds(0) /\ Rounds(1)
        /\ Queued(0) = count[0] + Asked - count[1] - Owed
        /\ Queued(1) = count[1] + Repaid - count[0]
        /\ Iters \in Nat
    BY <1>7, P2pRttIs
  <2>2. count[0] = Iters /\ count[1] = Iters
    BY <1>2, <2>1 DEF Rounds
  <2>3. Asked = 0 /\ Owed = 0 /\ Repaid = 0
    BY <1>2 DEF Asked, Owed, Repaid
  <2>4. Queued(0) = 0 /\ Queued(1) = 0
    BY <2>1, <2>2, <2>3
  <2>5. chan[0] = <<>> /\ chan[1] = <<>>
    BY <2>4, PairTypes, QueueIs DEF Queued
  <2> QED
    BY <1>1, <1>7, <2>5
<1>8. measure # 8
  BY <1>2 DEF CompareInv
<1>9. measure \in {1, 3} \/ measure \in {2, 4} \/ measure \in {5, 6} \/ measure = 7
  BY <1>1, <1>8
<1> QED
  BY <1>4, <1>5, <1>6, <1>7, <1>9

(* So the comment in p2p_stream, that waiting for the count drains the     *)
(* queue, holds for every number of messages, and so does its counterpart  *)
(* for a ring of any depth.                                                *)
THEOREM NothingLeftOverTheorem == CompareSpec => []NothingLeftOver
BY NothingLeft, CompareInvariant, PTL

=============================================================================
