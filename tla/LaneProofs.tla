----------------------------- MODULE LaneProofs -----------------------------
(***************************************************************************)
(* Theorems about Lane, for every depth, number of sequences and payload:  *)
(* what is whole, what is delivered and in what order, and what memory     *)
(* holds; then about LaneFaults, when MPI calls fail any number of times.  *)
(***************************************************************************)
EXTENDS LaneFaults, SequenceTheorems, TLAPS

-----------------------------------------------------------------------------
(* Positions *)

(* Every sequence occupies a position of the lane. *)
LEMMA PositionInLane ==
  ASSUME NEW s \in SeqNums
  PROVE  Position(s) \in Positions
BY LaneAssumption DEF Position, Positions, SeqNums

(* Two sequences that share a position are at least Depth apart: the slot  *)
(* of s was last used by s - Depth.                                        *)
LEMMA SharedPosition ==
  ASSUME NEW a \in SeqNums, NEW b \in SeqNums,
         a < b, Position(a) = Position(b)
  PROVE  b >= a + Depth
<1> DEFINE p == (a - 1) % Depth
           j == (a - 1) \div Depth
           k == (b - 1) \div Depth
<1>1. Depth \in Nat /\ Depth > 0
  BY LaneAssumption
<1>2. a - 1 = Depth * j + p /\ b - 1 = Depth * k + p
  BY <1>1 DEF Position, SeqNums
<1>3. j \in Int /\ k \in Int /\ p \in Int
  BY <1>1 DEF SeqNums
<1>4. b - a = Depth * (k - j)
  BY <1>1, <1>2, <1>3 DEF SeqNums
<1>5. k - j >= 1
  BY <1>1, <1>3, <1>4 DEF SeqNums
<1>6. Depth * (k - j) >= Depth
  BY <1>1, <1>3, <1>5
<1> QED
  BY <1>1, <1>3, <1>4, <1>6 DEF SeqNums

(* Appending to the second of two sequences appends to their concatenation. *)
LEMMA ConcatThenAppend ==
  ASSUME NEW S, NEW s \in Seq(S), NEW t \in Seq(S), NEW m \in S
  PROVE  s \o Append(t, m) = Append(s \o t, m)
<1>1. <<m>> \in Seq(S) /\ s \o t \in Seq(S)
  BY ConcatProperties
<1>2. Append(t, m) = t \o <<m>> /\ Append(s \o t, m) = (s \o t) \o <<m>>
  BY <1>1, AppendIsConcat
<1> QED
  BY <1>1, <1>2, ConcatAssociative

-----------------------------------------------------------------------------
(* The invariant behind type correctness and Intact.  A checksum found     *)
(* anywhere in memory was computed by a send, over a sequence whose log    *)
(* entry can no longer change: a copy that matches its own checksum is     *)
(* therefore a copy of what was sent, however its words were mixed.        *)

Genuine(c) ==
  \/ c = Zeroed.checksum
  \/ \E s \in 1..Issued : c = Checksum(s, Length[log[s]], log[s])

Original(m) == m.sequence \in 1..Issued /\ m = Message(m.sequence, log[m.sequence])

Issuing ==
  /\ sending => image.sequence = sent + 1
  /\ \A s \in 1..Issued : log[s] \in Data

Authentic ==
  /\ Genuine(image.checksum)
  /\ \A p \in Positions : Genuine(slots[p].checksum)
  /\ Genuine(copy.checksum)

Originals ==
  /\ \A m \in frames : Original(m)
  /\ \A i \in 1..Len(batch) : Original(batch[i])
  /\ \A i \in 1..Len(delivered) : Original(delivered[i])

Bounds ==
  /\ behind <= seen
  /\ lost <= seen
  /\ \A m \in frames : m.sequence > seen
  /\ ~recovering => frames = {}
  /\ pc = "deliver" => recovering
  /\ ackpc # "idle" => acked < ackseq

IntactInv ==
  /\ TypeOK
  /\ Issuing
  /\ Authentic
  /\ Originals
  /\ Bounds

(* The log is only ever written one past what has been issued. *)
LEMMA LogStable ==
  ASSUME IntactInv, [Next]_vars
  PROVE  /\ Issued \in Nat /\ Issued' \in Nat /\ Issued <= Issued'
         /\ \A s \in 1..Issued : log'[s] = log[s]
         /\ Issuing'
<1> USE DEF IntactInv, TypeOK, SendTypeOK, Issuing, Issued, U64, SeqNums
<1>1. CASE \E d \in Data : SendPut(d)
  <2> PICK d \in Data : SendPut(d)
    BY <1>1
  <2>1. /\ ~sending /\ sending' /\ sent' = sent
        /\ image'.sequence = sent + 1
        /\ sent + 1 \in SeqNums
    BY LaneAssumption DEF SendPut, Image, NextSequence
  <2>2. log' = [log EXCEPT ![sent + 1] = d]
    BY DEF SendPut, NextSequence
  <2> QED
    BY <2>1, <2>2
<1>2. CASE SendReturn
  BY <1>2 DEF SendReturn
<1>3. CASE UNCHANGED <<sent, sending, image, log>>
  BY <1>3
<1>4. ASSUME [Next]_vars, ~(\E d \in Data : SendPut(d)), ~SendReturn
      PROVE  UNCHANGED <<sent, sending, image, log>>
  BY <1>4 DEF Next, Send, Poll, Ack, SendFull, SendDisbelieve, Land, PollStart, PollExhausted,
     ReadHead, ProbeMiss, ProbeHit, ProbeLapped, ProbeRecover, CopyWord,
     FrameTake, FrameMiss, ScanSkip, ScanFrame, Survivor, Recovered,
     AckIssue, AckApply, AckReturn, vars, sendVars
<1> QED
  BY <1>1, <1>2, <1>3, <1>4

(* A word that lands in a slot, or is copied out of one, leaves a Slot. *)
LEMMA SlotWord ==
  ASSUME NEW a \in Slot, NEW b \in Slot, NEW w \in Words
  PROVE  [a EXCEPT ![w] = b[w]] \in Slot
BY DEF Slot, Words

(* What encode writes is a slot's worth of words. *)
LEMMA ImageIsSlot ==
  ASSUME NEW i \in Images
  PROVE  i \in Slot
<1>1. CASE i = Zeroed
  BY <1>1, LaneAssumption DEF Slot, Images, Zeroed, U64
<1>2. CASE \E s \in SeqNums, d \in Data : i = Image(s, d)
  BY <1>2, LaneAssumption DEF Slot, Images, Image, U64, SeqNums, Not
<1> QED
  BY <1>1, <1>2 DEF Images

(* So is the memory of a window before any send. *)
LEMMA ZeroedIsSlot == Zeroed \in Slot
BY ImageIsSlot DEF Images

(* What frame accepts is the message that was sent as that sequence. *)
LEMMA WholeIsOriginal ==
  ASSUME IntactInv, Whole
  PROVE  /\ copy.sequence \in 1..Issued
         /\ copy.payload = log[copy.sequence]
         /\ copy.payload \in Data
         /\ Original(Message(copy.sequence, copy.payload))
<1>1. /\ copy.sequence # 0
      /\ copy.checksum = Checksum(copy.sequence, copy.length, copy.payload)
  BY DEF Whole, Guarded
<1>2. copy.checksum # Zeroed.checksum
  BY <1>1 DEF Zeroed, Checksum
<1>3. PICK s \in 1..Issued : copy.checksum = Checksum(s, Length[log[s]], log[s])
  BY <1>2 DEF IntactInv, Authentic, Genuine
<1>4. copy.sequence = s /\ copy.payload = log[s]
  BY <1>1, <1>3 DEF Checksum
<1>5. log[s] \in Data
  BY DEF IntactInv, Issuing
<1> QED
  BY <1>4, <1>5 DEF Original, Message

(* A fresh lane has its types. *)
LEMMA InitTypeOK == Init => TypeOK
<1> SUFFICES ASSUME Init PROVE TypeOK
  OBVIOUS
<1> USE LaneAssumption DEF Init
<1>0. 0 \in U64 /\ 0 \in Positions /\ <<>> \in Seq(Messages)
  BY DEF U64, Positions
<1>1. SendTypeOK
  <2>1. image \in Images
    BY DEF Images
  <2>4. unlanded \subseteq Words
    OBVIOUS
  <2>5. sending \in BOOLEAN
    OBVIOUS
  <2>2. log \in [SeqNums -> Data \cup {Blank}]
    OBVIOUS
  <2>3. full \in 0..(CountMod - 1)
    OBVIOUS
  <2> QED
    BY <1>0, <2>1, <2>2, <2>3, <2>4, <2>5 DEF SendTypeOK
<1>2. RecvTypeOK
  BY <1>0 DEF RecvTypeOK
<1>5. AckTypeOK
  BY <1>0 DEF AckTypeOK
<1>3. PollTypeOK
  BY <1>0, ZeroedIsSlot DEF PollTypeOK
<1>4. slots \in [Positions -> Slot]
  BY ZeroedIsSlot
<1> QED
  BY <1>0, <1>1, <1>2, <1>3, <1>4, <1>5 DEF TypeOK

(* The sender's part. *)
LEMMA SendKeepsType ==
  ASSUME IntactInv, Send
  PROVE  TypeOK'
<1> USE LaneAssumption DEF IntactInv, TypeOK, SendTypeOK
<1>1. ASSUME NEW d \in Data, SendPut(d)
      PROVE  TypeOK'
  <2>1. NextSequence \in SeqNums /\ image' \in Images
    BY <1>1 DEF SendPut, NextSequence, SeqNums, U64, Images
  <2>2. SendTypeOK'
    BY <1>1, <2>1 DEF SendPut
  <2> QED
    BY <1>1, <2>2 DEF SendPut, recvVars, pollVars, ackVars, RecvTypeOK, PollTypeOK, AckTypeOK
<1>2. CASE SendFull
  BY <1>2 DEF SendFull, Bump, recvVars, pollVars, ackVars, RecvTypeOK, PollTypeOK, AckTypeOK
<1>3. CASE SendDisbelieve
  BY <1>3 DEF SendDisbelieve, sendVars, recvVars, pollVars, ackVars, RecvTypeOK, PollTypeOK, AckTypeOK
<1>4. ASSUME NEW w \in Words, Land(w)
      PROVE  TypeOK'
  <2>1. image \in Slot
    BY ImageIsSlot
  <2>2. image.sequence \in SeqNums
    BY <1>4 DEF Land, Issuing, U64, SeqNums, Images, Image, Zeroed
  <2>3. Position(image.sequence) \in Positions
    BY <2>2, PositionInLane
  <2>4. slots' \in [Positions -> Slot]
    BY <1>4, <2>1, <2>3, SlotWord DEF Land
  <2>5. SendTypeOK'
    BY <1>4 DEF Land
  <2> QED
    BY <1>4, <2>4, <2>5 DEF Land, recvVars, pollVars, ackVars, RecvTypeOK, PollTypeOK, AckTypeOK
<1>5. CASE SendReturn
  <2>1. image.sequence \in U64
    BY ImageIsSlot DEF Slot
  <2> QED
    BY <1>5, <2>1 DEF SendReturn, recvVars, pollVars, ackVars, RecvTypeOK, PollTypeOK, AckTypeOK
<1> QED
  BY <1>1, <1>2, <1>3, <1>4, <1>5 DEF Send

(* The acknowledgement's part: what is added is positive, and the counter  *)
(* wraps within the u64s.                                                  *)
LEMMA AckKeepsType ==
  ASSUME IntactInv, Ack
  PROVE  TypeOK'
<1> USE LaneAssumption DEF IntactInv, TypeOK, AckTypeOK
<1>1. ASSUME NEW s \in SeqNums, AckIssue(s)
      PROVE  TypeOK'
  BY <1>1 DEF AckIssue, sendVars, recvVars, pollVars, SendTypeOK, RecvTypeOK, PollTypeOK, SeqNums, U64
<1>2. CASE AckApply
  <2>1. counter' \in U64 /\ previous' \in U64
    BY <1>2 DEF AckApply, Delta, Bounds, U64
  <2> QED
    BY <1>2, <2>1 DEF AckApply, sendVars, recvVars, pollVars, SendTypeOK, RecvTypeOK, PollTypeOK
<1>3. CASE AckReturn
  <2>1. AckTypeOK'
    BY <1>3 DEF AckReturn, U64
  <2>2. errors' \subseteq {"lapped", "regressed", "exceeds", "diverged"}
    BY <1>3 DEF AckReturn
  <2>3. SendTypeOK' /\ RecvTypeOK' /\ PollTypeOK'
    BY <1>3 DEF AckReturn, sendVars, recvVars, pollVars, SendTypeOK, RecvTypeOK, PollTypeOK
  <2> QED
    BY <1>3, <2>1, <2>2, <2>3 DEF AckReturn
<1> QED
  BY <1>1, <1>2, <1>3 DEF Ack

(* The poll's part.  `Return` and `ScanOn` end several of its actions.     *)
LEMMA BumpInRange ==
  ASSUME corrupt \in 0..(CountMod - 1), CountProbe \/ CountFrame
  PROVE  corrupt' \in 0..(CountMod - 1)
BY LaneAssumption DEF CountProbe, CountFrame, Bump

(* Leaving poll resets its locals within their types. *)
LEMMA LeaveKeepsType ==
  ASSUME Leave
  PROVE  PollTypeOK'
<1>1. 0 \in U64 /\ 0 \in Positions /\ <<>> \in Seq(Messages)
  BY LaneAssumption DEF U64, Positions
<1> QED
  BY <1>1, ZeroedIsSlot DEF Leave, PollTypeOK

(* Returning messages keeps the types of poll's locals and of its counts. *)
LEMMA ReturnKeepsType ==
  ASSUME RecvTypeOK, PollTypeOK, NEW messages \in Seq(Messages), NEW cursor \in U64,
         behind <= cursor, Return(messages, cursor)
  PROVE  PollTypeOK' /\ delivered' \in Seq(Messages) /\ max_lag' \in U64
<1>1. max_lag' \in U64
  BY LaneAssumption DEF Return, RecvTypeOK, PollTypeOK, U64
<1>2. delivered' \in Seq(Messages)
  BY DEF Return, RecvTypeOK
<1> QED
  BY <1>1, <1>2, LeaveKeepsType DEF Return

(* Moving on to the next slot of recover's scan keeps the types. *)
LEMMA ScanOnKeepsType ==
  ASSUME TypeOK, NEW found \in SUBSET Messages, ScanOn(found)
  PROVE  /\ PollTypeOK'
         /\ UNCHANGED <<seen, lost, max_lag, delivered>>
<1>1. at' \in Positions /\ head' \in U64
  BY LaneAssumption DEF ScanOn, ProbeAt, TypeOK, PollTypeOK, Positions, U64
<1>2. copy' \in Slot /\ uncopied' \subseteq Words
  BY ZeroedIsSlot DEF ScanOn, ProbeAt
<1>3. pc' \in {"idle", "head", "tail", "frame", "deliver"} /\ frames' \subseteq Messages
  BY DEF ScanOn, ProbeAt
<1>4. /\ recovering' = recovering /\ batch' = batch
      /\ behind' = behind /\ due' = due
      /\ UNCHANGED <<seen, lost, max_lag, delivered>>
  BY DEF ScanOn
<1> QED
  BY <1>1, <1>2, <1>3, <1>4 DEF PollTypeOK, TypeOK

(* What a poll leaves alone keeps its type. *)
LEMMA PollFrame ==
  ASSUME TypeOK, RecvTypeOK', PollTypeOK',
         UNCHANGED <<sendVars, slots, counter, ackVars>>,
         errors' \subseteq errors \cup {"lapped"}
  PROVE  TypeOK'
<1>1. SendTypeOK'
  BY DEF TypeOK, SendTypeOK, sendVars
<1>2. AckTypeOK'
  BY DEF TypeOK, AckTypeOK, ackVars
<1>3. slots' = slots /\ counter' = counter
  OBVIOUS
<1>4. errors' \subseteq {"lapped", "regressed", "exceeds", "diverged"}
  BY DEF TypeOK
<1> QED
  BY <1>1, <1>2, <1>3, <1>4 DEF TypeOK

(* Every step of poll and recover keeps the types. *)
LEMMA PollKeepsType ==
  ASSUME IntactInv, Poll
  PROVE  TypeOK'
<1>0. /\ TypeOK /\ RecvTypeOK /\ PollTypeOK
      /\ behind <= seen /\ Issuing
      /\ seen \in U64 /\ Expected \in Nat \ {0}
  BY LaneAssumption DEF IntactInv, TypeOK, Bounds, RecvTypeOK, U64, Expected
<1>1. CASE PollStart
  <2>1. Position(Expected) \in Positions
    BY <1>0, <1>1, LaneAssumption, PositionInLane DEF PollStart, Expected, SeqNums, U64
  <2>2. PollTypeOK'
    BY <1>0, <1>1, <2>1 DEF PollStart, PollTypeOK, TypeOK, SendTypeOK
  <2> QED
    BY <1>0, <1>1, <2>2, PollFrame DEF PollStart, recvVars, RecvTypeOK
<1>2. CASE PollExhausted
  <2>1. PollTypeOK'
    BY <1>0, <1>2 DEF PollExhausted, vars, pollVars, PollTypeOK
  <2> QED
    BY <1>0, <1>2, <2>1, PollFrame DEF PollExhausted, vars, recvVars, RecvTypeOK
<1>3. CASE ReadHead
  <2>1. slots[at].sequence \in U64
    BY <1>0 DEF TypeOK, PollTypeOK, Slot
  <2>2. PollTypeOK'
    BY <1>0, <1>3, <2>1 DEF ReadHead, PollTypeOK
  <2> QED
    BY <1>0, <1>3, <2>2, PollFrame DEF ReadHead, recvVars, RecvTypeOK
<1>4. CASE ProbeMiss
  <2>1. PollTypeOK' /\ delivered' \in Seq(Messages) /\ max_lag' \in U64
    BY <1>0, <1>4, ReturnKeepsType DEF ProbeMiss, PollTypeOK
  <2>2. RecvTypeOK'
    BY <1>0, <1>4, <2>1, BumpInRange DEF ProbeMiss, RecvTypeOK
  <2> QED
    BY <1>0, <1>4, <2>1, <2>2, PollFrame DEF ProbeMiss
<1>5. CASE ProbeHit
  <2>1. PollTypeOK'
    BY <1>0, <1>5 DEF ProbeHit, PollTypeOK
  <2> QED
    BY <1>0, <1>5, <2>1, PollFrame DEF ProbeHit, recvVars, RecvTypeOK
<1>6. CASE ProbeLapped
  <2>1. PollTypeOK'
    BY <1>6, LeaveKeepsType DEF ProbeLapped
  <2>2. RecvTypeOK' /\ errors' \subseteq errors \cup {"lapped"}
    BY <1>0, <1>6 DEF ProbeLapped, recvVars, RecvTypeOK
  <2> QED
    BY <1>0, <1>6, <2>1, <2>2, PollFrame DEF ProbeLapped
<1>7. CASE ProbeRecover
  <2>1. 0 \in U64 /\ 0 \in Positions
    BY LaneAssumption DEF U64, Positions
  <2>2. PollTypeOK'
    BY <1>0, <1>7, <2>1, ZeroedIsSlot DEF ProbeRecover, ProbeAt, PollTypeOK
  <2> QED
    BY <1>0, <1>7, <2>2, PollFrame DEF ProbeRecover, recvVars, RecvTypeOK
<1>8. ASSUME NEW w \in Words, CopyWord(w)
      PROVE  TypeOK'
  <2>1. copy' \in Slot
    BY <1>0, <1>8, SlotWord DEF CopyWord, TypeOK, PollTypeOK
  <2>2. PollTypeOK'
    BY <1>0, <1>8, <2>1 DEF CopyWord, PollTypeOK
  <2> QED
    BY <1>0, <1>8, <2>2, PollFrame DEF CopyWord, recvVars, RecvTypeOK
<1>9. CASE FrameTake
  <2>1. Expected \in SeqNums /\ copy.payload \in Data
    BY <1>0, <1>9, WholeIsOriginal, LaneAssumption
    DEF FrameTake, Slot, PollTypeOK, SeqNums, U64, Expected
  <2> DEFINE messages == Append(batch, Message(Expected, copy.payload))
  <2>2. messages \in Seq(Messages)
    BY <1>0, <2>1 DEF PollTypeOK, Messages
  <2>3. PollTypeOK' /\ delivered' \in Seq(Messages) /\ max_lag' \in U64
    <3>1. CASE ReadOn(Expected)
      <4>1. Position(Expected + 1) \in Positions /\ 0 \in U64
        BY <2>1, <3>1, PositionInLane, LaneAssumption DEF ReadOn, SeqNums, U64
      <4> QED
        BY <1>0, <1>9, <2>2, <3>1, <4>1, ZeroedIsSlot
        DEF FrameTake, ProbeAt, PollTypeOK, RecvTypeOK
    <3>2. CASE ~ReadOn(Expected)
      <4>1. Return(messages, Expected) /\ Expected \in U64 /\ behind <= Expected
        BY <1>0, <1>9, <2>1, <3>2 DEF FrameTake, SeqNums, U64, Expected, PollTypeOK
      <4> HIDE DEF messages
      <4> QED
        BY <1>0, <2>2, <4>1, ReturnKeepsType
    <3> QED
      BY <3>1, <3>2
  <2>4. RecvTypeOK'
    BY <1>0, <1>9, <2>1, <2>3 DEF FrameTake, RecvTypeOK, SeqNums, U64
  <2> QED
    BY <1>0, <1>9, <2>3, <2>4, PollFrame DEF FrameTake
<1>10. CASE FrameMiss
  <2>1. PollTypeOK' /\ delivered' \in Seq(Messages) /\ max_lag' \in U64
    BY <1>0, <1>10, ReturnKeepsType DEF FrameMiss, PollTypeOK
  <2>2. RecvTypeOK'
    BY <1>0, <1>10, <2>1, BumpInRange DEF FrameMiss, RecvTypeOK
  <2> QED
    BY <1>0, <1>10, <2>1, <2>2, PollFrame DEF FrameMiss
<1>11. CASE ScanSkip
  <2>1. PollTypeOK' /\ UNCHANGED <<seen, lost, max_lag, delivered>>
    BY <1>0, <1>11, ScanOnKeepsType DEF ScanSkip, PollTypeOK
  <2>2. RecvTypeOK'
    BY <1>0, <1>11, <2>1, BumpInRange DEF ScanSkip, RecvTypeOK
  <2> QED
    BY <1>0, <1>11, <2>1, <2>2, PollFrame DEF ScanSkip
<1>12. CASE ScanFrame
  <2> DEFINE found == IF Whole /\ copy.sequence > seen
                      THEN frames \cup {Message(copy.sequence, copy.payload)}
                      ELSE frames
  <2>1. found \in SUBSET Messages
    <3>1. CASE Whole
      <4>1. copy.sequence \in SeqNums /\ copy.payload \in Data
        BY <1>0, <3>1, WholeIsOriginal DEF PollTypeOK, Slot, SeqNums, U64, Whole, Guarded
      <4> QED
        BY <1>0, <4>1 DEF PollTypeOK, Messages
    <3> QED
      BY <1>0, <3>1 DEF PollTypeOK
  <2>2. ScanOn(found)
    BY <1>12 DEF ScanFrame
  <2>3. PollTypeOK' /\ UNCHANGED <<seen, lost, max_lag, delivered>>
    <3> HIDE DEF found
    <3> QED
      BY <1>0, <2>1, <2>2, ScanOnKeepsType
  <2>4. RecvTypeOK'
    BY <1>0, <1>12, <2>3, BumpInRange DEF ScanFrame, RecvTypeOK
  <2> QED
    BY <1>0, <1>12, <2>3, <2>4, PollFrame DEF ScanFrame
<1>13. CASE Survivor
  <2>1. PICK m \in frames : /\ lost' = lost + Gap(m.sequence)
                            /\ seen' = m.sequence
                            /\ batch' = Append(batch, m)
                            /\ frames' = frames \ {m}
    BY <1>13 DEF Survivor
  <2>2. m \in Messages /\ m.sequence \in SeqNums /\ m.sequence > seen
    BY <1>0 DEF IntactInv, Bounds, PollTypeOK, Messages, Message
  <2>3. batch' \in Seq(Messages) /\ frames' \subseteq Messages
    BY <1>0, <2>1, <2>2 DEF PollTypeOK
  <2>4. PollTypeOK'
    BY <1>0, <1>13, <2>3 DEF Survivor, PollTypeOK
  <2>5. lost' \in U64 /\ seen' \in U64
    BY <1>0, <2>1, <2>2, LaneAssumption DEF RecvTypeOK, IntactInv, Bounds, Gap, Expected, SeqNums, U64
  <2>6. RecvTypeOK'
    BY <1>0, <1>13, <2>5 DEF Survivor, RecvTypeOK
  <2> QED
    BY <1>0, <1>13, <2>4, <2>6, PollFrame DEF Survivor
<1>14. CASE Recovered
  <2>1. PollTypeOK' /\ delivered' \in Seq(Messages) /\ max_lag' \in U64
    BY <1>0, <1>14, ReturnKeepsType DEF Recovered, PollTypeOK
  <2>2. RecvTypeOK'
    BY <1>0, <1>14, <2>1 DEF Recovered, RecvTypeOK
  <2> QED
    BY <1>0, <1>14, <2>1, <2>2, PollFrame DEF Recovered
<1> QED
  BY <1>1, <1>2, <1>3, <1>4, <1>5, <1>6, <1>7, <1>8, <1>9, <1>10, <1>11, <1>12,
     <1>13, <1>14 DEF Poll

-----------------------------------------------------------------------------
(* Checksums and messages stay genuine *)

(* What was genuine stays so, under the log as it becomes. *)
LEMMA GenuineStays ==
  ASSUME IntactInv, [Next]_vars
  PROVE  /\ \A c : Genuine(c) =>
              \/ c = Zeroed.checksum
              \/ \E s \in 1..Issued' : c = Checksum(s, Length[log'[s]], log'[s])
         /\ \A m : Original(m) =>
              m.sequence \in 1..Issued' /\ m = Message(m.sequence, log'[m.sequence])
<1>1. /\ Issued \in Nat /\ Issued' \in Nat /\ Issued <= Issued'
      /\ \A s \in 1..Issued : log'[s] = log[s]
  BY LogStable
<1>2. \A s \in 1..Issued : s \in 1..Issued'
  BY <1>1
<1> QED
  BY <1>1, <1>2 DEF Genuine, Original

(* Every checksum in memory or in a copy is zero or that of a message issued. *)
LEMMA AuthenticInvariant ==
  ASSUME IntactInv, [Next]_vars
  PROVE  Authentic'
<1>0. TypeOK /\ Issuing /\ Authentic
  BY DEF IntactInv
<1>1. CASE \E d \in Data : SendPut(d)
  <2>1. PICK d \in Data : SendPut(d)
    BY <1>1
  <2>2. image' = Image(NextSequence, d) /\ slots' = slots /\ copy' = copy
    BY <2>1 DEF SendPut, pollVars
  <2>3. NextSequence \in 1..Issued' /\ log'[NextSequence] = d
    <3>1. NextSequence \in SeqNums
      BY <1>0, <2>1, LaneAssumption DEF SendPut, NextSequence, TypeOK, SendTypeOK, U64, SeqNums
    <3>2. sending' /\ image'.sequence = NextSequence
      BY <2>1 DEF SendPut, Image
    <3>3. log'[NextSequence] = d
      BY <1>0, <2>1, <3>1 DEF SendPut, TypeOK, SendTypeOK
    <3> QED
      BY <3>1, <3>2, <3>3 DEF Issued, SeqNums
  <2>4. image'.checksum = Checksum(NextSequence, Length[d], d)
    BY <2>2 DEF Image
  <2>5. Genuine(image.checksum)'
    BY <2>3, <2>4 DEF Genuine
  <2> QED
    BY <1>0, <2>2, <2>5, GenuineStays DEF Authentic, Genuine
<1>2. CASE \E w \in Words : Land(w)
  <2>1. PICK w \in Words : Land(w)
    BY <1>2
  <2>2. /\ slots' = [slots EXCEPT ![Position(image.sequence)][w] = image[w]]
        /\ image' = image /\ copy' = copy
    BY <2>1 DEF Land, pollVars
  <2>3. ASSUME NEW p \in Positions
        PROVE  slots'[p].checksum \in {slots[p].checksum, image.checksum}
    <3>1. slots[p] \in Slot /\ slots'[p] \in {slots[p], [slots[p] EXCEPT ![w] = image[w]]}
      BY <1>0, <2>2 DEF TypeOK
    <3> QED
      BY <3>1 DEF Slot
  <2> QED
    BY <1>0, <2>2, <2>3, GenuineStays DEF Authentic, Genuine
<1>3. CASE \E w \in Words : CopyWord(w)
  <2>1. PICK w \in Words : CopyWord(w)
    BY <1>3
  <2>2. /\ copy' = [copy EXCEPT ![w] = slots[at][w]]
        /\ image' = image /\ slots' = slots
    BY <2>1 DEF CopyWord, sendVars
  <2>3. copy'.checksum \in {copy.checksum, slots[at].checksum} /\ at \in Positions
    BY <1>0, <2>2 DEF TypeOK, PollTypeOK, Slot, Words
  <2> QED
    BY <1>0, <2>2, <2>3, GenuineStays DEF Authentic, Genuine
<1>4. CASE image' = image /\ slots' = slots /\ copy' \in {copy, Zeroed}
  BY <1>0, <1>4, GenuineStays DEF Authentic, Genuine
<1>5. ASSUME ~(\E d \in Data : SendPut(d)),
             ~(\E w \in Words : Land(w)), ~(\E w \in Words : CopyWord(w))
      PROVE  image' = image /\ slots' = slots /\ copy' \in {copy, Zeroed}
  <2>1. CASE Send \/ Ack \/ UNCHANGED vars
    BY <1>5, <2>1 DEF Send, Ack, SendFull, SendDisbelieve, SendReturn,
       AckIssue, AckApply, AckReturn, vars, sendVars, pollVars
  <2>2. CASE Poll
    BY <1>5, <2>2 DEF Poll, PollStart, PollExhausted, ReadHead, ProbeMiss, ProbeHit,
       ProbeLapped, ProbeRecover, FrameTake, FrameMiss, ScanSkip, ScanFrame,
       Survivor, Recovered, Return, Leave, ProbeAt, ScanOn, vars, sendVars, pollVars
  <2> QED
    BY <2>1, <2>2 DEF Next
<1> QED
  BY <1>1, <1>2, <1>3, <1>4, <1>5

(* Two messages found under one sequence are one message. *)
LEMMA OriginalsDistinct ==
  ASSUME NEW m, NEW n, Original(m), Original(n), m.sequence = n.sequence
  PROVE  m = n
BY DEF Original

(* Every message found, held or delivered is one that was sent, unchanged. *)
LEMMA OriginalsInvariant ==
  ASSUME IntactInv, [Next]_vars
  PROVE  Originals'
<1> DEFINE Original1(m) == m.sequence \in 1..Issued' /\ m = Message(m.sequence, log'[m.sequence])
           Stay == /\ frames' \subseteq frames
                   /\ batch' \in {batch, <<>>}
                   /\ delivered' \in {delivered, delivered \o batch}
<1>0. /\ TypeOK /\ Originals
      /\ batch \in Seq(Messages) /\ delivered \in Seq(Messages)
  BY DEF IntactInv, TypeOK, RecvTypeOK, PollTypeOK
<1>1. \A m : Original(m) => Original1(m)
  BY GenuineStays
<1>2. /\ \A m \in frames : Original1(m)
      /\ \A k \in 1..Len(batch) : Original1(batch[k])
      /\ \A k \in 1..Len(delivered) : Original1(delivered[k])
  BY <1>0, <1>1 DEF Originals
<1>3. ASSUME NEW messages \in Seq(Messages),
             \A k \in 1..Len(messages) : Original1(messages[k]),
             delivered' = delivered \o messages
      PROVE  \A k \in 1..Len(delivered') : Original1(delivered'[k])
  <2> SUFFICES ASSUME NEW k \in 1..Len(delivered') PROVE Original1(delivered'[k])
    OBVIOUS
  <2>1. Len(delivered') = Len(delivered) + Len(messages)
    BY <1>0, <1>3
  <2>2. CASE k <= Len(delivered)
    <3>1. k \in 1..Len(delivered) /\ delivered'[k] = delivered[k]
      BY <1>0, <1>3, <2>1, <2>2
    <3> QED
      BY <1>2, <3>1
  <2>3. CASE k > Len(delivered)
    <3>1. k - Len(delivered) \in 1..Len(messages) /\ delivered'[k] = messages[k - Len(delivered)]
      BY <1>0, <1>3, <2>1, <2>3
    <3> QED
      BY <1>3, <3>1
  <2> QED
    BY <1>0, <2>1, <2>2, <2>3
<1>4. ASSUME NEW m \in Messages, Original1(m), NEW k \in 1..Len(Append(batch, m))
      PROVE  Original1(Append(batch, m)[k])
  BY <1>0, <1>2, <1>4
<1>5. CASE Stay
  <2>1. \A k \in 1..Len(delivered') : Original1(delivered'[k])
    BY <1>0, <1>2, <1>3, <1>5
  <2> QED
    BY <1>2, <1>5, <2>1 DEF Originals, Original
<1>6. CASE FrameTake
  <2>1. Expected \in SeqNums /\ copy.payload \in Data /\ Original(Message(Expected, copy.payload))
    BY <1>6, WholeIsOriginal, LaneAssumption
    DEF FrameTake, IntactInv, TypeOK, RecvTypeOK, PollTypeOK, Slot, SeqNums, U64, Expected
  <2> DEFINE m == Message(Expected, copy.payload)
  <2>2. m \in Messages /\ Original1(m)
    BY <1>1, <2>1 DEF Messages
  <2>3. /\ frames' = frames \/ frames' = {}
        /\ \/ batch' = Append(batch, m) /\ delivered' = delivered
           \/ batch' = <<>> /\ delivered' = delivered \o Append(batch, m)
    BY <1>6 DEF FrameTake, Return, Leave
  <2> HIDE DEF m
  <2>4. Append(batch, m) \in Seq(Messages)
    BY <1>0, <2>2
  <2>5. \A k \in 1..Len(delivered') : Original1(delivered'[k])
    BY <1>2, <1>3, <1>4, <2>2, <2>3, <2>4
  <2>6. \A k \in 1..Len(batch') : Original1(batch'[k])
    BY <1>4, <2>2, <2>3
  <2> QED
    BY <1>2, <2>3, <2>5, <2>6 DEF Originals, Original
<1>7. CASE ScanFrame
  <2>1. frames' \subseteq frames \cup (IF Whole THEN {Message(copy.sequence, copy.payload)} ELSE {})
    BY <1>7 DEF ScanFrame, ScanOn
  <2>2. Whole => Original1(Message(copy.sequence, copy.payload))
    BY <1>1, WholeIsOriginal
  <2>3. \A m \in frames' : Original1(m)
    BY <1>2, <2>1, <2>2
  <2>4. batch' = batch /\ delivered' = delivered
    BY <1>7 DEF ScanFrame, ScanOn
  <2> QED
    BY <1>2, <2>3, <2>4 DEF Originals, Original
<1>8. CASE Survivor
  <2>1. PICK m \in frames : batch' = Append(batch, m) /\ frames' = frames \ {m}
    BY <1>8 DEF Survivor
  <2>2. m \in Messages /\ Original1(m)
    BY <1>0, <1>2 DEF TypeOK, PollTypeOK
  <2>3. \A k \in 1..Len(batch') : Original1(batch'[k])
    BY <1>4, <2>1, <2>2
  <2>4. delivered' = delivered
    BY <1>8 DEF Survivor
  <2> QED
    BY <1>2, <2>1, <2>3, <2>4 DEF Originals, Original
<1>9. ASSUME ~FrameTake, ~ScanFrame, ~Survivor
      PROVE  Stay
  <2>1. CASE Send \/ Ack \/ UNCHANGED vars
    BY <2>1 DEF Send, Ack, SendPut, SendFull, SendDisbelieve, Land, SendReturn,
       AckIssue, AckApply, AckReturn, vars, recvVars, pollVars
  <2>2. CASE Poll
    <3>1. CASE PollStart \/ PollExhausted \/ ReadHead \/ ProbeHit \/ ProbeLapped
               \/ ProbeRecover \/ (\E w \in Words : CopyWord(w)) \/ ScanSkip
      BY <3>1 DEF PollStart, PollExhausted, ReadHead, ProbeHit, ProbeLapped, ProbeRecover,
         CopyWord, ScanSkip, ScanOn, Leave, vars, recvVars, pollVars
    <3>2. CASE ProbeMiss \/ FrameMiss \/ Recovered
      BY <3>2 DEF ProbeMiss, FrameMiss, Recovered, Return, Leave
    <3> QED
      BY <1>9, <2>2, <3>1, <3>2 DEF Poll
  <2> QED
    BY <2>1, <2>2 DEF Next
<1> QED
  BY <1>5, <1>6, <1>7, <1>8, <1>9

(* The receiver's counts stay in order through poll, recover and ack. *)
LEMMA BoundsInvariant ==
  ASSUME IntactInv, [Next]_vars
  PROVE  Bounds'
<1>0. /\ TypeOK /\ Bounds /\ seen \in Nat /\ lost \in Nat /\ behind \in Nat
  BY DEF IntactInv, TypeOK, RecvTypeOK, PollTypeOK, U64
<1>1. CASE Send \/ UNCHANGED vars
  BY <1>0, <1>1 DEF Send, SendPut, SendFull, SendDisbelieve, Land, SendReturn,
     vars, recvVars, pollVars, ackVars, Bounds
<1>2. CASE Ack
  BY <1>0, <1>2 DEF Ack, AckIssue, AckApply, AckReturn, Ackable,
     recvVars, pollVars, Bounds
<1>3. CASE Poll
  <2>0. UNCHANGED ackVars
    BY <1>3 DEF Poll, PollStart, PollExhausted, ReadHead, ProbeMiss, ProbeHit,
       ProbeLapped, ProbeRecover, CopyWord, FrameTake, FrameMiss, ScanSkip, ScanFrame,
       Survivor, Recovered, vars
  <2>1. CASE PollStart \/ PollExhausted \/ ReadHead \/ ProbeHit \/ ProbeRecover
             \/ (\E w \in Words : CopyWord(w))
    BY <1>0, <2>0, <2>1 DEF PollStart, PollExhausted, ReadHead, ProbeHit, ProbeRecover,
       ProbeAt, CopyWord, vars, recvVars, pollVars, ackVars, Bounds
  <2>2. CASE ProbeMiss \/ ProbeLapped \/ FrameMiss \/ Recovered
    BY <1>0, <2>0, <2>2 DEF ProbeMiss, ProbeLapped, FrameMiss, Recovered, Return, Leave,
       recvVars, ackVars, Bounds
  <2>3. CASE FrameTake
    BY <1>0, <2>0, <2>3 DEF FrameTake, ProbeAt, Return, Leave, Expected, ackVars, Bounds
  <2>4. CASE ScanSkip
    BY <1>0, <2>0, <2>4 DEF ScanSkip, ScanOn, ProbeAt, ackVars, Bounds
  <2>5. CASE ScanFrame
    <3>1. /\ seen' = seen /\ behind' = behind /\ lost' = lost /\ recovering' /\ recovering
      BY <2>5 DEF ScanFrame, ScanOn
    <3>2. ASSUME NEW m \in frames'
          PROVE  m.sequence > seen
      <4>1. m \in frames \/ (m = Message(copy.sequence, copy.payload) /\ copy.sequence > seen)
        BY <2>5, <3>2 DEF ScanFrame, ScanOn
      <4> QED
        BY <1>0, <4>1 DEF Bounds, Message
    <3> QED
      BY <1>0, <2>0, <3>1, <3>2 DEF ackVars, Bounds
  <2>6. CASE Survivor
    <3>1. PICK m \in frames : /\ \A n \in frames : m.sequence <= n.sequence
                              /\ lost' = lost + Gap(m.sequence)
                              /\ seen' = m.sequence
                              /\ frames' = frames \ {m}
      BY <2>6 DEF Survivor, Oldest
    <3>2. \A n \in frames : n.sequence \in Nat /\ Original(n)
      BY <1>0 DEF TypeOK, PollTypeOK, Messages, Message, SeqNums, IntactInv, Originals
    <3>3. \A n \in frames' : n.sequence > m.sequence
      BY <3>1, <3>2, OriginalsDistinct
    <3>4. m.sequence > seen
      BY <1>0 DEF Bounds
    <3>5. behind' = behind /\ recovering' = recovering /\ pc' = pc
      BY <2>6 DEF Survivor
    <3>6. behind' <= seen' /\ lost' <= seen'
      BY <1>0, <3>1, <3>2, <3>4, <3>5 DEF Bounds, Gap, Expected
    <3> QED
      BY <1>0, <2>0, <3>1, <3>3, <3>5, <3>6 DEF ackVars, Bounds
  <2> QED
    BY <1>3, <2>1, <2>2, <2>3, <2>4, <2>5, <2>6 DEF Poll
<1> QED
  BY <1>1, <1>2, <1>3 DEF Next

(* A fresh lane satisfies the invariant. *)
LEMMA IntactInvInit == Init => IntactInv
<1> SUFFICES ASSUME Init PROVE IntactInv
  OBVIOUS
<1>1. TypeOK
  BY InitTypeOK
<1>2. Issuing
  BY DEF Init, Issuing, Issued
<1>3. Authentic
  BY DEF Init, Authentic, Genuine
<1>4. Originals
  BY DEF Init, Originals
<1>5. Bounds
  BY DEF Init, Bounds
<1> QED
  BY <1>1, <1>2, <1>3, <1>4, <1>5 DEF IntactInv

(* And every step keeps it. *)
LEMMA IntactInvStep == IntactInv /\ [Next]_vars => IntactInv'
<1> SUFFICES ASSUME IntactInv, [Next]_vars PROVE IntactInv'
  OBVIOUS
<1>1. TypeOK'
  <2>1. CASE UNCHANGED vars
    BY <2>1 DEF IntactInv, TypeOK, SendTypeOK, RecvTypeOK, PollTypeOK, AckTypeOK,
       vars, sendVars, recvVars, pollVars, ackVars
  <2> QED
    BY <2>1, SendKeepsType, PollKeepsType, AckKeepsType DEF Next
<1> QED
  BY <1>1, LogStable, AuthenticInvariant, OriginalsInvariant, BoundsInvariant DEF IntactInv

(* The invariant holds of every lane, safe or raw. *)
THEOREM IntactInvariant == Spec => []IntactInv
BY IntactInvInit, IntactInvStep, PTL DEF Spec

(* Every variable stays in its range, for every depth, every number of     *)
(* sequences and every set of payloads.                                    *)
THEOREM TypeCorrect == Spec => []TypeOK
<1>1. IntactInv => TypeOK
  BY DEF IntactInv
<1> QED
  BY <1>1, IntactInvariant, PTL

(* No poll of a safe or a raw lane ever hands out a torn message: whatever *)
(* words of whatever Puts its copy mixed, what it accepts is the payload   *)
(* its sequence was sent with.                                             *)
THEOREM IntactTheorem == Spec => []Intact
<1>1. IntactInv => Intact
  <2> SUFFICES ASSUME IntactInv, NEW i \in DOMAIN Taken
               PROVE  Taken[i] = Message(Taken[i].sequence, log[Taken[i].sequence])
    BY DEF Intact
  <2>1. batch \in Seq(Messages) /\ delivered \in Seq(Messages)
    BY DEF IntactInv, TypeOK, RecvTypeOK, PollTypeOK
  <2>2. i \in 1..(Len(delivered) + Len(batch))
    BY <2>1 DEF Taken
  <2>3. CASE i <= Len(delivered)
    BY <2>1, <2>2, <2>3 DEF Taken, IntactInv, Originals, Original
  <2>4. CASE i > Len(delivered)
    <3>1. i - Len(delivered) \in 1..Len(batch) /\ Taken[i] = batch[i - Len(delivered)]
      BY <2>1, <2>2, <2>4 DEF Taken
    <3> QED
      BY <3>1 DEF IntactInv, Originals, Original
  <2> QED
    BY <2>1, <2>2, <2>3, <2>4
<1> QED
  BY <1>1, IntactInvariant, PTL

-----------------------------------------------------------------------------
(* What is delivered, and in what order: the acknowledgement gate keeps a  *)
(* safe lane from being lapped, so that its run-time checks never fire and *)
(* every sequence is delivered once; either lane accounts for every        *)
(* sequence it moves over.                                                 *)

(* The credit on which the gate works.  An acknowledgement in progress has *)
(* been added to the counter or not, and is never past what was polled.    *)
Headroom ==
  /\ Safe => Issued <= cached + Depth
  /\ cached <= counter /\ counter <= seen /\ seen <= Issued
  /\ ackpc = "idle" => counter = acked
  /\ ackpc = "issued" => counter = acked /\ ackseq <= seen
  /\ ackpc = "applied" => counter = ackseq /\ previous = acked

(* A sequence word is only ever written at the position of its sequence.   *)
Placed(s, p) == s # 0 => s \in 1..Issued /\ Position(s) = p

Placement ==
  /\ \A p \in Positions : Placed(slots[p].sequence, p)
  /\ pc = "tail" => Placed(head, at)
  /\ pc \in {"head", "tail", "frame"} /\ ~recovering => at = Position(Expected)

Quiet ==
  /\ errors = {}
  /\ Safe => ~recovering
  /\ ~Safe => ackpc = "idle"

DeliveryInv ==
  /\ IntactInv
  /\ Headroom
  /\ Placement
  /\ Quiet

(* The counter, and both ends' view of it, in the u64s. *)
LEMMA Numbers ==
  ASSUME IntactInv
  PROVE  /\ sent \in Nat /\ cached \in Nat /\ counter \in Nat /\ seen \in Nat
         /\ acked \in Nat /\ ackseq \in Nat /\ previous \in Nat /\ head \in Nat
         /\ Issued \in Nat /\ Issued <= MaxU64 /\ Depth \in Nat /\ MaxU64 \in Nat
         /\ counter <= MaxU64 /\ ackseq <= MaxU64
<1>1. image.sequence \in U64
  BY ImageIsSlot DEF IntactInv, TypeOK, SendTypeOK, Slot
<1> QED
  BY <1>1, LaneAssumption DEF IntactInv, TypeOK, SendTypeOK, RecvTypeOK, PollTypeOK,
     AckTypeOK, U64, Issued

(* The heart of the safe lane.  The expected slot can hold no sequence     *)
(* past the expected one: it would have to be Depth later, and nothing     *)
(* further than Depth past what was acknowledged is ever issued.           *)
LEMMA NeverAhead ==
  ASSUME DeliveryInv, Safe, pc = "tail", Probed
  PROVE  ~Ahead
<1> SUFFICES ASSUME Ahead PROVE FALSE
  OBVIOUS
<1> USE Numbers
<1>1. IntactInv /\ Headroom /\ Placement /\ ~recovering
  BY DEF DeliveryInv, Quiet
<1>2. head \in 1..Issued /\ Position(head) = Position(Expected)
  BY <1>1 DEF Placement, Placed, Probed
<1>3. Expected \in SeqNums /\ head \in SeqNums /\ Expected < head
  BY <1>1, <1>2 DEF Ahead, Expected, SeqNums
<1>4. head >= Expected + Depth
  BY <1>2, <1>3, SharedPosition
<1>5. Issued <= seen + Depth
  BY <1>1 DEF Headroom
<1> QED
  BY <1>1, <1>2, <1>4, <1>5 DEF Expected

(* A fresh lane (ring.rs, Sender::new and Receiver::new) satisfies the invariant. *)
LEMMA DeliveryInvInit == Init => DeliveryInv
<1> SUFFICES ASSUME Init PROVE DeliveryInv
  OBVIOUS
<1>1. Headroom
  BY LaneAssumption DEF Init, Headroom, Issued
<1>2. Placement
  BY DEF Init, Placement, Placed, Zeroed
<1>3. Quiet
  BY DEF Init, Quiet
<1> QED
  BY <1>1, <1>2, <1>3, IntactInvInit DEF DeliveryInv

(* No step of send, poll or ack breaks the order acked <= counter <= seen <= *)
(* Issued, nor lets a Safe sender issue beyond the slots.                    *)
LEMMA HeadroomInvariant ==
  ASSUME DeliveryInv, [Next]_vars
  PROVE  Headroom'
<1>0. /\ IntactInv /\ IntactInv' /\ Headroom /\ Quiet /\ Bounds
  BY IntactInvStep DEF DeliveryInv, IntactInv
<1>1. /\ Issued \in Nat /\ Issued' \in Nat /\ Issued <= Issued'
  BY <1>0, LogStable
<1> USE Numbers
<1>2. ASSUME NEW d \in Data, SendPut(d)
      PROVE  Headroom'
  <2>1. Issued = sent /\ Issued' = sent + 1
    BY <1>0, <1>2 DEF SendPut, Issued, Image, NextSequence
  <2>2. Safe => sent + 1 <= cached' + Depth
    BY <1>0, <1>2 DEF SendPut, Gated, NextSequence
  <2>3. cached' \in {cached, counter}
    BY <1>2 DEF SendPut
  <2> QED
    BY <1>0, <1>2, <2>1, <2>2, <2>3 DEF SendPut, Headroom, recvVars, ackVars
<1>3. CASE SendFull
  <2>1. Issued' = Issued /\ cached' = counter
    BY <1>3 DEF SendFull, Issued
  <2> QED
    BY <1>0, <1>3, <2>1 DEF SendFull, Headroom, recvVars, ackVars
<1>4. CASE SendDisbelieve \/ UNCHANGED vars \/ \E w \in Words : Land(w)
  <2>1. UNCHANGED <<sent, cached, image, sending, counter, seen, ackVars>>
    BY <1>4 DEF SendDisbelieve, Land, vars, sendVars, recvVars
  <2> QED
    BY <1>0, <2>1 DEF Headroom, Issued, ackVars
<1>5. CASE SendReturn
  BY <1>0, <1>5 DEF SendReturn, Headroom, Issued, recvVars, ackVars
<1>6. CASE \E s \in SeqNums : AckIssue(s)
  BY <1>0, <1>6 DEF AckIssue, Ackable, Headroom, Issued, sendVars, recvVars
<1>7. CASE AckApply
  <2>1. counter' = ackseq
    BY <1>0, <1>7 DEF AckApply, Delta, Headroom, Bounds
  <2> QED
    BY <1>0, <1>7, <2>1 DEF AckApply, Headroom, Bounds, Issued, sendVars, recvVars
<1>8. CASE AckReturn
  BY <1>0, <1>8 DEF AckReturn, Undiverged, Headroom, Issued, sendVars, recvVars
<1>9. CASE Poll
  <2>1. UNCHANGED <<sendVars, counter, ackVars>>
    BY <1>9 DEF Poll, PollStart, PollExhausted, ReadHead, ProbeMiss, ProbeHit,
       ProbeLapped, ProbeRecover, CopyWord, FrameTake, FrameMiss, ScanSkip, ScanFrame,
       Survivor, Recovered, vars
  <2>2. seen <= seen' /\ seen' <= Issued
    <3>1. CASE FrameTake
      BY <1>0, <3>1, WholeIsOriginal DEF FrameTake, Expected
    <3>2. CASE Survivor
      BY <1>0, <3>2 DEF Survivor, IntactInv, Originals, Original, Bounds
    <3>3. CASE ~FrameTake /\ ~Survivor
      <4>1. seen' = seen
        BY <1>9, <3>3 DEF Poll, PollStart, PollExhausted, ReadHead, ProbeMiss, ProbeHit,
           ProbeLapped, ProbeRecover, CopyWord, FrameMiss, ScanSkip, ScanFrame, ScanOn,
           Recovered, vars, recvVars
      <4> QED
        BY <1>0, <4>1 DEF Headroom
    <3> QED
      BY <3>1, <3>2, <3>3
  <2> QED
    <3>1. Issued' = Issued
      BY <2>1 DEF Issued, sendVars
    <3>2. seen' \in Nat
      BY <1>0, Numbers, IntactInvStep DEF IntactInv, TypeOK, RecvTypeOK, U64
    <3> QED
      BY <1>0, <2>1, <2>2, <3>1, <3>2 DEF Headroom, sendVars, ackVars
<1> QED
  BY <1>2, <1>3, <1>4, <1>5, <1>6, <1>7, <1>8, <1>9 DEF Next, Send, Ack

(* What is written at a position stays there, and what is read there was   *)
(* written there.                                                          *)
LEMMA PlacementInvariant ==
  ASSUME DeliveryInv, [Next]_vars
  PROVE  Placement'
<1>0. /\ IntactInv /\ Placement /\ Quiet /\ TypeOK /\ Bounds
      /\ slots \in [Positions -> Slot] /\ at \in Positions
      /\ image \in Slot
  BY ImageIsSlot DEF DeliveryInv, IntactInv, TypeOK, PollTypeOK, SendTypeOK
<1>1. \A s, p : Placed(s, p) => (s # 0 => s \in 1..Issued' /\ Position(s) = p)
  BY <1>0, LogStable DEF Placed
<1>2. \A p \in Positions : Placed(slots[p].sequence, p)'
  <2>1. CASE \E w \in Words : Land(w)
    <3>1. PICK w \in Words : Land(w)
      BY <2>1
    <3>2. image.sequence \in 1..Issued /\ Issued' = Issued
      BY <1>0, <3>1, ImageIsSlot, Numbers
      DEF Land, Issued, IntactInv, Issuing
    <3>3. ASSUME NEW p \in Positions
          PROVE  \/ slots'[p].sequence = slots[p].sequence
                 \/ slots'[p].sequence = image.sequence /\ Position(image.sequence) = p
      <4>1. CASE p = Position(image.sequence)
        <5>1. slots'[p] = [slots[p] EXCEPT ![w] = image[w]] /\ slots[p] \in Slot
          BY <1>0, <3>1, <4>1 DEF Land
        <5> QED
          BY <4>1, <5>1 DEF Slot
      <4>2. CASE p # Position(image.sequence)
        BY <1>0, <3>1, <4>2 DEF Land
      <4> QED
        BY <4>1, <4>2
    <3> QED
      BY <1>0, <3>2, <3>3 DEF Placement, Placed
  <2>2. CASE slots' = slots
    BY <1>0, <1>1, <2>2 DEF Placement, Placed
  <2>3. ASSUME ~(\E w \in Words : Land(w))
        PROVE  slots' = slots
    BY <2>3 DEF Next, Send, Poll, Ack, SendPut, SendFull, SendDisbelieve, SendReturn,
       PollStart, PollExhausted, ReadHead, ProbeMiss, ProbeHit, ProbeLapped,
       ProbeRecover, CopyWord, FrameTake, FrameMiss, ScanSkip, ScanFrame, Survivor,
       Recovered, AckIssue, AckApply, AckReturn, vars
  <2> QED
    BY <2>1, <2>2, <2>3
<1>3. (pc = "tail" => Placed(head, at))'
  <2>1. CASE ReadHead
    BY <1>0, <1>1, <2>1 DEF ReadHead, Placement, Placed
  <2>2. CASE pc' = pc /\ head' = head /\ at' = at
    BY <1>0, <1>1, <2>2 DEF Placement, Placed
  <2>3. CASE pc' # "tail"
    BY <2>3
  <2>4. CASE Send \/ Ack \/ UNCHANGED vars
    BY <2>2, <2>4 DEF Send, Ack, SendPut, SendFull, SendDisbelieve, Land, SendReturn,
       AckIssue, AckApply, AckReturn, vars, pollVars
  <2>5. CASE Poll /\ ~ReadHead
    BY <2>2, <2>3, <2>5 DEF Poll, PollStart, PollExhausted, ProbeMiss, ProbeHit,
       ProbeLapped, ProbeRecover, ProbeAt, CopyWord, FrameTake, FrameMiss, ScanSkip,
       ScanFrame, ScanOn, Survivor, Recovered, Return, Leave, vars, pollVars
  <2> QED
    BY <2>1, <2>4, <2>5 DEF Next
<1>4. (pc \in {"head", "tail", "frame"} /\ ~recovering => at = Position(Expected))'
  <2>1. CASE pc' = pc /\ at' = at /\ recovering' = recovering /\ seen' = seen
    BY <1>0, <2>1 DEF Placement, Expected
  <2>2. CASE pc' \in {"idle", "deliver"} \/ recovering'
    BY <2>2
  <2>3. CASE Send \/ Ack \/ UNCHANGED vars
    BY <2>1, <2>3 DEF Send, Ack, SendPut, SendFull, SendDisbelieve, Land, SendReturn,
       AckIssue, AckApply, AckReturn, vars, pollVars, recvVars
  <2>4. CASE PollStart
    BY <2>4 DEF PollStart, Expected, recvVars
  <2>5. CASE FrameTake
    BY <2>2, <2>5 DEF FrameTake, ProbeAt, Return, Leave, Expected
  <2>6. CASE ReadHead \/ ProbeHit \/ \E w \in Words : CopyWord(w)
    BY <1>0, <2>6 DEF ReadHead, ProbeHit, CopyWord, recvVars, Placement, Expected
  <2>7. CASE ScanSkip \/ ScanFrame \/ ProbeRecover
    BY <2>2, <2>7 DEF ScanSkip, ScanFrame, ScanOn, ProbeRecover
  <2>8. CASE PollExhausted \/ ProbeMiss \/ ProbeLapped \/ FrameMiss \/ Survivor \/ Recovered
    BY <1>0, <2>1, <2>2, <2>8 DEF PollExhausted, ProbeMiss, ProbeLapped, FrameMiss, Survivor,
       Recovered, Return, Leave, vars, pollVars, recvVars, Bounds
  <2> QED
    BY <2>3, <2>4, <2>5, <2>6, <2>7, <2>8 DEF Next, Poll
<1> QED
  BY <1>2, <1>3, <1>4 DEF Placement

(* No step reports an error; a Safe lane never enters recover, and an Unsafe *)
(* one never starts an ack.                                                  *)
LEMMA QuietInvariant ==
  ASSUME DeliveryInv, [Next]_vars
  PROVE  Quiet'
<1>0. /\ IntactInv /\ Headroom /\ Quiet /\ Bounds
  BY DEF DeliveryInv, IntactInv
<1> USE Numbers
<1>1. ~SendDisbelieve
  <2> SUFFICES ASSUME SendDisbelieve PROVE FALSE
    OBVIOUS
  <2>1. counter <= sent /\ cached <= counter
    BY <1>0 DEF SendDisbelieve, Headroom, Issued
  <2> QED
    BY <1>0, <2>1 DEF SendDisbelieve, Incredible
<1>2. ~ProbeLapped
  BY NeverAhead DEF ProbeLapped
<1>3. AckReturn => previous = acked
  BY <1>0 DEF AckReturn, Headroom
<1>4. CASE Send \/ UNCHANGED vars
  <2>1. UNCHANGED <<recovering, ackpc, errors>>
    BY <1>1, <1>4 DEF Send, SendPut, SendFull, Land, SendReturn, vars, pollVars, ackVars
  <2> QED
    BY <1>0, <2>1 DEF Quiet
<1>5. CASE Ack
  BY <1>0, <1>3, <1>5 DEF Ack, AckIssue, AckApply, AckReturn, Undiverged, pollVars, Quiet
<1>6. CASE Poll
  <2>1. UNCHANGED <<ackVars, errors>>
    BY <1>2, <1>6 DEF Poll, PollStart, PollExhausted, ReadHead, ProbeMiss, ProbeHit,
       ProbeRecover, CopyWord, FrameTake, FrameMiss, ScanSkip, ScanFrame,
       Survivor, Recovered, vars
  <2>2. Safe => ~recovering'
    BY <1>0, <1>2, <1>6 DEF Quiet, Bounds, Poll, PollStart, PollExhausted, ReadHead,
       ProbeMiss, ProbeHit, ProbeRecover, MayRecover, CopyWord, FrameTake, FrameMiss,
       ScanSkip, ScanFrame, Survivor, Recovered, Return, Leave, ProbeAt, vars, pollVars
  <2> QED
    BY <1>0, <2>1, <2>2 DEF Quiet, ackVars
<1> QED
  BY <1>4, <1>5, <1>6 DEF Next

(* Every reachable state of a lane keeps its counters in order, its slots' words *)
(* in their places, and reports no error: the invariant the delivery and the     *)
(* memory theorems start from.                                                   *)
THEOREM DeliveryInvariant == Spec => []DeliveryInv
<1>1. DeliveryInv /\ [Next]_vars => DeliveryInv'
  BY IntactInvStep, HeadroomInvariant, PlacementInvariant, QuietInvariant DEF DeliveryInv
<1> QED
  BY <1>1, DeliveryInvInit, PTL DEF Spec

(* With words read at once, on a safe lane none of the run-time checks     *)
(* ever fires: Error::Lapped, a regressed or exceeding counter and a       *)
(* diverged acknowledgement all mean something outside the protocol.       *)
THEOREM NoFalseAlarmTheorem == Spec => []NoFalseAlarm
<1>1. DeliveryInv => NoFalseAlarm
  BY DEF DeliveryInv, Quiet, NoFalseAlarm
<1> QED
  BY <1>1, DeliveryInvariant, PTL

(* The sender's credit, the counter and the cursor stay in this order.     *)
THEOREM CreditTheorem == Spec => []Credit
<1>1. DeliveryInv => Credit
  BY DEF DeliveryInv, Headroom, Credit
<1> QED
  BY <1>1, DeliveryInvariant, PTL

-----------------------------------------------------------------------------
(* What polls take *)

(* A step of the lane takes nothing, or the message of some later sequence *)
(* - on a safe lane, of the next one.                                      *)
TakesNothing == Taken' = Taken /\ seen' = seen /\ lost' = lost

TakesOne ==
  \E m \in Messages :
    /\ Taken' = Append(Taken, m)
    /\ seen' = m.sequence /\ m.sequence > seen
    /\ lost' = lost + (m.sequence - seen - 1)
    /\ Original(m) /\ m.data = log'[m.sequence]
    /\ Safe => m.sequence = seen + 1

(* A step takes no message, or takes exactly one, the next after a counted gap. *)
LEMMA TakenStep ==
  ASSUME DeliveryInv, [Next]_vars
  PROVE  TakesNothing \/ TakesOne
<1>0. /\ IntactInv /\ Quiet /\ Bounds /\ Originals
      /\ batch \in Seq(Messages) /\ delivered \in Seq(Messages)
      /\ frames \subseteq Messages
  BY DEF DeliveryInv, IntactInv, TypeOK, RecvTypeOK, PollTypeOK
<1>1. Taken = delivered \o batch /\ Taken' = delivered' \o batch'
  BY DEF Taken
<1>2. ASSUME NEW m \in Messages
      PROVE  delivered \o Append(batch, m) = Append(Taken, m)
  <2>1. delivered \o Append(batch, m) = Append(delivered \o batch, m)
    BY <1>0, ConcatThenAppend
  <2> QED
    BY <1>1, <2>1
<1> USE Numbers
<1>3. CASE FrameTake
  <2> DEFINE m == Message(Expected, copy.payload)
  <2>1. Whole /\ copy.sequence = Expected
    BY <1>3 DEF FrameTake
  <2>2. Expected \in 1..Issued /\ copy.payload = log[Expected] /\ copy.payload \in Data /\ Original(m)
    BY <1>0, <2>1, WholeIsOriginal
  <2>3. m \in Messages /\ m.sequence = Expected /\ m.data = copy.payload
    <3>1. Expected \in SeqNums
      BY <1>0, <2>2, Numbers DEF SeqNums
    <3> QED
      BY <2>2, <3>1 DEF Messages, Message
  <2>4. \/ batch' = Append(batch, m) /\ delivered' = delivered
        \/ batch' = <<>> /\ delivered' = delivered \o Append(batch, m)
    BY <1>3 DEF FrameTake, Return, Leave
  <2>5. seen' = Expected /\ lost' = lost /\ log' = log
    BY <1>3 DEF FrameTake, sendVars
  <2> HIDE DEF m
  <2>6. Append(batch, m) \in Seq(Messages)
    BY <1>0, <2>3
  <2>7. Taken' = Append(Taken, m)
    <3>1. delivered \o Append(batch, m) = Append(Taken, m)
      BY <1>2, <2>3
    <3>2. (delivered \o Append(batch, m)) \o <<>> = delivered \o Append(batch, m)
      BY <1>0, <2>6, ConcatProperties, ConcatEmptySeq
    <3> QED
      BY <1>1, <2>4, <3>1, <3>2
  <2>8. lost \in Nat
    BY <1>0 DEF IntactInv, TypeOK, RecvTypeOK, U64
  <2> QED
    BY <1>0, <2>2, <2>3, <2>5, <2>7, <2>8 DEF TakesOne, Expected
<1>4. CASE Survivor
  <2>1. PICK m \in frames : /\ lost' = lost + Gap(m.sequence)
                            /\ seen' = m.sequence
                            /\ batch' = Append(batch, m)
    BY <1>4 DEF Survivor
  <2>2. m \in Messages /\ m.sequence > seen /\ Original(m) /\ m.data = log[m.sequence]
    BY <1>0 DEF Bounds, Originals, Original, Message
  <2>3. delivered' = delivered /\ log' = log /\ ~Safe
    BY <1>0, <1>4 DEF Survivor, Quiet, Bounds, sendVars
  <2>4. Taken' = Append(Taken, m)
    BY <1>1, <1>2, <2>1, <2>2, <2>3
  <2>5. lost \in Nat /\ m.sequence \in Nat
    BY <1>0, <2>2 DEF IntactInv, TypeOK, RecvTypeOK, U64, Original
  <2>6. lost' = lost + (m.sequence - seen - 1)
    <3>1. seen \in Nat
      BY <1>0
    <3> QED
      BY <2>1, <2>5, <3>1 DEF Gap, Expected
  <2> QED
    BY <2>1, <2>2, <2>3, <2>4, <2>6 DEF TakesOne
<1>5. CASE ProbeMiss \/ FrameMiss \/ Recovered
  <2>1. /\ delivered' = delivered \o batch /\ batch' = <<>>
        /\ seen' = seen /\ lost' = lost
    BY <1>5 DEF ProbeMiss, FrameMiss, Recovered, Return, Leave
  <2>2. Taken' = Taken
    BY <1>0, <1>1, <2>1
  <2> QED
    BY <2>1, <2>2 DEF TakesNothing
<1>6. CASE UNCHANGED <<delivered, batch, seen, lost>>
  BY <1>1, <1>6 DEF TakesNothing
<1>7. ASSUME ~FrameTake, ~Survivor, ~(ProbeMiss \/ FrameMiss \/ Recovered)
      PROVE  UNCHANGED <<delivered, batch, seen, lost>>
  <2>1. ~ProbeLapped
    BY NeverAhead DEF ProbeLapped
  <2>2. CASE Send \/ Ack \/ UNCHANGED vars
    BY <2>2 DEF Send, Ack, SendPut, SendFull, SendDisbelieve, Land, SendReturn,
       AckIssue, AckApply, AckReturn, vars, recvVars, pollVars
  <2>3. CASE Poll
    BY <1>7, <2>1, <2>3 DEF Poll, PollStart, PollExhausted, ReadHead, ProbeHit,
       ProbeRecover, CopyWord, ScanSkip, ScanFrame, ScanOn, vars, recvVars, pollVars
  <2> QED
    BY <2>2, <2>3 DEF Next
<1> QED
  BY <1>3, <1>4, <1>5, <1>6, <1>7

(* The messages taken so far, as a sequence. *)
LEMMA TakenType ==
  ASSUME IntactInv
  PROVE  /\ Taken \in Seq(Messages)
         /\ \A k \in 1..Len(Taken) : Original(Taken[k])
<1>1. batch \in Seq(Messages) /\ delivered \in Seq(Messages) /\ Originals
  BY DEF IntactInv, TypeOK, RecvTypeOK, PollTypeOK
<1>2. /\ Taken \in Seq(Messages)
      /\ Len(Taken) = Len(delivered) + Len(batch)
      /\ \A k \in 1..(Len(delivered) + Len(batch)) :
           Taken[k] = IF k <= Len(delivered) THEN delivered[k] ELSE batch[k - Len(delivered)]
  BY <1>1, ConcatProperties DEF Taken
<1>3. ASSUME NEW k \in 1..Len(Taken)
      PROVE  Original(Taken[k])
  <2>1. CASE k <= Len(delivered)
    BY <1>1, <1>2, <2>1 DEF Originals
  <2>2. CASE k > Len(delivered)
    <3>1. k - Len(delivered) \in 1..Len(batch)
      BY <1>1, <1>2, <2>2
    <3> QED
      BY <1>1, <1>2, <2>2, <3>1 DEF Originals
  <2> QED
    BY <1>1, <1>2, <2>1, <2>2
<1> QED
  BY <1>2, <1>3

(* Either kind of step keeps what was taken in order, and every gap in lost. *)
LEMMA AccountedStep ==
  ASSUME DeliveryInv, [Next]_vars, Accounted
  PROVE  Accounted'
<1>1. /\ Taken \in Seq(Messages) /\ seen \in Nat /\ lost \in Nat
      /\ \A k \in 1..Len(Taken) : Taken[k].sequence \in Nat
  BY TakenType DEF DeliveryInv, IntactInv, TypeOK, RecvTypeOK, U64, Original
<1>2. CASE TakesNothing
  BY <1>2 DEF TakesNothing, Accounted
<1>3. CASE TakesOne
  <2>1. PICK m \in Messages :
          /\ Taken' = Append(Taken, m)
          /\ seen' = m.sequence /\ m.sequence > seen
          /\ lost' = lost + (m.sequence - seen - 1)
    BY <1>3 DEF TakesOne
  <2>2. m.sequence \in Nat
    BY <2>1 DEF Messages, Message, SeqNums
  <2>3. /\ Taken' # <<>> /\ Len(Taken') = Len(Taken) + 1
        /\ \A k \in 1..Len(Taken) : Taken'[k] = Taken[k]
        /\ Taken'[Len(Taken) + 1] = m
        /\ Len(Taken) \in Nat
    BY <1>1, <2>1, AppendProperties
  <2>4. ASSUME NEW k \in 2..Len(Taken')
        PROVE  Taken'[k - 1].sequence < Taken'[k].sequence
    <3>1. CASE k <= Len(Taken)
      <4>1. k \in 2..Len(Taken) /\ k \in 1..Len(Taken) /\ k - 1 \in 1..Len(Taken)
        BY <2>3, <3>1
      <4> QED
        BY <2>3, <4>1 DEF Accounted
    <3>2. CASE k = Len(Taken) + 1
      <4>1. /\ k - 1 = Len(Taken) /\ Len(Taken) \in 1..Len(Taken)
            /\ Taken'[k] = m /\ Taken'[k - 1] = Taken[Len(Taken)]
        BY <2>3, <3>2
      <4>2. Taken[Len(Taken)].sequence = seen
        BY <1>1, <4>1 DEF Accounted
      <4> QED
        BY <2>1, <4>1, <4>2
    <3> QED
      BY <2>3, <3>1, <3>2
  <2>5. Len(Taken') + lost' = seen'
    <3> DEFINE n == Len(Taken)
               t == Len(Taken')
               q == m.sequence
    <3>1. n + lost = seen
      BY DEF Accounted
    <3>2. n \in Nat /\ t = n + 1 /\ q \in Nat
      BY <2>2, <2>3
    <3>3. lost' = lost + (q - seen - 1) /\ seen' = q
      BY <2>1
    <3> HIDE DEF n, t, q
    <3>4. t + lost' = seen'
      BY <1>1, <3>1, <3>2, <3>3
    <3> QED
      BY <3>4 DEF t
  <2> QED
    BY <2>1, <2>3, <2>4, <2>5 DEF Accounted
<1> QED
  BY <1>2, <1>3, TakenStep

(* Every sequence the cursor has moved over was delivered, in order and    *)
(* once, or is counted in `lost`: on a raw lane nothing vanishes silently. *)
THEOREM AccountedTheorem == Spec => []Accounted
<1>1. Init => Accounted
  BY DEF Init, Accounted, Taken
<1>2. DeliveryInv /\ Accounted /\ [Next]_vars => Accounted'
  BY AccountedStep
<1> QED
  BY <1>1, <1>2, DeliveryInvariant, PTL DEF Spec

(* A safe lane delivers every sequence once, in order, intact.             *)
THEOREM ExactlyOnceTheorem == Spec => []ExactlyOnce
<1>1. Init => ExactlyOnce
  BY DEF Init, ExactlyOnce, Taken
<1>2. ASSUME DeliveryInv, ExactlyOnce, [Next]_vars
      PROVE  ExactlyOnce'
  <2> SUFFICES ASSUME Safe PROVE Taken' = [i \in 1..seen' |-> Message(i, log'[i])]
    BY DEF ExactlyOnce
  <2>0. /\ Taken = [i \in 1..seen |-> Message(i, log[i])] /\ Taken \in Seq(Messages)
        /\ seen \in Nat /\ IntactInv /\ seen <= Issued /\ Issued \in Nat
    BY <1>2, TakenType, Numbers DEF ExactlyOnce, DeliveryInv, Headroom
  <2>1. /\ Len(Taken) = seen
        /\ \A i \in 1..seen : Taken[i] = Message(i, log'[i])
    <3>1. \A i \in 1..seen : i \in 1..Issued
      BY <2>0
    <3> QED
      BY <1>2, <2>0, <3>1, LogStable
  <2>2. CASE TakesNothing
    BY <2>0, <2>1, <2>2 DEF TakesNothing
  <2>3. CASE TakesOne
    <3>1. PICK m \in Messages :
            /\ Taken' = Append(Taken, m)
            /\ seen' = m.sequence /\ m.sequence = seen + 1
            /\ Original(m) /\ m.data = log'[m.sequence]
      BY <2>3 DEF TakesOne
    <3>2. m = Message(seen + 1, log'[seen + 1])
      BY <3>1 DEF Original, Message
    <3> QED
      BY <2>0, <2>1, <3>1, <3>2
  <2> QED
    BY <1>2, <2>2, <2>3, TakenStep
<1> QED
  BY <1>1, <1>2, DeliveryInvariant, PTL DEF Spec

-----------------------------------------------------------------------------
(* The lane implements FifoLane *)

(* What the sender has put, as the abstract lane sees it. *)
Accepted == [s \in 1..Issued |-> log[s]]

(* What send accepted is the log read in order up to the last issued sequence. *)
LEMMA AcceptedType ==
  ASSUME IntactInv
  PROVE  /\ Accepted \in Seq(Data)
         /\ Len(Accepted) = Issued
         /\ \A s \in 1..Issued : Accepted[s] = log[s]
<1>1. Issued \in Nat /\ \A s \in 1..Issued : log[s] \in Data
  BY Numbers DEF IntactInv, Issuing
<1>2. Accepted \in [1..Issued -> Data]
  BY <1>1 DEF Accepted
<1>3. Accepted \in Seq(Data)
  BY <1>1, <1>2, SeqDef
<1> QED
  BY <1>1, <1>2, <1>3, LenProperties DEF Accepted

(* A step accepts nothing, or appends what a send was given. *)
LEMMA AcceptedStep ==
  ASSUME IntactInv, [Next]_vars
  PROVE  \/ /\ Accepted' = Accepted /\ Issued' = Issued
            /\ ~(\E d \in Data : SendPut(d))
         \/ \E d \in Data : SendPut(d) /\ Accepted' = Append(Accepted, d)
<1>0. /\ Issued \in Nat /\ Accepted \in Seq(Data) /\ Len(Accepted) = Issued
      /\ \A s \in 1..Issued : Accepted[s] = log[s]
  BY AcceptedType, Numbers
<1>1. ASSUME NEW d \in Data, SendPut(d)
      PROVE  Accepted' = Append(Accepted, d)
  <2>1. /\ Issued = sent /\ Issued' = sent + 1 /\ sent + 1 \in SeqNums
        /\ log' = [log EXCEPT ![sent + 1] = d]
    BY <1>1, Numbers DEF SendPut, Issued, Image, NextSequence, SeqNums
  <2>2. /\ log'[sent + 1] = d /\ \A s \in 1..sent : log'[s] = log[s]
        /\ sent \in Nat
    BY <1>0, <2>1, Numbers DEF IntactInv, TypeOK, SendTypeOK, SeqNums
  <2>3. Accepted' = [s \in 1..(sent + 1) |-> log'[s]]
    BY <2>1 DEF Accepted
  <2>4. /\ Append(Accepted, d) \in Seq(Data) /\ Len(Append(Accepted, d)) = sent + 1
        /\ \A s \in 1..sent : Append(Accepted, d)[s] = Accepted[s]
        /\ Append(Accepted, d)[sent + 1] = d
    BY <1>0, <2>1, AppendProperties
  <2>5. Append(Accepted, d) \in [1..(sent + 1) -> Data]
    BY <2>4, LenProperties
  <2>6. \A s \in 1..(sent + 1) : Append(Accepted, d)[s] = log'[s]
    BY <1>0, <2>1, <2>2, <2>4
  <2> HIDE DEF Accepted
  <2>7. Append(Accepted, d) = [s \in 1..(sent + 1) |-> log'[s]]
    <3> DEFINE a == Append(Accepted, d)
    <3>1. a \in [1..(sent + 1) -> Data] /\ \A s \in 1..(sent + 1) : a[s] = log'[s]
      BY <2>5, <2>6
    <3> HIDE DEF a
    <3>2. a = [s \in 1..(sent + 1) |-> log'[s]]
      BY <3>1
    <3> QED
      BY <3>2 DEF a
  <2> QED
    BY <2>3, <2>7
<1>2. ASSUME ~(\E d \in Data : SendPut(d))
      PROVE  Issued' = Issued /\ log' = log
  <2>1. CASE SendReturn
    BY <2>1 DEF SendReturn, Issued
  <2>2. CASE ~SendReturn
    <3>1. UNCHANGED <<sent, sending, image, log>>
      BY <1>2, <2>2 DEF Next, Send, Poll, Ack, SendFull, SendDisbelieve, Land, PollStart,
         PollExhausted, ReadHead, ProbeMiss, ProbeHit, ProbeLapped, ProbeRecover,
         CopyWord, FrameTake, FrameMiss, ScanSkip, ScanFrame, Survivor, Recovered,
         AckIssue, AckApply, AckReturn, vars, sendVars
    <3> QED
      BY <3>1 DEF Issued
  <2> QED
    BY <2>1, <2>2
<1> QED
  BY <1>1, <1>2 DEF Accepted

(* The counter moves to the sequence acknowledged: it does not wrap. *)
LEMMA AckAdds ==
  ASSUME DeliveryInv, AckApply
  PROVE  counter' = ackseq
<1>1. /\ counter \in Nat /\ acked \in Nat /\ ackseq \in Nat
      /\ MaxU64 \in Nat /\ ackseq <= MaxU64
      /\ counter = acked /\ acked < ackseq
  BY Numbers DEF DeliveryInv, IntactInv, Headroom, Bounds, AckApply
<1> QED
  BY <1>1 DEF AckApply, Delta

(* Every step of the lane is a step of the abstract one, or none. *)
LEMMA FifoStep ==
  ASSUME DeliveryInv, [Next]_vars
  PROVE  [Fifo!Next]_(Fifo!fifoVars)
<1>0. /\ IntactInv /\ Headroom /\ Quiet /\ Bounds
      /\ Len(Accepted) = Issued
      /\ \A s \in 1..Issued : Accepted[s] = log[s]
  BY AcceptedType DEF DeliveryInv, IntactInv
<1> USE Numbers
<1>1. ASSUME NEW d \in Data, SendPut(d), Accepted' = Append(Accepted, d)
      PROVE  Fifo!Accept(d)
  <2>1. Issued = sent /\ sent < MaxU64 /\ counter' = counter
        /\ UNCHANGED <<seen, Taken, lost, full>>
    BY <1>1 DEF SendPut, Issued, recvVars, pollVars, Taken
  <2>2. Safe => Issued - counter < Depth
    BY <1>0, <1>1, <2>1 DEF SendPut, Gated, NextSequence, Headroom
  <2> QED
    BY <1>0, <1>1, <2>1, <2>2 DEF Fifo!Accept, Fifo!Room, Accepted
<1>2. ASSUME SendFull, Accepted' = Accepted
      PROVE  Fifo!Refuse
  <2>1. Issued = sent /\ UNCHANGED <<seen, Taken, lost, counter>> /\ full' = (full + 1) % CountMod
    BY <1>2 DEF SendFull, Issued, recvVars, pollVars, Taken, Bump
  <2>2. Safe /\ ~(Issued - counter < Depth)
    BY <1>0, <1>2, <2>1 DEF SendFull, Gated, NextSequence
  <2> QED
    BY <1>0, <1>2, <2>1, <2>2 DEF Fifo!Refuse, Fifo!Room, Accepted
<1>3. ASSUME AckApply, Accepted' = Accepted
      PROVE  Fifo!Release(ackseq) /\ ackseq \in 1..Len(Accepted)
  <2>1. /\ counter = acked /\ acked < ackseq /\ ackseq <= seen /\ seen <= Issued /\ Safe
    BY <1>0, <1>3 DEF AckApply, Headroom, Quiet, Bounds
  <2>2. counter' = ackseq
    BY <1>3, AckAdds
  <2>3. UNCHANGED <<seen, Taken, lost, full>>
    BY <1>3 DEF AckApply, sendVars, recvVars, pollVars, Taken
  <2> QED
    BY <1>0, <1>3, <2>1, <2>2, <2>3 DEF Fifo!Release, Accepted
<1>4. ASSUME Poll, TakesOne, Accepted' = Accepted
      PROVE  \E s \in 1..Len(Accepted) : Fifo!Take(s)
  <2>1. PICK m \in Messages :
          /\ Taken' = Append(Taken, m)
          /\ seen' = m.sequence /\ m.sequence > seen
          /\ lost' = lost + (m.sequence - seen - 1)
          /\ Original(m)
          /\ Safe => m.sequence = seen + 1
    BY <1>4 DEF TakesOne
  <2>2. m.sequence \in 1..Issued
        /\ m = [sequence |-> m.sequence, data |-> Accepted[m.sequence]]
    BY <1>0, <2>1 DEF Original, Message
  <2>3. UNCHANGED <<counter, full>>
    BY <1>4 DEF Poll, PollStart, PollExhausted, ReadHead, ProbeMiss, ProbeHit,
       ProbeLapped, ProbeRecover, CopyWord, FrameTake, FrameMiss, ScanSkip, ScanFrame,
       Survivor, Recovered, vars, sendVars
  <2>4. Fifo!Take(m.sequence)
    BY <1>4, <2>1, <2>2, <2>3 DEF Fifo!Take, Accepted
  <2> QED
    BY <1>0, <2>2, <2>4
<1>5. ASSUME Poll, TakesNothing, Accepted' = Accepted
      PROVE  UNCHANGED Fifo!fifoVars
  <2>1. UNCHANGED <<counter, full>>
    BY <1>5 DEF Poll, PollStart, PollExhausted, ReadHead, ProbeMiss, ProbeHit,
       ProbeLapped, ProbeRecover, CopyWord, FrameTake, FrameMiss, ScanSkip, ScanFrame,
       Survivor, Recovered, vars, sendVars
  <2> QED
    BY <1>5, <2>1 DEF TakesNothing, Fifo!fifoVars, Accepted
<1>6. ASSUME SendDisbelieve \/ SendReturn \/ (\E w \in Words : Land(w))
               \/ (\E s \in SeqNums : AckIssue(s)) \/ AckReturn \/ UNCHANGED vars,
             Accepted' = Accepted
      PROVE  UNCHANGED Fifo!fifoVars
  <2>1. UNCHANGED <<seen, Taken, lost, counter, full>>
    BY <1>6 DEF SendDisbelieve, SendReturn, Land, AckIssue, AckReturn, vars,
       sendVars, recvVars, pollVars, Taken
  <2> QED
    BY <1>6, <2>1 DEF Fifo!fifoVars, Accepted
<1>7. CASE \E d \in Data : SendPut(d) /\ Accepted' = Append(Accepted, d)
  BY <1>1, <1>7 DEF Fifo!Next
<1>8. CASE Accepted' = Accepted /\ ~(\E d \in Data : SendPut(d))
  <2>1. CASE Poll
    BY <1>4, <1>5, <1>8, <2>1, TakenStep DEF Fifo!Next, Accepted
  <2>2. CASE SendFull
    BY <1>2, <1>8, <2>2 DEF Fifo!Next
  <2>3. CASE AckApply
    BY <1>3, <1>8, <2>3 DEF Fifo!Next, Accepted
  <2> QED
    BY <1>6, <1>8, <2>1, <2>2, <2>3 DEF Next, Send, Ack
<1> QED
  BY <1>0, <1>7, <1>8, AcceptedStep

(* A lane is a queue: bounded and lossless when safe, lossy but counting   *)
(* its losses when raw; it takes messages in order of sequence, refuses    *)
(* only when it holds Depth of them, and gives room back only for messages *)
(* that were taken.                                                        *)
THEOREM FifoTheorem == Spec => ImplementsFifo
<1>1. Init => Fifo!Init
  <2> SUFFICES ASSUME Init PROVE Fifo!Init
    OBVIOUS
  <2>1. Issued = 0 /\ Taken = <<>>
    BY DEF Init, Issued, Taken
  <2>2. Accepted = <<>>
    BY <2>1 DEF Accepted
  <2> QED
    BY <2>1, <2>2 DEF Init, Fifo!Init, Accepted
<1>2. DeliveryInv /\ [Next]_vars => [Fifo!Next]_(Fifo!fifoVars)
  BY FifoStep
<1> QED
  BY <1>1, <1>2, DeliveryInvariant, PTL DEF Spec, ImplementsFifo, Fifo!Spec

-----------------------------------------------------------------------------
(* What the slots of a lane hold and what a poll makes of it: a message    *)
(* stays whole in its slot until Depth more are issued, so that a poll     *)
(* that is not overrun misses none.                                        *)

(* The words of the Put in flight that have landed are those of its image, *)
(* which is the image of what the send was given.                          *)
Landing ==
  sending =>
    /\ image = Image(image.sequence, log[image.sequence])
    /\ \A w \in Words \ unlanded : slots[Position(image.sequence)][w] = image[w]

MemoryInv ==
  /\ DeliveryInv
  /\ Landing
  /\ Retained

(* Two slots with the same words are the same. *)
LEMMA SameWords ==
  ASSUME NEW a \in Slot, NEW b \in Slot, \A w \in Words : a[w] = b[w]
  PROVE  a = b
BY DEF Slot, Words

(* What the log holds of an issued sequence makes an image. *)
LEMMA LoggedImage ==
  ASSUME IntactInv, NEW s \in 1..Issued
  PROVE  /\ s \in SeqNums /\ log[s] \in Data
         /\ Image(s, log[s]) \in Images /\ Image(s, log[s]) \in Slot
<1>1. s \in SeqNums /\ log[s] \in Data
  BY Numbers DEF IntactInv, Issuing, SeqNums
<1>2. Image(s, log[s]) \in Images
  BY <1>1 DEF Images
<1> QED
  BY <1>1, <1>2, ImageIsSlot

(* The actions that touch neither the slots nor what was sent. *)
LEMMA SlotsFrame ==
  ASSUME [Next]_vars, ~(\E d \in Data : SendPut(d)), ~SendReturn,
         ~(\E w \in Words : Land(w))
  PROVE  UNCHANGED <<sent, sending, image, unlanded, slots, log>>
BY DEF Next, Send, Poll, Ack, SendFull, SendDisbelieve, PollStart, PollExhausted,
   ReadHead, ProbeMiss, ProbeHit, ProbeLapped, ProbeRecover, CopyWord,
   FrameTake, FrameMiss, ScanSkip, ScanFrame, Survivor, Recovered,
   AckIssue, AckApply, AckReturn, vars, sendVars

(* What has landed of a Put in flight stays what its send encoded. *)
LEMMA LandingInvariant ==
  ASSUME MemoryInv, [Next]_vars
  PROVE  Landing'
<1>0. /\ IntactInv /\ Landing /\ slots \in [Positions -> Slot]
      /\ image \in Slot
  BY ImageIsSlot DEF MemoryInv, DeliveryInv, IntactInv, TypeOK, SendTypeOK
<1>1. CASE \E d \in Data : SendPut(d)
  <2>1. PICK d \in Data : SendPut(d)
    BY <1>1
  <2>2. /\ image' = Image(sent + 1, d) /\ unlanded' = Words
        /\ log' = [log EXCEPT ![sent + 1] = d]
        /\ sent + 1 \in SeqNums
    BY <2>1, <1>0, Numbers DEF SendPut, NextSequence, SeqNums
  <2>3. image'.sequence = sent + 1 /\ log'[sent + 1] = d
    BY <1>0, <2>2 DEF Image, IntactInv, TypeOK, SendTypeOK
  <2> QED
    BY <2>2, <2>3 DEF Landing
<1>2. CASE SendReturn
  BY <1>2 DEF SendReturn, Landing
<1>3. ASSUME NEW w \in Words, Land(w)
      PROVE  Landing'
  <2>1. /\ sending /\ image' = image /\ log' = log
        /\ slots' = [slots EXCEPT ![Position(image.sequence)][w] = image[w]]
        /\ unlanded' = unlanded \ {w}
    BY <1>3 DEF Land
  <2>2. image.sequence \in SeqNums
    BY <1>0, <2>1, Numbers DEF IntactInv, Issuing, Issued, SeqNums
  <2>3. Position(image.sequence) \in Positions
    BY <2>2, PositionInLane
  <2> DEFINE p == Position(image.sequence)
  <2>4. slots[p] \in Slot /\ slots'[p] = [slots[p] EXCEPT ![w] = image[w]]
    BY <1>0, <2>1, <2>3
  <2>5. ASSUME NEW v \in Words \ unlanded'
        PROVE  slots'[p][v] = image[v]
    <3>1. CASE v = w
      BY <2>4, <3>1 DEF Slot, Words
    <3>2. CASE v # w
      <4>1. v \in Words \ unlanded
        BY <2>1, <3>2
      <4>2. slots[p][v] = image[v]
        BY <1>0, <2>1, <4>1 DEF Landing
      <4> QED
        BY <2>4, <3>2, <4>2 DEF Slot, Words
    <3> QED
      BY <3>1, <3>2
  <2>6. sending' = sending
    BY <1>3 DEF Land
  <2> QED
    BY <1>0, <2>1, <2>5, <2>6 DEF Landing
<1>4. CASE UNCHANGED <<sent, sending, image, unlanded, slots, log>>
  BY <1>0, <1>4 DEF Landing
<1> QED
  BY <1>1, <1>2, <1>3, <1>4, SlotsFrame

(* A slot is only reused Depth sequences later: the Put in flight can      *)
(* change no slot of a later one.                                          *)
LEMMA RetainedInvariant ==
  ASSUME MemoryInv, [Next]_vars
  PROVE  Retained'
<1>0. /\ IntactInv /\ Landing /\ Retained
      /\ slots \in [Positions -> Slot] /\ image \in Slot
      /\ Issuing
  BY ImageIsSlot DEF MemoryInv, DeliveryInv, IntactInv, TypeOK, SendTypeOK
<1>a. /\ Issued' \in Nat /\ Issued <= Issued' /\ sent \in Nat /\ Depth \in Nat
      /\ Issued \in Nat /\ sent <= Issued
      /\ \A s \in 1..Issued : log'[s] = log[s]
  BY <1>0, LogStable, Numbers DEF Issued, Issuing
<1>1. ASSUME slots' = slots, sent' = sent
      PROVE  Retained'
  <2> SUFFICES ASSUME NEW s \in 1..sent, s + Depth > Issued'
               PROVE  slots[Position(s)] = Image(s, log'[s])
    BY <1>1 DEF Retained
  <2>1. s \in 1..Issued /\ s + Depth > Issued
    BY <1>a
  <2> QED
    BY <1>0, <1>a, <2>1 DEF Retained
<1>2. ASSUME NEW w \in Words, Land(w)
      PROVE  Retained'
  <2>1. /\ sending /\ UNCHANGED <<image, log, sending, sent>>
        /\ slots' = [slots EXCEPT ![Position(image.sequence)][w] = image[w]]
    BY <1>2 DEF Land
  <2>2. image.sequence = sent + 1 /\ Issued = sent + 1 /\ Issued' = sent + 1
    BY <1>0, <2>1 DEF Issuing, Issued
  <2> SUFFICES ASSUME NEW s \in 1..sent, s + Depth > Issued
               PROVE  slots'[Position(s)] = Image(s, log[s])
    BY <2>1, <2>2 DEF Retained
  <2>3. s \in SeqNums /\ sent + 1 \in SeqNums
    BY <1>0, <1>a, <2>2, Numbers DEF SeqNums
  <2>4. Position(s) # Position(image.sequence)
    <3>1. SUFFICES ASSUME Position(s) = Position(sent + 1)
                   PROVE  FALSE
      BY <2>2
    <3>2. sent + 1 >= s + Depth
      BY <1>a, <2>3, <3>1, SharedPosition
    <3> QED
      BY <1>a, <2>2, <3>2
  <2>5. Position(s) \in Positions
    BY <2>3, PositionInLane
  <2>6. slots'[Position(s)] = slots[Position(s)]
    BY <1>0, <2>1, <2>4, <2>5
  <2> QED
    BY <1>0, <2>6 DEF Retained
<1>3. CASE SendReturn
  <2>1. /\ sending /\ unlanded = {} /\ UNCHANGED <<image, log, slots>>
        /\ sent' = image.sequence /\ ~sending'
    BY <1>3 DEF SendReturn, Flushed
  <2>2. image.sequence = sent + 1 /\ Issued = sent + 1 /\ Issued' = sent + 1
        /\ sent' = sent + 1
    BY <1>0, <2>1 DEF Issuing, Issued
  <2> SUFFICES ASSUME NEW s \in 1..(sent + 1), s + Depth > Issued
               PROVE  slots[Position(s)] = Image(s, log[s])
    BY <2>1, <2>2 DEF Retained
  <2>3. CASE s = sent + 1
    <3>1. Position(s) \in Positions
      BY <1>0, <1>a, <2>2, Numbers, PositionInLane DEF SeqNums
    <3>2. \A w \in Words : slots[Position(s)][w] = image[w]
      BY <1>0, <2>1, <2>2, <2>3 DEF Landing
    <3>3. slots[Position(s)] = image
      BY <1>0, <3>1, <3>2, SameWords
    <3> QED
      BY <1>0, <2>1, <2>2, <2>3, <3>3 DEF Landing
  <2>4. CASE s # sent + 1
    <3>1. s \in 1..sent
      BY <1>a, <2>4
    <3> QED
      BY <1>0, <3>1 DEF Retained
  <2> QED
    BY <2>3, <2>4
<1>4. CASE \E d \in Data : SendPut(d)
  BY <1>1, <1>4 DEF SendPut
<1> QED
  BY <1>1, <1>2, <1>3, <1>4, SlotsFrame

(* The slots keep the last Depth messages, on either kind of lane, and     *)
(* under the words of a Put in flight.                                     *)
THEOREM MemoryInvariant == Spec => []MemoryInv
<1>1. Init => MemoryInv
  <2>1. Init => Landing
    BY DEF Init, Landing
  <2>2. Init => Retained
    BY DEF Init, Retained
  <2> QED
    BY <2>1, <2>2, DeliveryInvInit DEF MemoryInv
<1>2. MemoryInv /\ [Next]_vars => MemoryInv'
  <2>1. ASSUME MemoryInv, [Next]_vars
        PROVE  DeliveryInv'
    BY <2>1, IntactInvStep, HeadroomInvariant, PlacementInvariant, QuietInvariant
    DEF MemoryInv, DeliveryInv
  <2> QED
    BY <2>1, LandingInvariant, RetainedInvariant DEF MemoryInv
<1> QED
  BY <1>1, <1>2, PTL DEF Spec

(* On either kind of lane the last Depth messages stay whole in their      *)
(* slots, but for the slot the Put in flight is replacing.                 *)
THEOREM RetainedTheorem == Spec => []Retained
<1>1. MemoryInv => Retained
  BY DEF MemoryInv
<1> QED
  BY <1>1, MemoryInvariant, PTL

(* On a safe lane a message is whole in its slot until it is polled: the   *)
(* gate admits nothing that would reuse its slot earlier.                  *)
THEOREM UnreadTheorem == Spec => []Unread
<1>1. ASSUME MemoryInv
      PROVE  Unread
  <2> SUFFICES ASSUME Safe, NEW s \in (seen + 1)..sent
               PROVE  slots[Position(s)] = Image(s, log[s])
    BY DEF Unread
  <2>1. /\ sent \in Nat /\ seen \in Nat /\ Depth \in Nat /\ Issued \in Nat
        /\ cached \in Nat /\ counter \in Nat
    BY <1>1, Numbers DEF MemoryInv, DeliveryInv
  <2>2. Issued <= cached + Depth /\ cached <= counter /\ counter <= seen
    BY <1>1 DEF MemoryInv, DeliveryInv, Headroom
  <2>3. s \in 1..sent /\ s + Depth > Issued
    BY <2>1, <2>2
  <2> QED
    BY <1>1, <2>3 DEF MemoryInv, Retained
<1> QED
  BY <1>1, MemoryInvariant, PTL

-----------------------------------------------------------------------------
(* Polls *)

(* recover runs only when the expected slot was found to hold a later      *)
(* sequence, hence one at least Depth later.                               *)
Overrun ==
  /\ recovering => Issued > behind + Depth
  /\ pc = "idle" => ~recovering

(* The poll in progress is to find the expected sequence, which was there  *)
(* when it began, and is not overrun.                                      *)
Findable == ~recovering /\ Expected <= due /\ Issued <= behind + Depth

(* Then what it has read of the slot is that message.                      *)
Reading ==
  /\ due <= sent
  /\ pc = "tail" /\ Findable => head = Expected
  /\ pc = "frame" /\ Findable =>
       \A w \in Words \ uncopied : copy[w] = Image(Expected, log[Expected])[w]

PollInv ==
  /\ MemoryInv
  /\ Overrun
  /\ Reading

(* The sender only ever goes forward. *)
LEMMA SentGrows ==
  ASSUME IntactInv, [Next]_vars
  PROVE  sent <= sent' /\ sent' \in Nat
<1>1. /\ sent \in Nat /\ (sending => image.sequence = sent + 1)
  BY Numbers DEF IntactInv, Issuing
<1>2. CASE SendReturn
  BY <1>1, <1>2 DEF SendReturn
<1>3. CASE ~SendReturn
  <2>1. sent' = sent
    BY <1>3 DEF Next, Send, Poll, Ack, SendPut, SendFull, SendDisbelieve, Land, PollStart,
       PollExhausted, ReadHead, ProbeMiss, ProbeHit, ProbeLapped, ProbeRecover,
       CopyWord, FrameTake, FrameMiss, ScanSkip, ScanFrame, Survivor, Recovered,
       AckIssue, AckApply, AckReturn, vars, sendVars
  <2> QED
    BY <1>1, <2>1
<1> QED
  BY <1>2, <1>3

(* The numbers of a poll. *)
LEMMA PollNumbers ==
  ASSUME IntactInv
  PROVE  /\ behind \in Nat /\ due \in Nat /\ Expected \in Nat /\ Expected = seen + 1
         /\ behind <= seen /\ due <= MaxU64
BY Numbers DEF IntactInv, Bounds, TypeOK, PollTypeOK, U64, Expected

(* What the expected slot holds while its message is findable. *)
LEMMA ExpectedSlot ==
  ASSUME PollInv, Findable, pc \in {"head", "tail", "frame"}
  PROVE  /\ slots[at] = Image(Expected, log[Expected])
         /\ Expected \in 1..Issued
<1>1. /\ IntactInv /\ Retained /\ due <= sent
      /\ at = Position(Expected)
  BY DEF PollInv, Reading, MemoryInv, DeliveryInv, Placement, Findable
<1>2. /\ sent <= Issued /\ sent \in Nat /\ Issued \in Nat /\ seen \in Nat /\ Depth \in Nat
  BY <1>1, Numbers DEF IntactInv, Issuing, Issued
<1>3. Expected \in 1..sent /\ Expected + Depth > Issued
  BY <1>1, <1>2, PollNumbers DEF Findable
<1> QED
  BY <1>1, <1>2, <1>3 DEF Retained

(* The frame of a step: what a poll in progress has read stays read, and   *)
(* what was findable after the step was so before it.                      *)
LEMMA FindableBefore ==
  ASSUME PollInv, [Next]_vars, Findable',
         UNCHANGED <<recovering, behind, due, seen>>
  PROVE  /\ Findable
         /\ Expected' = Expected
         /\ Expected \in 1..Issued => log'[Expected] = log[Expected]
<1>1. /\ Issued \in Nat /\ Issued' \in Nat /\ Issued <= Issued'
      /\ \A s \in 1..Issued : log'[s] = log[s]
  BY LogStable DEF PollInv, MemoryInv, DeliveryInv
<1>2. behind \in Nat /\ Depth \in Nat
  BY PollNumbers, Numbers DEF PollInv, MemoryInv, DeliveryInv
<1> QED
  BY <1>1, <1>2 DEF Findable, Expected

(* A poll enters recover only after its expected sequence was overwritten. *)
LEMMA OverrunInvariant ==
  ASSUME PollInv, [Next]_vars
  PROVE  Overrun'
<1>0. /\ IntactInv /\ Overrun /\ DeliveryInv
      /\ Issued \in Nat /\ Issued' \in Nat /\ Issued <= Issued'
  BY LogStable DEF PollInv, MemoryInv, DeliveryInv
<1>1. CASE ProbeRecover
  <2>1. /\ pc = "tail" /\ ~recovering /\ Probed /\ Ahead /\ behind' = behind
        /\ pc' = "head"
    BY <1>1 DEF ProbeRecover, ProbeAt
  <2>2. head \in 1..Issued /\ Position(head) = Position(Expected)
    BY <1>0, <2>1 DEF DeliveryInv, Placement, Placed, Probed
  <2>3. head \in SeqNums /\ Expected \in SeqNums /\ Expected < head
    BY <1>0, <2>1, <2>2, Numbers, PollNumbers DEF Ahead, SeqNums
  <2>4. head >= Expected + Depth
    BY <2>2, <2>3, SharedPosition
  <2> QED
    BY <1>0, <2>1, <2>2, <2>4, Numbers, PollNumbers DEF Overrun
<1>2. CASE ~recovering'
  BY <1>2 DEF Overrun
<1>3. CASE recovering' = recovering /\ behind' = behind /\ (pc' = "idle" => pc = "idle")
  BY <1>0, <1>3, Numbers, PollNumbers DEF Overrun
<1>4. CASE Send \/ Ack \/ UNCHANGED vars
  BY <1>3, <1>4 DEF Send, Ack, SendPut, SendFull, SendDisbelieve, Land, SendReturn,
     AckIssue, AckApply, AckReturn, vars, pollVars
<1>5. CASE PollStart
  BY <1>0, <1>2, <1>5 DEF PollStart, Overrun
<1>6. CASE Poll /\ ~ProbeRecover /\ ~PollStart
  BY <1>2, <1>3, <1>6 DEF Poll, PollExhausted, ReadHead, ProbeMiss, ProbeHit, ProbeAt,
     ProbeLapped, CopyWord, FrameTake, FrameMiss, ScanSkip, ScanFrame, ScanOn,
     Survivor, Recovered, Return, Leave, vars, pollVars
<1> QED
  BY <1>1, <1>4, <1>5, <1>6 DEF Next

(* A poll whose expected message is in place reads that message, word by word. *)
LEMMA ReadingInvariant ==
  ASSUME PollInv, [Next]_vars
  PROVE  Reading'
<1>0. /\ IntactInv /\ Reading /\ DeliveryInv /\ sent <= sent' /\ sent \in Nat /\ sent' \in Nat
      /\ due \in Nat /\ copy \in Slot /\ at \in Positions
  BY SentGrows, Numbers, PollNumbers
  DEF PollInv, MemoryInv, DeliveryInv, IntactInv, TypeOK, PollTypeOK
<1>1. due' <= sent'
  <2>1. due' \in {due, sent, 0}
    BY DEF Next, Send, Poll, Ack, SendPut, SendFull, SendDisbelieve, Land, SendReturn,
       PollStart, PollExhausted, ReadHead, ProbeMiss, ProbeHit, ProbeLapped,
       ProbeRecover, CopyWord, FrameTake, FrameMiss, ScanSkip, ScanFrame, ScanOn,
       Survivor, Recovered, Return, Leave, AckIssue, AckApply, AckReturn, vars, pollVars
  <2> QED
    BY <1>0, <2>1 DEF Reading
<1>2. CASE ReadHead
  <2> SUFFICES ASSUME Findable' PROVE head' = Expected'
    BY <1>1, <1>2 DEF Reading, ReadHead
  <2>1. Findable /\ Expected' = Expected /\ pc = "head"
    BY <1>2, FindableBefore DEF ReadHead, recvVars
  <2>2. head' = slots[at].sequence
    BY <1>2 DEF ReadHead
  <2> QED
    BY <2>1, <2>2, ExpectedSlot DEF Image
<1>3. CASE ProbeHit
  BY <1>1, <1>3 DEF Reading, ProbeHit
<1>4. ASSUME NEW w \in Words, CopyWord(w)
      PROVE  Reading'
  <2>1. /\ pc = "frame" /\ pc' = "frame" /\ uncopied' = uncopied \ {w}
        /\ copy' = [copy EXCEPT ![w] = slots[at][w]]
        /\ UNCHANGED <<recovering, behind, due, seen, log>>
    BY <1>4 DEF CopyWord, sendVars, recvVars
  <2> SUFFICES ASSUME Findable', NEW v \in Words \ uncopied'
               PROVE  copy'[v] = Image(Expected, log[Expected])[v]
    BY <1>1, <2>1 DEF Reading, Expected
  <2>2. Findable /\ slots[at] = Image(Expected, log[Expected])
    BY <2>1, FindableBefore, ExpectedSlot
  <2>3. CASE v = w
    BY <1>0, <2>1, <2>2, <2>3 DEF Slot, Words
  <2>4. CASE v # w
    <3>1. v \in Words \ uncopied
      BY <2>1, <2>4
    <3>2. copy[v] = Image(Expected, log[Expected])[v]
      BY <1>0, <2>1, <2>2, <3>1 DEF Reading
    <3> QED
      BY <1>0, <2>1, <2>4, <3>2 DEF Slot, Words
  <2> QED
    BY <2>3, <2>4
<1>5. CASE pc' \notin {"tail", "frame"}
  BY <1>1, <1>5 DEF Reading
<1>6. CASE UNCHANGED <<pc, head, copy, uncopied, recovering, behind, due, seen>>
  <2>1. ASSUME Findable', pc \in {"tail", "frame"}
        PROVE  Findable /\ Expected' = Expected /\ log'[Expected] = log[Expected]
    BY <1>6, <2>1, FindableBefore, ExpectedSlot
  <2> QED
    BY <1>0, <1>1, <1>6, <2>1 DEF Reading
<1>7. CASE Send \/ Ack \/ UNCHANGED vars
  BY <1>6, <1>7 DEF Send, Ack, SendPut, SendFull, SendDisbelieve, Land, SendReturn,
     AckIssue, AckApply, AckReturn, vars, pollVars, recvVars
<1>8. CASE Poll /\ ~ReadHead /\ ~ProbeHit /\ ~(\E w \in Words : CopyWord(w))
  BY <1>5, <1>6, <1>8 DEF Poll, PollStart, PollExhausted, ProbeMiss, ProbeLapped,
     ProbeRecover, ProbeAt, FrameTake, FrameMiss, ScanSkip, ScanFrame, ScanOn,
     Survivor, Recovered, Return, Leave, vars, pollVars, recvVars
<1> QED
  BY <1>2, <1>3, <1>4, <1>7, <1>8 DEF Next

(* What a poll in progress has read is what the slots held of it.          *)
THEOREM PollInvariant == Spec => []PollInv
<1>1. Init => Overrun /\ Reading
  BY DEF Init, Overrun, Reading
<1>2. PollInv /\ [Next]_vars => Overrun' /\ Reading'
  BY OverrunInvariant, ReadingInvariant
<1>3. PollInv <=> MemoryInv /\ Overrun /\ Reading
  BY DEF PollInv
<1> QED
  BY <1>1, <1>2, <1>3, MemoryInvariant, PTL DEF Spec

(* A poll that the sender does not overrun returns with everything that    *)
(* had been sent when it began.                                            *)
THEOREM CatchesUpTheorem == Spec => CatchesUp
<1> DEFINE Ends == pc # "idle" /\ pc' = "idle" /\ Issued <= behind + Depth
<1>1. ASSUME PollInv, [Next]_vars, Ends
      PROVE  seen' >= due
  <2>0. /\ IntactInv /\ Overrun /\ Reading /\ DeliveryInv
        /\ Issued \in Nat /\ Depth \in Nat /\ seen \in Nat /\ behind \in Nat
        /\ due \in Nat /\ due <= MaxU64 /\ MaxU64 \in Nat
        /\ Expected = seen + 1 /\ sent \in Nat
    BY <1>1, Numbers, PollNumbers DEF PollInv, MemoryInv, DeliveryInv
  <2>1. ~recovering
    BY <1>1, <2>0 DEF Overrun
  <2>2. due <= Issued
    BY <2>0 DEF Reading, Issued, IntactInv, Issuing
  <2>3. CASE ProbeMiss
    <3> SUFFICES ASSUME ~(seen >= due) PROVE FALSE
      BY <2>3 DEF ProbeMiss
    <3>1. Findable /\ pc = "tail"
      BY <1>1, <2>0, <2>1, <2>3 DEF Findable, ProbeMiss
    <3>2. head = Expected /\ slots[at] = Image(Expected, log[Expected])
      BY <1>1, <2>0, <3>1, ExpectedSlot DEF Reading
    <3>3. Probed
      BY <2>0, <3>2 DEF Probed, GuardRead, Image
    <3> QED
      BY <2>0, <2>3, <3>2, <3>3 DEF ProbeMiss
  <2>4. CASE FrameMiss
    <3> SUFFICES ASSUME ~(seen >= due) PROVE FALSE
      BY <2>4 DEF FrameMiss
    <3>1. Findable /\ pc = "frame" /\ uncopied = {}
      BY <1>1, <2>0, <2>1, <2>4 DEF Findable, FrameMiss, Copied
    <3>2. Expected \in 1..Issued
      BY <1>1, <3>1, ExpectedSlot
    <3>3. copy = Image(Expected, log[Expected])
      BY <2>0, <3>1, <3>2, LoggedImage, SameWords DEF Reading, IntactInv, TypeOK, PollTypeOK
    <3>4. Whole /\ copy.sequence = Expected
      BY <2>0, <3>3 DEF Whole, Guarded, Image
    <3> QED
      BY <2>4, <3>4 DEF FrameMiss
  <2>5. CASE FrameTake
    <3>1. seen' = Expected /\ ~ReadOn(Expected)
      BY <1>1, <2>5 DEF FrameTake, ProbeAt
    <3>2. CASE Expected - behind >= Depth
      BY <1>1, <2>0, <2>2, <3>1, <3>2
    <3>3. CASE Expected >= MaxU64
      BY <2>0, <3>1, <3>3
    <3> QED
      BY <2>0, <3>1, <3>2, <3>3 DEF ReadOn
  <2>6. ~ProbeLapped
    BY <2>0, NeverAhead DEF ProbeLapped
  <2>7. ~(Survivor \/ Recovered)
    BY <2>0, <2>1 DEF Survivor, Recovered, IntactInv, Bounds
  <2>8. CASE Send \/ Ack \/ UNCHANGED vars
    BY <1>1, <2>8 DEF Send, Ack, SendPut, SendFull, SendDisbelieve, Land, SendReturn,
       AckIssue, AckApply, AckReturn, vars, pollVars
  <2> QED
    BY <1>1, <2>3, <2>4, <2>5, <2>6, <2>7, <2>8
    DEF Next, Poll, PollStart, PollExhausted, ReadHead, ProbeHit, ProbeRecover,
        ProbeAt, CopyWord, ScanSkip, ScanFrame, ScanOn, vars, pollVars
<1>2. PollInv /\ [Next]_vars => [Ends => seen' >= due]_vars
  BY <1>1
<1> QED
  BY <1>2, PollInvariant, PTL DEF Spec, CatchesUp

-----------------------------------------------------------------------------
(* Theorems about a safe lane whose MPI calls may fail, any number of      *)
(* times.  Their invariant is not the one of a lane without faults: the    *)
(* log of a sequence may change after its first Put, `sent` may be behind  *)
(* what the receiver has polled, and the counter may be ahead of it.       *)

(* The highest sequence some send has attempted: that of the send after    *)
(* the last successful one, when one was begun, whatever became of it.     *)
Attempted == IF sent < MaxU64 /\ log[sent + 1] # Blank THEN sent + 1 ELSE sent

Calls == {"put", "ack", "ack again"}

FaultTypeOK ==
  /\ SendTypeOK /\ RecvTypeOK /\ PollTypeOK /\ AckTypeOK
  /\ slots \in [Positions -> Slot]
  /\ counter \in U64
  /\ errors \subseteq Reports \cup Calls

(* A word lands while its send waits for the flush, or after its error.    *)
Lands(w) == Land(w) \/ LandLate(w)

(* The sequence of the send in progress has been tried, and none after it; *)
(* what a failed one left to land is still of the sequence after `sent`.   *)
Trying ==
  /\ sending \/ unlanded # {} => image.sequence = sent + 1 /\ log[sent + 1] \in Data
  /\ \A s \in SeqNums : s <= sent => log[s] \in Data
  /\ \A s \in SeqNums : s > sent + 1 => log[s] = Blank

(* A sequence found in memory was attempted, and is where it belongs.      *)
Put(s, p) == s # 0 => s \in 1..Attempted /\ Position(s) = p

Placing ==
  /\ \A p \in Positions : Put(slots[p].sequence, p)
  /\ pc = "tail" => Put(head, at)
  /\ pc = "frame" => Put(copy.sequence, at)
  /\ pc \in {"idle", "head", "tail"} => copy.sequence = 0
  /\ pc \in {"head", "tail", "frame"} => at = Position(Expected)

(* A safe lane never recovers, so that it never counts a loss.             *)
Plain ==
  /\ ~recovering /\ pc # "deliver" /\ frames = {}
  /\ behind <= seen /\ seen <= Attempted
  /\ ackpc # "idle" => acked < ackseq /\ ackseq <= seen

(* Until an acknowledgement fails, the sender's credit is true, and what   *)
(* was attempted fits it, so that a retry does not read the counter.       *)
Room ==
  "ack" \notin errors =>
    /\ errors \subseteq {"put"}
    /\ cached <= counter /\ counter <= seen
    /\ Attempted <= cached + Depth

(* The counter is what the receiver tracks until an acknowledgement fails, *)
(* and stays within what was polled while no later one has failed and no   *)
(* later one has found the difference.                                     *)
Credited ==
  /\ "ack" \notin errors =>
       /\ ackpc # "applied" => counter = acked
       /\ ackpc = "applied" => previous = acked
  /\ errors \cap {"ack again", "diverged"} = {} =>
       /\ ackpc # "applied" => counter <= seen
       /\ ackpc = "applied" /\ previous = acked => counter = ackseq

(* What polls have taken, until a check reports the lane broken.           *)
InTurn ==
  errors \cap Reports = {} =>
    /\ Len(Taken) = seen
    /\ \A i \in 1..seen : Taken[i].sequence = i

FaultInv ==
  /\ Safe
  /\ FaultTypeOK
  /\ Trying
  /\ Placing
  /\ Plain
  /\ Room
  /\ Credited
  /\ InTurn

-----------------------------------------------------------------------------
(* The numbers of a lane are natural, within the u64s.                     *)
LEMMA FaultNumbers ==
  ASSUME FaultInv
  PROVE  /\ sent \in Nat /\ cached \in Nat /\ counter \in Nat /\ seen \in Nat
         /\ acked \in Nat /\ ackseq \in Nat /\ previous \in Nat /\ head \in Nat
         /\ behind \in Nat /\ copy.sequence \in Nat
         /\ Attempted \in {sent, sent + 1} /\ Attempted \in Nat /\ Attempted <= MaxU64
         /\ Depth \in Nat /\ MaxU64 \in Nat /\ Depth > 0
         /\ counter <= MaxU64 /\ ackseq <= MaxU64 /\ acked <= MaxU64 /\ sent <= MaxU64
         /\ cached <= MaxU64 /\ seen <= MaxU64
<1>1. copy.sequence \in U64
  BY DEF FaultInv, FaultTypeOK, PollTypeOK, Slot
<1> QED
  BY <1>1, LaneAssumption DEF FaultInv, FaultTypeOK, SendTypeOK, RecvTypeOK, PollTypeOK,
     AckTypeOK, U64, Attempted

(* What is put in the name of a sequence is attempted; what has been       *)
(* attempted stays so.                                                     *)
LEMMA AttemptStep ==
  ASSUME FaultInv, [FaultNext]_vars
  PROVE  /\ Trying'
         /\ Attempted' \in Nat /\ Attempted <= Attempted'
         /\ \/ Attempted' = Attempted
            \/ \E d \in Data : SendPut(d) /\ Attempted' = sent + 1
<1>0. Trying /\ log \in [SeqNums -> Data \cup {Blank}] /\ Blank \notin Data
  BY LaneAssumption DEF FaultInv, FaultTypeOK, SendTypeOK
<1> USE FaultNumbers
<1>1. ASSUME NEW d \in Data, SendPut(d)
      PROVE  /\ Trying'
             /\ Attempted' = sent + 1
  <2>1. /\ sent' = sent /\ sent + 1 \in SeqNums /\ image'.sequence = sent + 1
        /\ log' = [log EXCEPT ![sent + 1] = d]
    BY <1>1 DEF SendPut, NextSequence, SeqNums, Image
  <2>2. log'[sent + 1] = d /\ d # Blank /\ \A s \in SeqNums : s # sent + 1 => log'[s] = log[s]
    BY <1>0, <2>1
  <2>3. Trying'
    BY <1>0, <2>1, <2>2 DEF Trying, SeqNums
  <2> QED
    BY <2>1, <2>2, <2>3 DEF Attempted, SeqNums
<1>2. CASE SendReturn
  <2>1. /\ sent' = sent + 1 /\ log' = log /\ log[sent + 1] \in Data
        /\ ~sending' /\ unlanded' = {}
    BY <1>0, <1>2 DEF SendReturn, Flushed, Trying
  <2>2. sent + 1 <= MaxU64
    <3>1. image.sequence \in U64
      BY ImageIsSlot DEF FaultInv, FaultTypeOK, SendTypeOK, Slot
    <3> QED
      BY <1>0, <1>2, <3>1 DEF SendReturn, Trying, U64
  <2>3. \A s \in SeqNums : s <= sent + 1 => s <= sent \/ s = sent + 1
    BY DEF SeqNums
  <2>4. Trying'
    <3>1. \A s \in SeqNums : s <= sent' => log'[s] \in Data
      BY <1>0, <2>1, <2>3 DEF Trying
    <3>2. \A s \in SeqNums : s > sent' + 1 => s > sent + 1
      BY <2>1 DEF SeqNums
    <3>3. \A s \in SeqNums : s > sent' + 1 => log'[s] = Blank
      BY <1>0, <2>1, <3>2 DEF Trying
    <3> QED
      BY <2>1, <3>1, <3>3 DEF Trying
  <2>5. Attempted = sent + 1
    BY <1>0, <2>1, <2>2 DEF Attempted
  <2>6. Attempted' = sent + 1
    BY <1>0, <2>1 DEF Attempted, Trying, SeqNums
  <2> QED
    BY <2>4, <2>5, <2>6
<1>3. CASE PutFaults \/ \E w \in Words : Land(w)
  <2>1. UNCHANGED <<sent, image, log>> /\ (sending' => sending) /\ unlanded' \subseteq unlanded
    <3>1. CASE PutFails
      BY <3>1 DEF PutFails
    <3>2. ASSUME NEW w \in Words, Lands(w)
          PROVE  UNCHANGED <<sent, sending, image, log>> /\ unlanded' \subseteq unlanded
      BY <3>2 DEF Lands, Land, LandLate
    <3> QED
      BY <1>3, <3>1, <3>2 DEF PutFaults, Lands
  <2>2. sending' \/ unlanded' # {} => sending \/ unlanded # {}
    BY <2>1
  <2> QED
    BY <1>0, <2>1, <2>2 DEF Trying, Attempted
<1>4. CASE UNCHANGED <<sent, sending, image, unlanded, log>>
  BY <1>0, <1>4 DEF Trying, Attempted
<1>5. ASSUME ~(\E d \in Data : SendPut(d)), ~SendReturn, ~PutFaults,
             ~(\E w \in Words : Land(w))
      PROVE  UNCHANGED <<sent, sending, image, unlanded, log>>
  BY <1>5 DEF FaultNext, AckFails, Next, Send, Poll, Ack, SendFull, SendDisbelieve, Land,
     PollStart, PollExhausted, ReadHead, ProbeMiss, ProbeHit, ProbeLapped, ProbeRecover,
     CopyWord, FrameTake, FrameMiss, ScanSkip, ScanFrame, Survivor, Recovered,
     AckIssue, AckApply, AckReturn, vars, sendVars
<1> QED
  BY <1>1, <1>2, <1>3, <1>4, <1>5

(* The steps a poll of a safe lane has. *)
SafePoll ==
  \/ PollStart \/ ReadHead \/ ProbeMiss \/ ProbeHit \/ ProbeLapped
  \/ \E w \in Words : CopyWord(w)
  \/ FrameTake \/ FrameMiss

(* A step is one of the sender, of the poll, or of an acknowledgement, and *)
(* leaves the variables of the others alone.                               *)
LEMMA FaultSteps ==
  ASSUME FaultInv, [FaultNext]_vars
  PROVE  \/ (Send \/ PutFaults) /\ UNCHANGED <<counter, recvVars, pollVars, ackVars>>
         \/ SafePoll /\ UNCHANGED <<sendVars, slots, counter, ackVars>>
         \/ (Ack \/ AckFails) /\ UNCHANGED <<sendVars, slots, recvVars, pollVars>>
         \/ UNCHANGED vars
<1>0. Safe /\ ~recovering /\ pc # "deliver"
  BY DEF FaultInv, Plain
<1>1. CASE Send \/ PutFaults
  BY <1>1 DEF Send, SendPut, SendFull, SendDisbelieve, Land, SendReturn, PutFaults, PutFails,
     LandLate, sendVars
<1>2. CASE Poll
  <2>1. SafePoll \/ UNCHANGED vars
    BY <1>0, <1>2 DEF Poll, SafePoll, PollExhausted, ProbeRecover, MayRecover, ScanSkip,
       ScanFrame, Copied, Survivor, Recovered
  <2>2. SafePoll => UNCHANGED <<sendVars, slots, counter, ackVars>>
    BY DEF SafePoll, PollStart, ReadHead, ProbeMiss, ProbeHit, ProbeLapped, CopyWord,
       FrameTake, FrameMiss
  <2> QED
    BY <2>1, <2>2
<1>3. CASE Ack \/ AckFails
  BY <1>3 DEF Ack, AckIssue, AckApply, AckReturn, AckFails
<1>4. CASE UNCHANGED vars
  BY <1>4
<1> QED
  BY <1>1, <1>2, <1>3, <1>4 DEF FaultNext, Next

(* A copy that matches its own checksum is all of one send's image: the    *)
(* checksum covers the sequence, the length and the payload, and the guard *)
(* follows from the sequence.                                              *)
LEMMA WholeOfOneSend ==
  ASSUME FaultInv, Whole
  PROVE  /\ copy.sequence \in SeqNums /\ copy.payload \in Data
         /\ copy = Image(copy.sequence, copy.payload)
<1>1. copy \in Slot
  BY DEF FaultInv, FaultTypeOK, PollTypeOK
<1>2. /\ copy.sequence # 0 /\ copy.guard = Not(copy.sequence)
      /\ copy.checksum = Checksum(copy.sequence, copy.length, copy.payload)
  BY DEF Whole, Guarded
<1>3. PICK i \in Images : copy.checksum = i.checksum
  BY <1>1 DEF Slot
<1>4. i # Zeroed
  BY <1>2, <1>3 DEF Zeroed, Checksum
<1>5. PICK s \in SeqNums, d \in Data : i = Image(s, d)
  BY <1>4 DEF Images
<1>6. copy.sequence = s /\ copy.length = Length[d] /\ copy.payload = d
  BY <1>2, <1>3, <1>5 DEF Checksum, Image
<1>7. copy = [sequence |-> copy.sequence, length |-> copy.length, checksum |-> copy.checksum,
              payload |-> copy.payload, guard |-> copy.guard]
  BY <1>1 DEF Slot
<1> QED
  BY <1>2, <1>6, <1>7 DEF Image

-----------------------------------------------------------------------------
(* Types *)

(* Every step of a poll keeps the types. *)
LEMMA SafePollKeepsType ==
  ASSUME FaultInv, SafePoll, UNCHANGED <<sendVars, slots, counter, ackVars>>
  PROVE  FaultTypeOK'
<1>0. /\ FaultTypeOK /\ RecvTypeOK /\ PollTypeOK /\ Plain
      /\ behind <= seen /\ seen \in U64 /\ Expected \in Nat \ {0}
      /\ 0 \in U64 /\ 0 \in Positions
  BY LaneAssumption DEF FaultInv, FaultTypeOK, Plain, RecvTypeOK, U64, Expected, Positions
<1>1. SUFFICES /\ RecvTypeOK' /\ PollTypeOK'
               /\ errors' \subseteq errors \cup {"lapped"}
  BY <1>0 DEF FaultTypeOK, SendTypeOK, AckTypeOK, sendVars, ackVars, Reports
<1>2. CASE PollStart
  <2>1. Position(Expected) \in Positions
    BY <1>0, <1>2, LaneAssumption, PositionInLane DEF PollStart, Expected, SeqNums, U64
  <2> QED
    BY <1>0, <1>2, <2>1
    DEF PollStart, PollTypeOK, RecvTypeOK, recvVars, FaultTypeOK, SendTypeOK
<1>3. CASE ReadHead
  <2>1. slots[at].sequence \in U64
    BY <1>0 DEF FaultTypeOK, PollTypeOK, Slot
  <2> QED
    BY <1>0, <1>3, <2>1 DEF ReadHead, PollTypeOK, RecvTypeOK, recvVars
<1>4. CASE ProbeMiss \/ FrameMiss
  <2>1. Return(batch, seen) /\ batch \in Seq(Messages) /\ errors' = errors
        /\ UNCHANGED <<seen, lost>> /\ (CountProbe \/ CountFrame)
    BY <1>0, <1>4 DEF ProbeMiss, FrameMiss, PollTypeOK
  <2>2. PollTypeOK' /\ delivered' \in Seq(Messages) /\ max_lag' \in U64
    BY <1>0, <2>1, ReturnKeepsType
  <2> QED
    BY <1>0, <2>1, <2>2, BumpInRange DEF RecvTypeOK
<1>5. CASE ProbeHit
  BY <1>0, <1>5 DEF ProbeHit, PollTypeOK, RecvTypeOK, recvVars
<1>6. CASE ProbeLapped
  BY <1>0, <1>6, LeaveKeepsType DEF ProbeLapped, RecvTypeOK, recvVars
<1>7. ASSUME NEW w \in Words, CopyWord(w)
      PROVE  RecvTypeOK' /\ PollTypeOK' /\ errors' = errors
  <2>1. copy' \in Slot
    BY <1>0, <1>7, SlotWord DEF CopyWord, FaultTypeOK, PollTypeOK
  <2> QED
    BY <1>0, <1>7, <2>1 DEF CopyWord, PollTypeOK, RecvTypeOK, recvVars
<1>8. CASE FrameTake
  <2>1. Expected \in SeqNums /\ copy.payload \in Data
    BY <1>8, WholeOfOneSend DEF FrameTake
  <2> DEFINE messages == Append(batch, Message(Expected, copy.payload))
  <2>2. messages \in Seq(Messages)
    BY <1>0, <2>1 DEF PollTypeOK, Messages
  <2>3. PollTypeOK' /\ delivered' \in Seq(Messages) /\ max_lag' \in U64
    <3>1. CASE ReadOn(Expected)
      <4>1. Position(Expected + 1) \in Positions
        BY <2>1, <3>1, PositionInLane, LaneAssumption DEF ReadOn, SeqNums, U64
      <4> QED
        BY <1>0, <1>8, <2>2, <3>1, <4>1, ZeroedIsSlot
        DEF FrameTake, ProbeAt, PollTypeOK, RecvTypeOK
    <3>2. CASE ~ReadOn(Expected)
      <4>1. Return(messages, Expected) /\ Expected \in U64 /\ behind <= Expected
        BY <1>0, <1>8, <2>1, <3>2 DEF FrameTake, SeqNums, U64, Expected, PollTypeOK
      <4> HIDE DEF messages
      <4> QED
        BY <1>0, <2>2, <4>1, ReturnKeepsType
    <3> QED
      BY <3>1, <3>2
  <2> QED
    BY <1>0, <1>8, <2>1, <2>3 DEF FrameTake, RecvTypeOK, SeqNums, U64
<1> QED
  BY <1>2, <1>3, <1>4, <1>5, <1>6, <1>7, <1>8 DEF SafePoll

(* Every step does, the failures of a Put and of an acknowledgement too.   *)
LEMMA FaultTypeStep ==
  ASSUME FaultInv, [FaultNext]_vars
  PROVE  FaultTypeOK'
<1> USE LaneAssumption
<1>0. /\ FaultTypeOK /\ Trying /\ Plain /\ SendTypeOK /\ AckTypeOK
      /\ RecvTypeOK /\ PollTypeOK
  BY DEF FaultInv, FaultTypeOK
<1>1. CASE (Send \/ PutFaults) /\ UNCHANGED <<counter, recvVars, pollVars, ackVars>>
  <2>1. SUFFICES /\ SendTypeOK' /\ slots' \in [Positions -> Slot]
                 /\ errors' \subseteq Reports \cup Calls
    BY <1>0, <1>1 DEF FaultTypeOK, RecvTypeOK, PollTypeOK, AckTypeOK, recvVars, pollVars, ackVars
  <2>2. ASSUME NEW d \in Data, SendPut(d)
        PROVE  SendTypeOK' /\ slots' = slots /\ errors' = errors
    <3>1. NextSequence \in SeqNums /\ image' \in Images
      BY <1>0, <2>2 DEF SendPut, NextSequence, SeqNums, U64, Images, SendTypeOK
    <3> QED
      BY <1>0, <2>2, <3>1 DEF SendPut, SendTypeOK, FaultTypeOK
  <2>3. CASE SendFull
    BY <1>0, <2>3 DEF SendFull, Bump, SendTypeOK, FaultTypeOK
  <2>4. CASE SendDisbelieve
    BY <1>0, <2>4 DEF SendDisbelieve, SendTypeOK, FaultTypeOK, sendVars, Reports
  <2>5. ASSUME NEW w \in Words, Lands(w)
        PROVE  SendTypeOK' /\ slots' \in [Positions -> Slot] /\ errors' = errors
    <3>1. image \in Slot
      BY <1>0, ImageIsSlot DEF SendTypeOK
    <3>2. image.sequence \in SeqNums
      BY <1>0, <2>5, <3>1 DEF Lands, Land, LandLate, Trying, U64, SeqNums, Slot, SendTypeOK
    <3>3. Position(image.sequence) \in Positions
      BY <3>2, PositionInLane
    <3>4. slots' \in [Positions -> Slot]
      <4>1. slots' = [slots EXCEPT ![Position(image.sequence)][w] = image[w]]
        BY <2>5 DEF Lands, Land, LandLate
      <4> QED
        BY <1>0, <3>1, <3>3, <4>1, SlotWord DEF FaultTypeOK
    <3> QED
      BY <1>0, <2>5, <3>4 DEF Lands, Land, LandLate, SendTypeOK
  <2>6. CASE SendReturn
    <3>1. image.sequence \in U64
      BY <1>0, ImageIsSlot DEF Slot, SendTypeOK
    <3> QED
      BY <1>0, <2>6, <3>1 DEF SendReturn, SendTypeOK, FaultTypeOK
  <2>7. CASE PutFails
    BY <1>0, <2>7 DEF PutFails, SendTypeOK, FaultTypeOK, Calls
  <2> QED
    BY <1>0, <1>1, <2>2, <2>3, <2>4, <2>5, <2>6, <2>7
    DEF Send, PutFaults, Lands, FaultTypeOK
<1>2. CASE (Ack \/ AckFails) /\ UNCHANGED <<sendVars, slots, recvVars, pollVars>>
  <2>1. SUFFICES AckTypeOK' /\ counter' \in U64 /\ errors' \subseteq Reports \cup Calls
    BY <1>0, <1>2 DEF FaultTypeOK, SendTypeOK, RecvTypeOK, PollTypeOK, sendVars, recvVars, pollVars
  <2>2. CASE \E s \in SeqNums : AckIssue(s)
    BY <1>0, <2>2 DEF AckIssue, AckTypeOK, SeqNums, U64, FaultTypeOK
  <2>3. CASE AckApply
    BY <1>0, <2>3 DEF AckApply, AckTypeOK, U64, FaultTypeOK, Delta
  <2>4. CASE AckReturn
    <3>1. AckTypeOK' /\ counter' \in U64
      BY <1>0, <2>4 DEF AckReturn, AckTypeOK, U64, FaultTypeOK
    <3>2. errors' \in {errors, errors \cup {"diverged"}}
      BY <2>4 DEF AckReturn
    <3> QED
      BY <1>0, <3>1, <3>2 DEF FaultTypeOK, Reports
  <2>5. CASE AckFails
    <3>1. /\ ackpc' = "idle" /\ ackseq' = 0 /\ previous' = 0
          /\ acked' = acked /\ counter' = counter
      BY <2>5 DEF AckFails
    <3>4. 0 \in U64
      BY DEF U64
    <3>2. errors' \in {errors \cup {"ack"}, errors \cup {"ack again"}}
      BY <2>5 DEF AckFails
    <3>3. AckTypeOK' /\ counter' \in U64
      BY <1>0, <3>1, <3>4 DEF AckTypeOK, FaultTypeOK
    <3> QED
      BY <1>0, <3>2, <3>3 DEF FaultTypeOK, Calls
  <2> QED
    BY <1>2, <2>2, <2>3, <2>4, <2>5 DEF Ack
<1>3. CASE UNCHANGED vars
  BY <1>0, <1>3 DEF vars, sendVars, recvVars, pollVars, ackVars, FaultTypeOK, SendTypeOK,
     RecvTypeOK, PollTypeOK, AckTypeOK
<1> QED
  BY <1>1, <1>2, <1>3, FaultSteps, SafePollKeepsType

-----------------------------------------------------------------------------
(* Places *)

(* What is read of a slot was put there, whole or not.                     *)
LEMMA PlacingStep ==
  ASSUME FaultInv, [FaultNext]_vars
  PROVE  Placing'
<1>0. /\ FaultTypeOK /\ Trying /\ Placing /\ Plain
      /\ slots \in [Positions -> Slot] /\ at \in Positions
      /\ image \in Slot
  BY ImageIsSlot DEF FaultInv, FaultTypeOK, PollTypeOK, SendTypeOK
<1>1. \A s, p : Put(s, p) => (s # 0 => s \in 1..Attempted' /\ Position(s) = p)
  BY AttemptStep, FaultNumbers DEF Put
<1>2. CASE (Send \/ PutFaults) /\ UNCHANGED <<counter, recvVars, pollVars, ackVars>>
  <2>1. UNCHANGED <<pc, head, at, copy, seen>>
    BY <1>2 DEF pollVars, recvVars
  <2>2. CASE \E w \in Words : Lands(w)
    <3>1. PICK w \in Words : Lands(w)
      BY <2>2
    <3>2. image.sequence \in 1..Attempted'
      <4>1. image.sequence = sent + 1 /\ log[sent + 1] \in Data
            /\ sent' = sent /\ log' = log
        BY <1>0, <3>1 DEF Lands, Land, LandLate, Trying
      <4> QED
        BY <1>0, <4>1, FaultNumbers, LaneAssumption DEF Slot, U64, Attempted
    <3>3. ASSUME NEW p \in Positions
          PROVE  \/ slots'[p].sequence = slots[p].sequence
                 \/ slots'[p].sequence = image.sequence /\ Position(image.sequence) = p
      <4>1. CASE p = Position(image.sequence)
        <5>1. slots'[p] = [slots[p] EXCEPT ![w] = image[w]] /\ slots[p] \in Slot
          BY <1>0, <3>1, <4>1 DEF Lands, Land, LandLate
        <5> QED
          BY <4>1, <5>1 DEF Slot
      <4>2. CASE p # Position(image.sequence)
        BY <1>0, <3>1, <4>2 DEF Lands, Land, LandLate
      <4> QED
        BY <4>1, <4>2
    <3> QED
      BY <1>0, <1>1, <2>1, <3>2, <3>3 DEF Placing, Put, Expected
  <2>3. CASE ~(\E w \in Words : Lands(w))
    <3>1. slots' = slots
      BY <1>2, <2>3 DEF Send, SendPut, SendFull, SendDisbelieve, SendReturn, PutFaults,
         PutFails, Lands
    <3> QED
      BY <1>0, <1>1, <2>1, <3>1 DEF Placing, Put, Expected
  <2> QED
    BY <2>2, <2>3
<1>3. CASE SafePoll /\ UNCHANGED <<sendVars, slots, counter, ackVars>>
  <2>0. /\ \A p \in Positions : Put(slots[p].sequence, p)'
        /\ Zeroed.sequence = 0
    BY <1>0, <1>1, <1>3 DEF Placing, Put, Zeroed
  <2>1. CASE PollStart
    BY <1>0, <1>3, <2>0, <2>1 DEF PollStart, Placing, Expected, recvVars
  <2>2. CASE ReadHead
    BY <1>0, <1>1, <2>0, <2>2 DEF ReadHead, Placing, Put, Expected, recvVars
  <2>3. CASE ProbeMiss \/ FrameMiss \/ ProbeLapped
    BY <2>0, <2>3 DEF ProbeMiss, FrameMiss, ProbeLapped, Return, Leave, Placing
  <2>4. CASE ProbeHit
    BY <1>0, <2>0, <2>4 DEF ProbeHit, Placing, Put, Expected, recvVars
  <2>5. ASSUME NEW w \in Words, CopyWord(w)
        PROVE  Placing'
    <3>1. /\ pc = "frame" /\ pc' = "frame" /\ at' = at /\ seen' = seen
          /\ copy' = [copy EXCEPT ![w] = slots[at][w]] /\ copy \in Slot
      BY <1>0, <2>5 DEF CopyWord, recvVars, FaultTypeOK, PollTypeOK
    <3>2. copy'.sequence \in {copy.sequence, slots[at].sequence}
      BY <3>1 DEF Slot
    <3> QED
      BY <1>0, <1>1, <2>0, <3>1, <3>2 DEF Placing, Put, Expected
  <2>6. CASE FrameTake
    BY <2>0, <2>6 DEF FrameTake, ProbeAt, Return, Leave, Placing, Expected
  <2> QED
    BY <1>3, <2>1, <2>2, <2>3, <2>4, <2>5, <2>6 DEF SafePoll
<1>4. CASE UNCHANGED <<sendVars, slots, recvVars, pollVars>>
  BY <1>0, <1>1, <1>4 DEF Placing, Put, Expected, sendVars, recvVars, pollVars, Attempted
<1> QED
  BY <1>2, <1>3, <1>4, FaultSteps DEF vars

-----------------------------------------------------------------------------
(* Credit *)

(* A safe lane never recovers, and never polls what was not attempted.     *)
LEMMA PlainStep ==
  ASSUME FaultInv, [FaultNext]_vars
  PROVE  Plain'
<1> USE FaultNumbers, AttemptStep
<1>0. Plain /\ Placing
  BY DEF FaultInv
<1>1. CASE (Send \/ PutFaults) /\ UNCHANGED <<counter, recvVars, pollVars, ackVars>>
  BY <1>0, <1>1 DEF Plain, recvVars, pollVars, ackVars
<1>2. CASE SafePoll /\ UNCHANGED <<sendVars, slots, counter, ackVars>>
  <2>1. CASE FrameTake
    <3>1. seen' = seen + 1 /\ seen + 1 \in 1..Attempted
      BY <1>0, <2>1 DEF FrameTake, Copied, Whole, Guarded, Expected, Placing, Put
    <3> QED
      BY <1>0, <1>2, <2>1, <3>1 DEF FrameTake, ProbeAt, Return, Leave, Plain, ackVars
  <2>2. CASE PollStart \/ ReadHead \/ ProbeHit \/ (\E w \in Words : CopyWord(w))
    BY <1>0, <1>2, <2>2 DEF PollStart, ReadHead, ProbeHit, CopyWord, Plain, recvVars, ackVars
  <2>3. CASE ProbeMiss \/ FrameMiss \/ ProbeLapped
    BY <1>0, <1>2, <2>3 DEF ProbeMiss, FrameMiss, ProbeLapped, Return, Leave, Plain,
       recvVars, ackVars
  <2> QED
    BY <1>2, <2>1, <2>2, <2>3 DEF SafePoll
<1>3. CASE (Ack \/ AckFails) /\ UNCHANGED <<sendVars, slots, recvVars, pollVars>>
  <2>1. (ackpc # "idle" => acked < ackseq /\ ackseq <= seen)'
    BY <1>0, <1>3 DEF Ack, AckIssue, AckApply, AckReturn, AckFails, Ackable, Plain,
       recvVars, SeqNums
  <2> QED
    BY <1>0, <1>3, <2>1 DEF Plain, recvVars, pollVars, sendVars, Attempted
<1>4. CASE UNCHANGED vars
  BY <1>0, <1>4 DEF vars, Plain, recvVars, pollVars, ackVars
<1> QED
  BY <1>1, <1>2, <1>3, <1>4, FaultSteps

(* The cursor never goes back. *)
LEMMA SeenStep ==
  ASSUME FaultInv, [FaultNext]_vars
  PROVE  seen <= seen' /\ seen' \in Nat
<1>1. SafePoll => seen' \in {seen, seen + 1}
  BY DEF SafePoll, PollStart, ReadHead, ProbeMiss, ProbeHit, ProbeLapped, CopyWord,
     FrameTake, FrameMiss, recvVars, Expected
<1> QED
  BY <1>1, FaultNumbers, FaultSteps DEF recvVars, vars

(* A fetch_add on the counter as tracked sets it to the sequence.          *)
LEMMA AppliedWhole ==
  ASSUME FaultInv, AckApply, counter = acked
  PROVE  counter' = ackseq
<1>1. acked < ackseq
  BY DEF FaultInv, Plain, AckApply
<1> QED
  BY <1>1, FaultNumbers DEF AckApply, Delta

(* The counter is the receiver's, and then wrong only where it is reported. *)
LEMMA CreditedStep ==
  ASSUME FaultInv, [FaultNext]_vars
  PROVE  Credited'
<1> USE FaultNumbers, SeenStep
<1>0. Credited /\ Plain /\ Room
  BY DEF FaultInv
<1>1. CASE UNCHANGED <<counter, ackVars>> /\ errors \subseteq errors'
  <2>1. /\ "ack" \notin errors' => "ack" \notin errors
        /\ errors' \cap {"ack again", "diverged"} = {} =>
             errors \cap {"ack again", "diverged"} = {}
    BY <1>1
  <2>2. UNCHANGED <<counter, acked, ackpc, ackseq, previous>>
    BY <1>1 DEF ackVars
  <2>3. counter <= seen => counter' <= seen'
    BY <2>2
  <2> QED
    BY <1>0, <2>1, <2>2, <2>3 DEF Credited
<1>2. CASE Send \/ PutFaults \/ SafePoll
  <2>1. errors \subseteq errors'
    BY <1>2 DEF Send, SendPut, SendFull, SendDisbelieve, Land, SendReturn, PutFaults,
       PutFails, LandLate, SafePoll, PollStart, ReadHead, ProbeMiss, ProbeHit, ProbeLapped,
       CopyWord, FrameTake, FrameMiss
  <2>2. UNCHANGED <<counter, ackVars>>
    BY <1>2 DEF Send, SendPut, SendFull, SendDisbelieve, Land, SendReturn, PutFaults,
       PutFails, LandLate, SafePoll, PollStart, ReadHead, ProbeMiss, ProbeHit, ProbeLapped,
       CopyWord, FrameTake, FrameMiss
  <2> QED
    BY <1>1, <2>1, <2>2
<1>3. CASE \E s \in SeqNums : AckIssue(s)
  BY <1>0, <1>3 DEF AckIssue, Credited, recvVars
<1>4. CASE AckApply
  <2>1. previous' = counter /\ errors' = errors /\ ackpc = "issued" /\ ackpc' = "applied"
        /\ acked' = acked /\ ackseq' = ackseq /\ seen' = seen
    BY <1>4 DEF AckApply, recvVars
  <2>2. counter = acked => counter' = ackseq
    BY <1>4, AppliedWhole
  <2> QED
    BY <1>0, <2>1, <2>2 DEF Credited
<1>5. CASE AckReturn
  <2>1. CASE Undiverged
    <3>1. /\ errors' = errors /\ acked' = ackseq /\ ackpc' = "idle"
          /\ counter' = counter /\ seen' = seen /\ ackpc = "applied" /\ previous = acked
      BY <1>5, <2>1 DEF AckReturn, Undiverged, recvVars
    <3>2. errors \cap {"ack again", "diverged"} = {} => counter = ackseq /\ ackseq <= seen
      BY <1>0, <3>1 DEF Credited, Plain
    <3>3. "ack" \notin errors => errors \cap {"ack again", "diverged"} = {}
      BY <1>0 DEF Room
    <3> QED
      BY <3>1, <3>2, <3>3 DEF Credited
  <2>2. CASE ~Undiverged
    <3>1. errors' = errors \cup {"diverged"} /\ "ack" \in errors
      BY <1>0, <1>5, <2>2 DEF AckReturn, Undiverged, Credited
    <3> QED
      BY <3>1 DEF Credited
  <2> QED
    BY <2>1, <2>2
<1>6. CASE AckFails
  <2>1. CASE "ack" \in errors
    BY <1>6, <2>1 DEF AckFails, Credited
  <2>2. CASE "ack" \notin errors
    <3>1. /\ errors' = errors \cup {"ack"} /\ ackpc' = "idle"
          /\ counter' = counter /\ seen' = seen
      BY <1>6, <2>2 DEF AckFails, recvVars
    <3>2. errors \cap {"ack again", "diverged"} = {} => counter <= seen
      BY <1>0, <1>6, <2>2 DEF AckFails, Credited, Plain
    <3> QED
      BY <3>1, <3>2 DEF Credited
  <2> QED
    BY <2>1, <2>2
<1> QED
  BY <1>1, <1>2, <1>3, <1>4, <1>5, <1>6, FaultSteps DEF vars, Ack

(* Before any acknowledgement fails, a poll finds nothing later than what  *)
(* it expects: that would be Depth later, past what the gate let through.  *)
LEMMA NotLappedYet ==
  ASSUME FaultInv, "ack" \notin errors
  PROVE  ~ProbeLapped
<1> SUFFICES ASSUME ProbeLapped PROVE FALSE
  OBVIOUS
<1> USE FaultNumbers
<1>1. head \in 1..Attempted /\ Position(head) = Position(Expected)
  BY DEF ProbeLapped, Probed, FaultInv, Placing, Put
<1>2. Expected \in SeqNums /\ head \in SeqNums /\ Expected < head
  BY <1>1 DEF ProbeLapped, Ahead, Expected, SeqNums
<1>3. head >= Expected + Depth
  BY <1>1, <1>2, SharedPosition
<1>4. Attempted <= seen + Depth
  BY DEF FaultInv, Room
<1> QED
  BY <1>1, <1>3, <1>4 DEF Expected

(* Nor does a send read a counter it cannot believe: when the send before  *)
(* it failed, the gate is still open, and when it succeeded, what was      *)
(* polled was sent.                                                        *)
LEMMA NoDisbeliefYet ==
  ASSUME FaultInv, "ack" \notin errors
  PROVE  (~SendDisbelieve /\ ~SendFull) \/ Attempted = sent
<1>1. Attempted <= cached + Depth
  BY DEF FaultInv, Room
<1>2. Attempted = sent + 1 => ~Gated(cached)
  BY <1>1, FaultNumbers DEF Gated, NextSequence
<1> QED
  BY <1>2, FaultNumbers DEF SendDisbelieve, SendFull

(* Room is lost only when an acknowledgement fails.                        *)
LEMMA RoomStep ==
  ASSUME FaultInv, [FaultNext]_vars
  PROVE  Room'
<1> USE FaultNumbers, SeenStep
<1>0. Safe /\ Room /\ Plain /\ Credited /\ errors \subseteq Reports \cup Calls
  BY DEF FaultInv, FaultTypeOK
<1>1. SUFFICES ASSUME "ack" \notin errors'
               PROVE  /\ errors' \subseteq {"put"}
                      /\ cached' <= counter' /\ counter' <= seen'
                      /\ Attempted' <= cached' + Depth
  BY DEF Room
<1>2. "ack" \notin errors
  BY <1>1, FaultSteps DEF vars, Send, SendPut, SendFull, SendDisbelieve, Land, SendReturn,
     PutFaults, PutFails, LandLate, SafePoll, PollStart, ReadHead, ProbeMiss, ProbeHit,
     ProbeLapped, CopyWord,
     FrameTake, FrameMiss, Ack, AckIssue, AckApply, AckReturn, AckFails
<1>3. /\ errors \subseteq {"put"}
      /\ cached <= counter /\ counter <= seen
      /\ Attempted <= cached + Depth
      /\ ackpc # "applied" => counter = acked
      /\ ackpc = "applied" => previous = acked
  BY <1>0, <1>2 DEF Room, Credited
<1>4. ~SendDisbelieve
  BY <1>0, <1>2, <1>3, NoDisbeliefYet DEF SendDisbelieve, Incredible, Plain
<1>5. CASE (Send \/ PutFaults) /\ UNCHANGED <<counter, recvVars, pollVars, ackVars>>
  <2>1. ASSUME NEW d \in Data, SendPut(d)
        PROVE  errors' = errors /\ cached' \in {cached, counter} /\ sent + 1 <= cached' + Depth
    <3>1. errors' = errors /\ cached' \in {cached, counter}
      BY <2>1 DEF SendPut
    <3>2. ~Gated(cached')
      BY <2>1 DEF SendPut
    <3>3. sent + 1 <= cached' + Depth
      BY <1>0, <3>1, <3>2 DEF Gated, NextSequence
    <3> QED
      BY <3>1, <3>3
  <2>2. CASE ~(\E d \in Data : SendPut(d))
    <3>1. Attempted' = Attempted
      BY <2>2, AttemptStep
    <3>2. errors' \subseteq {"put"} /\ cached' \in {cached, counter}
      BY <1>3, <1>4, <1>5, <2>2 DEF Send, SendFull, Land, SendReturn, PutFaults, PutFails,
         LandLate
    <3> QED
      BY <1>3, <1>5, <3>1, <3>2 DEF recvVars
  <2>3. CASE \E d \in Data : SendPut(d)
    <3>1. /\ errors' = errors /\ cached' \in {cached, counter}
          /\ sent + 1 <= cached' + Depth
      BY <2>1, <2>3
    <3>2. Attempted' <= sent + 1 /\ counter' = counter
      BY <1>5, AttemptStep
    <3> QED
      BY <1>3, <3>1, <3>2, AttemptStep
  <2> QED
    BY <2>2, <2>3
<1>6. CASE SafePoll /\ UNCHANGED <<sendVars, slots, counter, ackVars>>
  <2>1. errors' = errors
    BY <1>2, <1>6, NotLappedYet DEF SafePoll, PollStart, ReadHead, ProbeMiss, ProbeHit,
       CopyWord, FrameTake, FrameMiss
  <2> QED
    BY <1>3, <1>6, <2>1 DEF sendVars, Attempted
<1>7. CASE (Ack \/ AckFails) /\ UNCHANGED <<sendVars, slots, recvVars, pollVars>>
  <2>1. counter <= counter' /\ counter' <= seen
    <3>1. CASE AckApply
      <4>1. ackpc = "issued" /\ counter = acked
        BY <1>3, <3>1 DEF AckApply
      <4>2. counter' = ackseq /\ acked < ackseq /\ ackseq <= seen
        BY <1>0, <3>1, <4>1, AppliedWhole DEF Plain
      <4> QED
        BY <4>1, <4>2
    <3>2. CASE ~AckApply
      <4>1. counter' = counter
        BY <1>7, <3>2 DEF Ack, AckIssue, AckReturn, AckFails
      <4> QED
        BY <1>3, <4>1
    <3> QED
      BY <3>1, <3>2
  <2>2. errors' = errors
    BY <1>1, <1>2, <1>3, <1>7 DEF Ack, AckIssue, AckApply, AckReturn, AckFails, Undiverged
  <2>3. cached' = cached /\ seen' = seen /\ Attempted' = Attempted /\ counter' \in Nat
    BY <1>7, FaultTypeStep DEF sendVars, recvVars, Attempted, FaultTypeOK, U64
  <2> QED
    BY <1>3, <2>1, <2>2, <2>3
<1>8. CASE UNCHANGED vars
  BY <1>3, <1>8 DEF vars, sendVars, recvVars, Attempted
<1> QED
  BY <1>5, <1>6, <1>7, <1>8, FaultSteps

-----------------------------------------------------------------------------
(* What polls take *)

(* A step takes nothing, or the sequence expected, or drops what the poll  *)
(* had collected and reports it.                                           *)
LEMMA TurnStep ==
  ASSUME FaultInv, [FaultNext]_vars
  PROVE  \/ Taken' = Taken /\ seen' = seen /\ errors \subseteq errors'
         \/ "lapped" \in errors'
         \/ /\ seen' = seen + 1 /\ errors' = errors
            /\ \E m \in Messages : m.sequence = seen + 1 /\ Taken' = Append(Taken, m)
<1>0. batch \in Seq(Messages) /\ delivered \in Seq(Messages)
  BY DEF FaultInv, FaultTypeOK, PollTypeOK, RecvTypeOK
<1>1. CASE (Send \/ PutFaults \/ Ack \/ AckFails) /\ UNCHANGED <<recvVars, pollVars>>
  BY <1>1 DEF Send, SendPut, SendFull, SendDisbelieve, Land, SendReturn, PutFaults,
     PutFails, LandLate, Ack,
     AckIssue, AckApply, AckReturn, AckFails, recvVars, pollVars, Taken
<1>2. CASE PollStart \/ ReadHead \/ ProbeHit \/ (\E w \in Words : CopyWord(w))
  BY <1>2 DEF PollStart, ReadHead, ProbeHit, CopyWord, recvVars, Taken
<1>3. CASE ProbeMiss \/ FrameMiss
  <2>1. /\ delivered' = delivered \o batch /\ batch' = <<>>
        /\ seen' = seen /\ errors' = errors
    BY <1>3 DEF ProbeMiss, FrameMiss, Return, Leave
  <2>2. Taken' = Taken
    BY <1>0, <2>1 DEF Taken
  <2> QED
    BY <2>1, <2>2
<1>4. CASE ProbeLapped
  BY <1>4 DEF ProbeLapped
<1>5. CASE FrameTake
  <2> DEFINE m == Message(Expected, copy.payload)
  <2>1. m \in Messages /\ m.sequence = seen + 1
    BY <1>5, WholeOfOneSend DEF FrameTake, Messages, Message, Expected
  <2>2. \/ delivered' = delivered /\ batch' = Append(batch, m)
        \/ delivered' = delivered \o Append(batch, m) /\ batch' = <<>>
    BY <1>5 DEF FrameTake, Return, Leave
  <2> HIDE DEF m
  <2>3. Append(batch, m) \in Seq(Messages)
    BY <1>0, <2>1
  <2>4. Taken' = delivered \o Append(batch, m)
    <3>1. (delivered \o Append(batch, m)) \o <<>> = delivered \o Append(batch, m)
      BY <1>0, <2>3, ConcatProperties, ConcatEmptySeq
    <3> QED
      BY <2>2, <3>1 DEF Taken
  <2>5. delivered \o Append(batch, m) = Append(Taken, m)
    BY <1>0, <2>1, ConcatThenAppend DEF Taken
  <2>6. seen' = seen + 1 /\ errors' = errors
    BY <1>5 DEF FrameTake, Expected
  <2> QED
    BY <2>1, <2>4, <2>5, <2>6
<1>6. CASE UNCHANGED vars
  BY <1>6 DEF vars, recvVars, pollVars, Taken
<1> QED
  BY <1>1, <1>2, <1>3, <1>4, <1>5, <1>6, FaultSteps DEF SafePoll

(* Until a poll reports, it takes the next sequence and skips none.        *)
LEMMA InTurnStep ==
  ASSUME FaultInv, [FaultNext]_vars
  PROVE  InTurn'
<1>1. SUFFICES ASSUME errors' \cap Reports = {}
               PROVE  Len(Taken') = seen' /\ \A i \in 1..seen' : Taken'[i].sequence = i
  BY DEF InTurn
<1>2. "lapped" \notin errors'
  BY <1>1 DEF Reports
<1>3. Taken \in Seq(Messages) /\ seen \in Nat
  BY FaultNumbers DEF FaultInv, FaultTypeOK, PollTypeOK, RecvTypeOK, Taken
<1>4. errors \subseteq errors'
  BY <1>2, TurnStep
<1>5. Len(Taken) = seen /\ \A i \in 1..seen : Taken[i].sequence = i
  BY <1>1, <1>4 DEF FaultInv, InTurn
<1>6. CASE Taken' = Taken /\ seen' = seen
  BY <1>5, <1>6
<1>7. ASSUME NEW m \in Messages, seen' = seen + 1, m.sequence = seen + 1,
             Taken' = Append(Taken, m)
      PROVE  Len(Taken') = seen' /\ \A i \in 1..seen' : Taken'[i].sequence = i
  <2>1. /\ Len(Taken') = seen + 1 /\ Taken'[seen + 1] = m
        /\ \A i \in 1..seen : Taken'[i] = Taken[i]
    BY <1>3, <1>5, <1>7, AppendProperties
  <2> QED
    BY <1>3, <1>5, <1>7, <2>1
<1> QED
  BY <1>2, <1>6, <1>7, TurnStep

-----------------------------------------------------------------------------
(* Theorems *)

(* A lane starts with nothing tried, credited or taken.                    *)
LEMMA FaultInvInit == Safe /\ Init => FaultInv
<1> SUFFICES ASSUME Safe, Init PROVE FaultInv
  OBVIOUS
<1> USE LaneAssumption
<1>1. FaultTypeOK
  BY InitTypeOK DEF TypeOK, FaultTypeOK, Init
<1>2. Attempted = 0
  BY DEF Init, Attempted, SeqNums
<1>3. Trying
  BY DEF Init, Trying, SeqNums
<1>4. Placing
  BY DEF Init, Placing, Put, Zeroed
<1>5. Plain /\ Room /\ Credited
  BY <1>2 DEF Init, Plain, Room, Credited
<1>6. InTurn
  BY DEF Init, InTurn, Taken
<1> QED
  BY <1>1, <1>3, <1>4, <1>5, <1>6 DEF FaultInv

(* Whatever fails and however often, the slots hold words of attempted     *)
(* sends in their places, the cursor stays within what was attempted, and  *)
(* what the receiver tracks of the counter is true until an                *)
(* acknowledgement fails.                                                  *)
THEOREM FaultInvariant == Safe /\ FaultSpec => []FaultInv
<1>1. FaultInv /\ [FaultNext]_vars => FaultInv'
  BY FaultTypeStep, AttemptStep, PlacingStep, PlainStep, RoomStep, CreditedStep, InTurnStep
  DEF FaultInv
<1> QED
  BY <1>1, FaultInvInit, PTL DEF FaultSpec

(* The words of a failed Put never mix with those of its retry into a      *)
(* message: poll takes the whole image of one send.                        *)
THEOREM UnmixedTheorem == Safe /\ FaultSpec => Unmixed
<1>1. FaultInv /\ [FaultNext]_vars
        => [seen' > seen => copy \in {Image(Expected, d) : d \in Data}]_vars
  <2> SUFFICES ASSUME FaultInv, [FaultNext]_vars, seen' > seen
               PROVE  copy \in {Image(Expected, d) : d \in Data}
    OBVIOUS
  <2>1. FrameTake
    <3>1. seen' # seen
      BY FaultNumbers
    <3> QED
      BY <3>1, FaultSteps DEF SafePoll, PollStart, ReadHead, ProbeMiss, ProbeHit,
         ProbeLapped, CopyWord, FrameMiss, recvVars, vars
  <2> QED
    BY <2>1, WholeOfOneSend DEF FrameTake
<1> QED
  BY <1>1, FaultInvariant, PTL DEF FaultSpec, Unmixed

(* Failed Puts alone never make a run-time check fire, however often they  *)
(* are retried: the send after a failed one passes the gate without        *)
(* reading a counter that may already be past `sent`.                      *)
THEOREM PutFaultsHarmlessTheorem == Safe /\ FaultSpec => []PutFaultsHarmless
<1>1. FaultInv => PutFaultsHarmless
  BY DEF FaultInv, Room, PutFaultsHarmless
<1> QED
  BY <1>1, FaultInvariant, PTL

(* One failed acknowledgement leaves the counter true or is found out by   *)
(* the next one: credit for an unread slot is never given silently.        *)
THEOREM OvercreditReportedTheorem == Safe /\ FaultSpec => []OvercreditReported
<1>1. FaultInv => OvercreditReported
  <2> SUFFICES ASSUME FaultInv PROVE OvercreditReported
    OBVIOUS
  <2>1. ASSUME "ack again" \notin errors, "diverged" \notin errors, ackpc = "idle"
        PROVE  counter <= seen
    <3>1. errors \cap {"ack again", "diverged"} = {}
      BY <2>1
    <3> QED
      BY <2>1, <3>1 DEF FaultInv, Credited
  <2>2. counter > seen => ~(counter <= seen)
    BY FaultNumbers
  <2> QED
    BY <2>1, <2>2, Zenon DEF OvercreditReported
<1> QED
  BY <1>1, FaultInvariant, PTL

(* Whatever fails, a safe lane neither skips a sequence nor drops one it   *)
(* has polled, until a check reports it broken.                            *)
THEOREM NoSilentLossTheorem == Safe /\ FaultSpec => []NoSilentLoss
<1>1. FaultInv => NoSilentLoss
  <2> SUFFICES ASSUME FaultInv, errors \cap Reports = {}
               PROVE  [i \in DOMAIN Taken |-> Taken[i].sequence] = [i \in 1..seen |-> i]
    BY DEF NoSilentLoss
  <2>1. Len(Taken) = seen /\ \A i \in 1..seen : Taken[i].sequence = i
    BY DEF FaultInv, InTurn
  <2>2. Taken \in Seq(Messages)
    BY DEF FaultInv, FaultTypeOK, PollTypeOK, RecvTypeOK, Taken
  <2>3. DOMAIN Taken = 1..seen
    BY <2>1, <2>2
  <2> QED
    BY <2>1, <2>3
<1> QED
  BY <1>1, FaultInvariant, PTL

=============================================================================
