--------------------------- MODULE ByteProbeProofs ---------------------------
(***************************************************************************)
(* Reading a slot byte by byte, for words of any size, any number of slots *)
(* and of messages, on safe and raw lanes.  Whatever bytes a probe has     *)
(* mixed, the frame's checksum and the cursor decide alone what a poll     *)
(* hands out; and what had been sent when a poll began is in place, every  *)
(* byte of it, until the sender overruns that poll.                        *)
(***************************************************************************)
EXTENDS ByteProbe, SequenceTheorems, TLAPS

-----------------------------------------------------------------------------
(* Words and positions *)

(* The bytes of a word make that word. *)
LEMMA JoinedWord ==
  ASSUME NEW s \in Int
  PROVE  /\ Split(s) \in Int \X Int
         /\ Word(Split(s)[1], Split(s)[2]) = s
<1>1. Base \in Nat /\ Base > 0
  BY ByteAssumption
<1>2. s % Base \in Int /\ s \div Base \in Int
  BY <1>1
<1>3. s = Base * (s \div Base) + (s % Base)
  BY <1>1
<1> DEFINE low == s % Base
           high == s \div Base
<1>4. Split(s) = <<low, high>> /\ Word(low, high) = low + Base * high
  BY DEF Split, Word
<1> HIDE DEF low, high
<1>5. Split(s) \in Int \X Int /\ Split(s)[1] = low /\ Split(s)[2] = high
  BY <1>2, <1>4 DEF low, high
<1>6. low + Base * high = s
  BY <1>1, <1>2, <1>3 DEF low, high
<1> QED
  BY <1>4, <1>5, <1>6

LEMMA NotIsInt ==
  ASSUME NEW s \in Int
  PROVE  Not(s) \in Int
<1>1. Base \in Int /\ Base * Base \in Int
  BY ByteAssumption
<1> QED
  BY <1>1 DEF Not, MaxU64

LEMMA PositionInLane ==
  ASSUME NEW s \in Nat, s > 0
  PROVE  Position(s) \in Positions
BY ByteAssumption DEF Position, Positions

(* Two sequences that share a position are at least Depth apart. *)
LEMMA SharedPosition ==
  ASSUME NEW a \in Nat, NEW b \in Nat, a > 0, a < b, Position(a) = Position(b)
  PROVE  b >= a + Depth
<1> DEFINE p == (a - 1) % Depth
           j == (a - 1) \div Depth
           k == (b - 1) \div Depth
<1>1. Depth \in Nat /\ Depth > 0
  BY ByteAssumption
<1>2. a - 1 = Depth * j + p /\ b - 1 = Depth * k + p
  BY <1>1 DEF Position
<1>3. j \in Int /\ k \in Int /\ p \in Int
  BY <1>1
<1>4. b - a = Depth * (k - j)
  BY <1>1, <1>2, <1>3
<1>5. k - j >= 1
  BY <1>1, <1>3, <1>4
<1>6. Depth * (k - j) >= Depth
  BY <1>1, <1>3, <1>5
<1> QED
  BY <1>1, <1>3, <1>4, <1>6

(* Slot memory, or a copy of it: each part may be of another sequence. *)
Memory == [head : Int \X Int, body : Nat, guard : Int \X Int]

LEMMA SlotInMemory ==
  ASSUME NEW s \in Nat
  PROVE  Slot(s) \in Memory
<1>1. Split(s) \in Int \X Int /\ Split(Not(s)) \in Int \X Int
  BY JoinedWord, NotIsInt
<1> QED
  BY <1>1 DEF Slot, Memory

LEMMA SameParts ==
  ASSUME NEW a \in Memory, NEW b \in Memory, \A w \in Parts : a[w] = b[w]
  PROVE  a = b
BY DEF Memory, Parts

-----------------------------------------------------------------------------
(* The sender.  A slot is only reused Depth sequences later: the last      *)
(* Depth messages are whole, but for the slot the Put in flight replaces.  *)

SendTypes ==
  /\ sent \in Nat /\ sending \in BOOLEAN
  /\ unlanded \subseteq {<<sent + 1, w>> : w \in Parts}
  /\ ~sending => unlanded = {}
  /\ slots \in [Positions -> Memory]

(* The words of the Put in flight that have landed are in place. *)
Landing ==
  sending =>
    \A w \in Parts :
      <<sent + 1, w>> \notin unlanded => slots[Position(sent + 1)][w] = Slot(sent + 1)[w]

Retained == \A s \in 1..sent : s + Depth > Issued => slots[Position(s)] = Slot(s)

SendInv == SendTypes /\ Landing /\ Retained

(* The actions that touch neither the slots nor what was sent. *)
LEMMA SendFrame ==
  ASSUME [Next]_vars, ~Send, ~SendReturn,
         ~(\E s \in 1..Limit, w \in Parts : Land(s, w))
  PROVE  UNCHANGED <<sent, sending, unlanded, slots>>
BY DEF Next, Ack, PollStart, ProbeByte, ProbeMiss, ProbeHit, ProbeLapped, ProbeRecover,
   CopyWord, FrameTake, FrameMiss, ScanSkip, ScanFrame, ScanOn, Survivor, Recovered,
   vars, sendVars

(* A word lands in the slot of the Put in flight, and in no slot of a      *)
(* message that is retained.                                               *)
LEMMA LandStep ==
  ASSUME SendInv, NEW s \in 1..Limit, NEW w \in Parts, Land(s, w)
  PROVE  SendInv'
<1> DEFINE p == Position(sent + 1)
<1>1. /\ <<s, w>> \in unlanded /\ unlanded' = unlanded \ {<<s, w>>}
      /\ slots' = [slots EXCEPT ![Position(s)][w] = Slot(s)[w]]
      /\ sent' = sent /\ sending' = sending
  BY DEF Land
<1>2. s = sent + 1 /\ sending /\ sent \in Nat /\ Depth \in Nat
  BY <1>1, ByteAssumption DEF SendInv, SendTypes
<1>3. p \in Positions /\ slots[p] \in Memory /\ Slot(s) \in Memory
  BY <1>2, PositionInLane, SlotInMemory DEF SendInv, SendTypes
<1>4. slots' = [slots EXCEPT ![p] = [slots[p] EXCEPT ![w] = Slot(s)[w]]]
  BY <1>1, <1>2
<1>5. [slots[p] EXCEPT ![w] = Slot(s)[w]] \in Memory
  BY <1>3 DEF Memory, Parts
<1> HIDE DEF p
<1>6. /\ slots' \in [Positions -> Memory]
      /\ slots'[p] = [slots[p] EXCEPT ![w] = Slot(s)[w]]
      /\ \A q \in Positions \ {p} : slots'[q] = slots[q]
  BY <1>3, <1>4, <1>5 DEF SendInv, SendTypes
<1>7. SendTypes'
  BY <1>1, <1>2, <1>6 DEF SendInv, SendTypes
<1>8. Landing'
  <2> SUFFICES ASSUME NEW v \in Parts, <<sent + 1, v>> \notin unlanded'
               PROVE  slots'[p][v] = Slot(sent + 1)[v]
    BY <1>1 DEF Landing, p
  <2>1. CASE v = w
    BY <1>2, <1>3, <1>6, <2>1 DEF Memory, Parts
  <2>2. CASE v # w
    <3>1. <<sent + 1, v>> \notin unlanded
      BY <1>1, <2>2
    <3>2. slots[p][v] = Slot(sent + 1)[v]
      BY <1>2, <3>1 DEF SendInv, Landing, p
    <3> QED
      BY <1>3, <1>6, <2>2, <3>2 DEF Memory, Parts
  <2> QED
    BY <2>1, <2>2
<1>9. Retained'
  <2>1. Issued = sent + 1 /\ Issued' = sent + 1
    BY <1>1, <1>2 DEF Issued
  <2> SUFFICES ASSUME NEW t \in 1..sent, t + Depth > sent + 1
               PROVE  slots'[Position(t)] = Slot(t)
    BY <1>1, <2>1 DEF Retained
  <2>2. t \in Nat /\ t > 0 /\ t < sent + 1
    BY <1>2
  <2>3. Position(t) # p
    BY <1>2, <2>2, SharedPosition DEF p
  <2>4. slots'[Position(t)] = slots[Position(t)]
    BY <1>6, <2>2, <2>3, PositionInLane
  <2> QED
    BY <2>1, <2>4 DEF SendInv, Retained
<1> QED
  BY <1>7, <1>8, <1>9 DEF SendInv

LEMMA SendInvStep ==
  ASSUME SendInv, [Next]_vars
  PROVE  SendInv'
<1>1. CASE Send
  <2>1. /\ ~sending /\ sending' = TRUE /\ sent' = sent /\ slots' = slots
        /\ unlanded' = unlanded \cup {<<sent + 1, w>> : w \in Parts}
    BY <1>1 DEF Send
  <2>2. SendTypes' /\ Landing'
    BY <2>1 DEF SendInv, SendTypes, Landing
  <2>3. Issued = sent /\ Issued' = sent + 1 /\ sent \in Nat /\ Depth \in Nat
    BY <2>1, ByteAssumption DEF Issued, SendInv, SendTypes
  <2>4. Retained'
    BY <2>1, <2>3 DEF SendInv, Retained
  <2> QED
    BY <2>2, <2>4 DEF SendInv
<1>2. CASE SendReturn
  <2>1. /\ sending /\ unlanded = {} /\ UNCHANGED <<unlanded, slots>>
        /\ sent' = sent + 1 /\ sending' = FALSE
    BY <1>2 DEF SendReturn, Flushed
  <2>2. sent \in Nat /\ Issued = sent + 1 /\ Issued' = sent + 1
    BY <2>1 DEF SendInv, SendTypes, Issued
  <2>3. slots[Position(sent + 1)] = Slot(sent + 1)
    <3>1. slots[Position(sent + 1)] \in Memory /\ Slot(sent + 1) \in Memory
      BY <2>2, PositionInLane, SlotInMemory DEF SendInv, SendTypes
    <3>2. \A w \in Parts : slots[Position(sent + 1)][w] = Slot(sent + 1)[w]
      BY <2>1 DEF SendInv, Landing
    <3> QED
      BY <3>1, <3>2, SameParts
  <2>4. SendTypes' /\ Landing'
    <3>1. sent' \in Nat
      BY <2>1, <2>2
    <3>2. sending' \in BOOLEAN /\ unlanded' = {} /\ ~sending'
      BY <2>1, Zenon
    <3>3. slots' \in [Positions -> Memory]
      BY <2>1 DEF SendInv, SendTypes
    <3>4. unlanded' \subseteq {<<sent' + 1, w>> : w \in Parts}
      BY <3>2
    <3> QED
      BY <3>1, <3>2, <3>3, <3>4 DEF SendTypes, Landing
  <2>5. Retained'
    <3> SUFFICES ASSUME NEW t \in 1..(sent + 1), t + Depth > sent + 1
                 PROVE  slots[Position(t)] = Slot(t)
      BY <2>1, <2>2 DEF Retained
    <3>1. t = sent + 1 \/ t \in 1..sent
      BY <2>2
    <3> QED
      BY <2>2, <2>3, <3>1 DEF SendInv, Retained
  <2> QED
    BY <2>4, <2>5 DEF SendInv
<1>3. CASE UNCHANGED <<sent, sending, unlanded, slots>>
  BY <1>3 DEF SendInv, SendTypes, Landing, Retained, Issued
<1> QED
  BY <1>1, <1>2, <1>3, SendFrame, LandStep

(* The sender only goes forward. *)
LEMMA IssuedGrows ==
  ASSUME SendInv, [Next]_vars
  PROVE  /\ Issued \in Nat /\ Issued' \in Nat /\ Issued <= Issued'
         /\ sent \in Nat /\ sent' \in Nat /\ sent <= sent' /\ sent <= Issued
<1>1. sent \in Nat /\ sent' \in Nat /\ sending \in BOOLEAN
  BY SendInvStep DEF SendInv, SendTypes
<1>2. CASE Send
  BY <1>1, <1>2 DEF Send, Issued
<1>3. CASE SendReturn
  BY <1>1, <1>3 DEF SendReturn, Issued
<1>4. ASSUME NEW s \in 1..Limit, NEW w \in Parts, Land(s, w)
      PROVE  sent' = sent /\ sending' = sending
  BY <1>4 DEF Land
<1>5. CASE sent' = sent /\ sending' = sending
  BY <1>1, <1>5 DEF Issued
<1> QED
  BY <1>2, <1>3, <1>4, <1>5, SendFrame

-----------------------------------------------------------------------------
(* The poll.  What it has found and taken is in order and beyond what was  *)
(* taken before; only a raw lane recovers, and only by what it has found.  *)

Taking == Nat \X Nat

Framing == Int \X Int

PollTypes ==
  /\ seen \in Nat /\ lost \in Nat /\ lapped \in BOOLEAN /\ recovering \in BOOLEAN
  /\ safe \in BOOLEAN
  /\ pc \in {"idle", "probe", "frame", "deliver"}
  /\ at \in Positions /\ read \in Seq(Int) /\ copy \in Memory
  /\ behind \in Nat /\ due \in Nat

Scanning ==
  /\ \A m \in frames : m \in Taking /\ m[2] = m[1] /\ m[1] > seen
  /\ frames # {} \/ pc = "deliver" => recovering
  /\ pc = "idle" => ~recovering
  /\ safe => ~recovering

Ordered(q, upto) ==
  /\ \A i \in 1..Len(q) : q[i][2] = q[i][1] /\ q[i][1] \in 1..upto
  /\ \A i \in 2..Len(q) : q[i - 1][1] < q[i][1]

Tally ==
  /\ delivered \in Seq(Taking) /\ batch \in Seq(Taking)
  /\ Ordered(Taken, seen)
  /\ ~lapped => Len(Taken) + lost = seen

Accounts == Tally /\ (safe => lost = 0)

ProbeInv == SendInv /\ PollTypes /\ Scanning /\ Accounts

(* The steps of the sender and of the acknowledgement. *)
Beside == Send \/ (\E s \in 1..Limit, w \in Parts : Land(s, w)) \/ SendReturn
          \/ (\E s \in 1..Limit : Ack(s)) \/ UNCHANGED vars

LEMMA BesideFrame ==
  ASSUME Beside
  PROVE  UNCHANGED <<safe, seen, lost, pc, recovering, at, read, copy, uncopied, frames,
                     batch, behind, due, delivered, lapped>>
BY DEF Beside, Send, Land, SendReturn, Ack, cursor, sendVars, pollVars, vars

(* A lane stays what it was made. *)
LEMMA SafeFixed ==
  ASSUME [Next]_vars
  PROVE  safe' = safe
BY DEF Next, Send, Land, SendReturn, Ack, PollStart, ProbeByte, ProbeMiss, ProbeHit,
   ProbeLapped, ProbeRecover, CopyWord, FrameTake, FrameMiss, ScanSkip, ScanFrame, ScanOn,
   Survivor, Recovered, vars, sendVars

(* What ends a poll, and what moves it to another slot. *)
LEMMA Fresh ==
  /\ 0 \in Positions /\ <<>> \in Seq(Int) /\ Slot(0) \in Memory
BY SlotInMemory, ByteAssumption DEF Positions

(* What a copy says it is. *)
LEMMA FramedIsInt ==
  ASSUME copy \in Memory
  PROVE  Framed \in Int /\ copy.body \in Nat
<1>1. Base \in Int
  BY ByteAssumption
<1>2. copy.head \in Int \X Int /\ copy.body \in Nat
  BY DEF Memory
<1>3. copy.head[1] \in Int /\ copy.head[2] \in Int
  BY <1>2
<1> QED
  BY <1>1, <1>2, <1>3 DEF Framed, Word

LEMMA PollTypesStep ==
  ASSUME ProbeInv, [Next]_vars
  PROVE  PollTypes'
<1>0. /\ PollTypes /\ Scanning /\ slots \in [Positions -> Memory] /\ sent \in Nat
      /\ Depth \in Nat /\ Depth > 0 /\ safe \in BOOLEAN /\ safe' = safe
  BY ByteAssumption, SafeFixed DEF PollTypes, ProbeInv, SendInv, SendTypes
<1>1. CASE Beside
  BY <1>0, <1>1, BesideFrame DEF PollTypes
<1>2. ASSUME NEW q, Return(q), UNCHANGED cursor, lapped' \in BOOLEAN
      PROVE  PollTypes'
  BY <1>0, <1>2, Fresh DEF PollTypes, Return, cursor
<1>3. ASSUME NEW p \in Positions, ProbeAt(p), seen' \in Nat, lost' \in Nat, behind' \in Nat,
             due' \in Nat, lapped' = lapped, recovering' \in BOOLEAN
      PROVE  PollTypes'
  BY <1>0, <1>3, Fresh DEF PollTypes, ProbeAt
<1>4. Position(seen + 1) \in Positions /\ Position(seen + 2) \in Positions
  BY <1>0, PositionInLane DEF PollTypes
<1>5. CASE PollStart
  BY <1>0, <1>3, <1>4, <1>5 DEF PollStart, Expected, cursor, PollTypes
<1>6. CASE ProbeByte
  <2>1. slots[at] \in Memory
    BY <1>0 DEF PollTypes
  <2>2. /\ slots[at].head[1] \in Int /\ slots[at].head[2] \in Int
        /\ slots[at].guard[1] \in Int /\ slots[at].guard[2] \in Int
    BY <2>1 DEF Memory
  <2> DEFINE n == Len(read)
             b == IF n < 2 THEN slots[at].head[n + 1] ELSE slots[at].guard[n - 1]
  <2>3. read' = Append(read, b)
    BY <1>6 DEF ProbeByte, Here
  <2>4. n \in {0, 1, 2, 3}
    <3>1. n \in Nat
      BY <1>0, LenProperties DEF PollTypes
    <3>2. n < 4
      BY <1>6 DEF ProbeByte
    <3> HIDE DEF n
    <3> QED
      BY <3>1, <3>2
  <2> HIDE DEF n
  <2>5. b \in Int
    <3>1. CASE n = 0
      BY <2>2, <3>1
    <3>2. CASE n = 1
      BY <2>2, <3>2
    <3>3. CASE n = 2
      BY <2>2, <3>3
    <3>4. CASE n = 3
      BY <2>2, <3>4
    <3> QED
      BY <2>4, <3>1, <3>2, <3>3, <3>4
  <2>6. read' \in Seq(Int)
    BY <1>0, <2>3, <2>5, AppendProperties DEF PollTypes
  <2> QED
    BY <1>0, <1>6, <2>6 DEF ProbeByte, PollTypes, cursor
<1>7. CASE ProbeMiss \/ ProbeLapped \/ FrameMiss \/ Recovered
  BY <1>0, <1>2, <1>7 DEF ProbeMiss, ProbeLapped, FrameMiss, Recovered, PollTypes, cursor
<1>8. CASE ProbeHit
  BY <1>0, <1>8 DEF ProbeHit, PollTypes, cursor
<1>9. CASE ProbeRecover
  BY <1>0, <1>3, <1>9, Fresh DEF ProbeRecover, PollTypes, cursor
<1>10. ASSUME NEW w \in Parts, CopyWord(w)
       PROVE  PollTypes'
  <2>1. slots[at] \in Memory /\ copy \in Memory
    BY <1>0 DEF PollTypes
  <2>2. copy' = [copy EXCEPT ![w] = slots[at][w]]
    BY <1>10 DEF CopyWord, Here
  <2>3. copy' \in Memory
    BY <2>1, <2>2 DEF Memory, Parts
  <2> QED
    BY <1>0, <1>10, <2>3 DEF CopyWord, PollTypes, cursor
<1>11. CASE FrameTake
  <2>1. /\ seen' = seen + 1 /\ lost' = lost /\ lapped' = lapped
        /\ \/ /\ ProbeAt(Position(seen + 2))
              /\ UNCHANGED <<recovering, behind, due>>
           \/ Return(Append(batch, Message(Framed, copy.body)))
    BY <1>0, <1>11 DEF FrameTake, Expected, PollTypes
  <2>2. seen' \in Nat /\ lost' \in Nat /\ lapped' \in BOOLEAN
    BY <1>0, <2>1 DEF PollTypes
  <2>3. CASE ProbeAt(Position(seen + 2)) /\ UNCHANGED <<recovering, behind, due>>
    BY <1>0, <1>3, <1>4, <2>1, <2>2, <2>3 DEF PollTypes
  <2>4. CASE Return(Append(batch, Message(Framed, copy.body)))
    BY <1>0, <2>2, <2>4, Fresh DEF PollTypes, Return
  <2> QED
    BY <2>1, <2>3, <2>4
<1>12. ASSUME NEW found, ScanOn(found)
       PROVE  PollTypes'
  <2>1. UNCHANGED <<seen, lost, recovering, behind, due, lapped>>
    BY <1>12 DEF ScanOn, cursor
  <2>2. CASE at + 1 < Depth
    <3>1. at + 1 \in Positions
      BY <1>0, <2>2 DEF PollTypes, Positions
    <3> QED
      BY <1>0, <1>3, <1>12, <2>1, <2>2, <3>1 DEF ScanOn, PollTypes
  <2>3. CASE ~(at + 1 < Depth)
    BY <1>0, <1>12, <2>1, <2>3, Fresh DEF ScanOn, PollTypes
  <2> QED
    BY <2>2, <2>3
<1>13. CASE ScanSkip \/ ScanFrame
  BY <1>12, <1>13 DEF ScanSkip, ScanFrame
<1>14. CASE Survivor
  <2>1. PICK m \in frames : /\ lost' = lost + Gap(m) /\ seen' = m[1]
    BY <1>14 DEF Survivor
  <2>2. m \in Taking /\ m[1] > seen
    BY <1>0 DEF Scanning
  <2>3. seen' \in Nat /\ lost' \in Nat
    BY <1>0, <2>1, <2>2 DEF Taking, Gap, Expected, PollTypes
  <2> QED
    BY <1>0, <1>14, <2>3 DEF Survivor, PollTypes
<1> QED
  BY <1>1, <1>5, <1>6, <1>7, <1>8, <1>9, <1>10, <1>11, <1>13, <1>14 DEF Next, Beside

(* What recover has found goes with it. *)
LEMMA ScanningStep ==
  ASSUME ProbeInv, [Next]_vars
  PROVE  Scanning'
<1>0. PollTypes /\ Scanning /\ safe \in BOOLEAN /\ safe' = safe
  BY SafeFixed DEF ProbeInv, PollTypes
<1>1. CASE Beside
  BY <1>0, <1>1, BesideFrame DEF Scanning
<1>2. ASSUME NEW q, Return(q)
      PROVE  Scanning'
  BY <1>2 DEF Scanning, Return
<1>3. CASE PollStart \/ ProbeByte \/ ProbeHit \/ \E w \in Parts : CopyWord(w)
  <2>1. UNCHANGED <<seen, recovering, frames>> /\ pc' \in {"probe", "frame"}
    BY <1>3 DEF PollStart, ProbeByte, ProbeHit, CopyWord, ProbeAt, cursor
  <2> QED
    BY <1>0, <2>1 DEF Scanning
<1>4. CASE ProbeMiss \/ ProbeLapped \/ FrameMiss \/ Recovered
  BY <1>2, <1>4 DEF ProbeMiss, ProbeLapped, FrameMiss, Recovered
<1>5. CASE ProbeRecover
  BY <1>0, <1>5 DEF ProbeRecover, ProbeAt, Scanning, cursor
<1>6. CASE FrameTake
  <2>1. CASE \E q : Return(q)
    BY <1>2, <2>1
  <2>2. CASE ProbeAt(Position(Expected + 1)) /\ UNCHANGED <<recovering, frames>>
    BY <1>0, <1>6, <2>2 DEF FrameTake, ProbeAt, Scanning
  <2> QED
    BY <1>6, <2>1, <2>2 DEF FrameTake
<1>7. ASSUME NEW found, ScanOn(found), recovering, pc # "idle",
             \A m \in found : m \in Taking /\ m[2] = m[1] /\ m[1] > seen
      PROVE  Scanning'
  BY <1>0, <1>7 DEF ScanOn, ProbeAt, Scanning, cursor
<1>8. CASE ScanSkip
  BY <1>0, <1>7, <1>8 DEF ScanSkip, Read, Scanning
<1>9. CASE ScanFrame
  <2>1. recovering /\ pc # "idle"
    BY <1>9 DEF ScanFrame, Copied
  <2>2. CASE Whole /\ Framed > seen
    <3> DEFINE m == Message(Framed, copy.body)
    <3>1. m \in Taking /\ m[2] = m[1] /\ m[1] > seen
      BY <1>0, <2>2, FramedIsInt DEF Whole, Message, Taking, PollTypes
    <3>2. ScanOn(frames \cup {m})
      BY <1>9, <2>2 DEF ScanFrame
    <3> HIDE DEF m
    <3> QED
      BY <1>0, <1>7, <2>1, <3>1, <3>2 DEF Scanning
  <2>3. CASE ~(Whole /\ Framed > seen)
    <3>1. ScanOn(frames)
      BY <1>9, <2>3 DEF ScanFrame
    <3> QED
      BY <1>0, <1>7, <2>1, <3>1 DEF Scanning
  <2> QED
    BY <2>2, <2>3
<1>10. CASE Survivor
  <2>1. PICK m \in frames : /\ Oldest(m) /\ seen' = m[1]
                            /\ frames' = frames \ {m}
    BY <1>10 DEF Survivor
  <2>2. UNCHANGED <<pc, recovering>> /\ pc = "deliver"
    BY <1>10 DEF Survivor
  <2>3. ASSUME NEW n \in frames'
        PROVE  n \in Taking /\ n[2] = n[1] /\ n[1] > m[1]
    <3>1. n \in frames /\ n # m /\ m[1] <= n[1]
      BY <2>1 DEF Oldest
    <3>2. /\ n \in Nat \X Nat /\ n[2] = n[1]
          /\ m \in Nat \X Nat /\ m[2] = m[1]
      BY <1>0, <3>1 DEF Scanning, Taking
    <3>3. n[1] # m[1]
      <4>1. n = <<n[1], n[1]>> /\ m = <<m[1], m[1]>>
        BY <3>2
      <4> QED
        BY <3>1, <4>1
    <3> QED
      BY <3>1, <3>2, <3>3 DEF Taking
  <2> QED
    BY <1>0, <2>1, <2>2, <2>3 DEF Scanning
<1> QED
  BY <1>1, <1>3, <1>4, <1>5, <1>6, <1>8, <1>9, <1>10 DEF Next, Beside

(* A message past the cursor goes after all that were taken. *)
LEMMA OrderedAppend ==
  ASSUME NEW q \in Seq(Taking), NEW n \in Nat, NEW m \in Taking, Ordered(q, n),
         m[2] = m[1], m[1] > n
  PROVE  /\ Append(q, m) \in Seq(Taking) /\ Len(Append(q, m)) = Len(q) + 1
         /\ Ordered(Append(q, m), m[1])
<1> DEFINE longer == Append(q, m)
           N == Len(q)
<1>1. /\ longer \in Seq(Taking) /\ Len(longer) = N + 1 /\ N \in Nat
      /\ longer[N + 1] = m /\ \A i \in 1..N : longer[i] = q[i]
  BY AppendProperties, LenProperties
<1>2. m[1] \in Nat
  BY DEF Taking
<1>3. \A i \in 1..N : q[i][2] = q[i][1] /\ q[i][1] \in 1..n
  BY DEF Ordered
<1>4. \A i \in 2..N : q[i - 1][1] < q[i][1]
  BY DEF Ordered
<1> HIDE DEF longer, N
<1>5. \A i \in 1..N + 1 : longer[i][2] = longer[i][1] /\ longer[i][1] \in 1..m[1]
  <2> SUFFICES ASSUME NEW i \in 1..N + 1
               PROVE  longer[i][2] = longer[i][1] /\ longer[i][1] \in 1..m[1]
    OBVIOUS
  <2>1. CASE i = N + 1
    BY <1>1, <1>2, <2>1
  <2>2. CASE i \in 1..N
    BY <1>1, <1>2, <1>3, <2>2
  <2> QED
    BY <1>1, <2>1, <2>2
<1>6. \A i \in 2..N + 1 : longer[i - 1][1] < longer[i][1]
  <2> SUFFICES ASSUME NEW i \in 2..N + 1 PROVE longer[i - 1][1] < longer[i][1]
    OBVIOUS
  <2>1. CASE i = N + 1
    <3>1. i - 1 \in 1..N
      BY <1>1, <2>1
    <3>2. longer[i - 1][1] \in 1..n
      BY <1>1, <1>3, <3>1
    <3> QED
      BY <1>1, <1>2, <2>1, <3>2
  <2>2. CASE i \in 2..N
    <3>1. i - 1 \in 1..N /\ i \in 1..N
      BY <1>1, <2>2
    <3> QED
      BY <1>1, <1>4, <2>2, <3>1
  <2> QED
    BY <1>1, <2>1, <2>2
<1> QED
  BY <1>1, <1>5, <1>6 DEF Ordered, longer, N

(* What was delivered before a poll is in order by itself. *)
LEMMA OrderedPrefix ==
  ASSUME NEW d \in Seq(Taking), NEW b \in Seq(Taking), NEW n \in Nat, Ordered(d \o b, n)
  PROVE  Ordered(d, n)
<1> DEFINE q == d \o b
<1>1. /\ Len(q) = Len(d) + Len(b) /\ Len(d) \in Nat /\ Len(b) \in Nat
      /\ \A i \in 1..Len(d) : q[i] = d[i]
  BY ConcatProperties, LenProperties
<1> HIDE DEF q
<1>2. \A i \in 1..Len(d) : i \in 1..Len(q)
  BY <1>1
<1>3. \A i \in 2..Len(d) : i \in 2..Len(q) /\ i \in 1..Len(d) /\ i - 1 \in 1..Len(d)
  BY <1>1
<1>4. /\ \A i \in 1..Len(q) : q[i][2] = q[i][1] /\ q[i][1] \in 1..n
      /\ \A i \in 2..Len(q) : q[i - 1][1] < q[i][1]
  BY DEF Ordered, q
<1>5. \A i \in 1..Len(d) : d[i][2] = d[i][1] /\ d[i][1] \in 1..n
  BY <1>1, <1>2, <1>4
<1>6. \A i \in 2..Len(d) : d[i - 1][1] < d[i][1]
  BY <1>1, <1>3, <1>4
<1> QED
  BY <1>5, <1>6 DEF Ordered

(* Appending to the second of two sequences appends to their concatenation. *)
LEMMA ConcatThenAppend ==
  ASSUME NEW S, NEW s \in Seq(S), NEW t \in Seq(S), NEW m \in S
  PROVE  s \o Append(t, m) = Append(s \o t, m)
<1>1. <<m>> \in Seq(S) /\ s \o t \in Seq(S)
  BY ConcatProperties
<1>2. Append(t, m) = t \o <<m>> /\ Append(s \o t, m) = (s \o t) \o <<m>>
  BY <1>1, AppendIsConcat
<1> QED
  BY <1>1, <1>2, ConcatAssociative

(* Handing a batch out leaves what was taken as it was. *)
LEMMA ReturnKeepsTaken ==
  ASSUME NEW d \in Seq(Taking), NEW b \in Seq(Taking), delivered' = d \o b, batch' = <<>>
  PROVE  Taken' = d \o b /\ d \o b \in Seq(Taking)
<1>1. d \o b \in Seq(Taking)
  BY ConcatProperties
<1>2. (d \o b) \o <<>> = d \o b
  BY <1>1, ConcatEmptySeq
<1> QED
  BY <1>1, <1>2 DEF Taken

(* Taking a message past the cursor, in the poll or returning from it. *)
Takes(m) ==
  /\ seen' = m[1] /\ lost' = lost + (m[1] - (seen + 1)) /\ lapped' = lapped
  /\ \/ batch' = Append(batch, m) /\ delivered' = delivered
     \/ Return(Append(batch, m))

LEMMA TakeStep ==
  ASSUME ProbeInv, NEW m \in Taking, m[2] = m[1], m[1] > seen, Takes(m)
  PROVE  Tally'
<1> DEFINE messages == Append(batch, m)
<1>1. /\ seen \in Nat /\ lost \in Nat /\ m[1] \in Nat /\ lapped \in BOOLEAN
      /\ delivered \in Seq(Taking) /\ batch \in Seq(Taking) /\ Taken \in Seq(Taking)
  BY ConcatProperties DEF ProbeInv, PollTypes, Accounts, Tally, Taken, Taking
<1>2. messages \in Seq(Taking) /\ delivered \o messages = Append(Taken, m)
  <2>1. messages \in Seq(Taking)
    BY <1>1, AppendProperties
  <2>2. delivered \o Append(batch, m) = Append(delivered \o batch, m)
    BY <1>1, ConcatThenAppend
  <2> QED
    BY <2>1, <2>2 DEF Taken
<1> HIDE DEF messages
<1>3. /\ Taken' = Append(Taken, m)
      /\ delivered' \in Seq(Taking) /\ batch' \in Seq(Taking)
  <2>1. CASE batch' = messages /\ delivered' = delivered
    BY <1>1, <1>2, <2>1 DEF Taken
  <2>2. CASE Return(messages)
    <3>1. delivered' = delivered \o messages /\ batch' = <<>>
      BY <2>2 DEF Return
    <3>2. Taken' = delivered \o messages /\ delivered \o messages \in Seq(Taking)
      BY <1>1, <1>2, <3>1, ReturnKeepsTaken
    <3>3. <<>> \in Seq(Taking)
      OBVIOUS
    <3> QED
      BY <1>2, <3>1, <3>2, <3>3
  <2> QED
    BY <2>1, <2>2 DEF messages, Takes
<1>4. /\ Ordered(Append(Taken, m), m[1])
      /\ Len(Append(Taken, m)) = Len(Taken) + 1
  BY <1>1, OrderedAppend DEF ProbeInv, Accounts, Tally
<1>5. Ordered(Taken', seen')
  BY <1>3, <1>4 DEF Takes
<1>6. ~lapped' => Len(Taken') + lost' = seen'
  <2>1. Len(Taken) \in Nat
    BY <1>1, LenProperties
  <2>2. ~lapped => Len(Taken) + lost = seen
    BY DEF ProbeInv, Accounts, Tally
  <2>3. Len(Taken') = Len(Taken) + 1
    BY <1>3, <1>4
  <2>4. CASE lapped
    BY <2>4 DEF Takes
  <2>5. CASE ~lapped
    <3>1. Len(Taken) + lost = seen
      BY <2>2, <2>5
    <3>2. Len(Taken') + lost' = (Len(Taken) + 1) + (lost + (m[1] - (seen + 1)))
      BY <2>3 DEF Takes
    <3>3. (Len(Taken) + 1) + (lost + (m[1] - (seen + 1))) = m[1]
      <4>1. seen \in Nat /\ lost \in Nat /\ m[1] \in Nat
        BY <1>1
      <4> QED
        BY <2>1, <3>1, <4>1
    <3> QED
      BY <3>2, <3>3 DEF Takes
  <2> QED
    BY <2>4, <2>5
<1> QED
  BY <1>3, <1>5, <1>6 DEF Tally

(* Every step of the lane keeps what was taken, takes the next message, or *)
(* drops a batch with an error.                                            *)
LEMMA AccountsStep ==
  ASSUME ProbeInv, [Next]_vars
  PROVE  Accounts'
<1>0. PollTypes /\ Scanning /\ Accounts /\ safe \in BOOLEAN /\ safe' = safe
  BY SafeFixed DEF ProbeInv, PollTypes
<1>1. ASSUME UNCHANGED <<seen, lost, lapped, delivered, batch>>
      PROVE  Accounts'
  BY <1>0, <1>1 DEF Accounts, Tally, Taken
<1>2. CASE Beside
  BY <1>1, <1>2, BesideFrame
<1>3. CASE PollStart \/ ProbeByte \/ ProbeHit \/ ProbeRecover \/ \E w \in Parts : CopyWord(w)
  BY <1>1, <1>3 DEF PollStart, ProbeByte, ProbeHit, ProbeRecover, CopyWord, cursor
<1>4. CASE ScanSkip \/ ScanFrame
  BY <1>1, <1>4 DEF ScanSkip, ScanFrame, ScanOn, cursor
<1>5. CASE ProbeMiss \/ FrameMiss \/ Recovered
  <2>1. /\ delivered' = delivered \o batch /\ batch' = <<>>
        /\ seen' = seen /\ lost' = lost /\ lapped' = lapped
    BY <1>5 DEF ProbeMiss, FrameMiss, Recovered, Return, cursor
  <2>2. Taken' = Taken /\ delivered' \in Seq(Taking)
    BY <1>0, <2>1, ReturnKeepsTaken DEF Accounts, Tally, Taken
  <2>3. batch' \in Seq(Taking)
    BY <2>1
  <2> QED
    BY <1>0, <2>1, <2>2, <2>3 DEF Accounts, Tally
<1>6. CASE ProbeLapped
  <2>1. /\ delivered' = delivered \o <<>> /\ batch' = <<>>
        /\ seen' = seen /\ lost' = lost /\ lapped' = TRUE
    BY <1>6 DEF ProbeLapped, Return, cursor
  <2>2. delivered \o <<>> = delivered /\ delivered \in Seq(Taking) /\ batch \in Seq(Taking)
        /\ seen \in Nat
    BY <1>0, ConcatEmptySeq DEF Accounts, Tally, PollTypes
  <2>3. Taken' = delivered
    BY <2>1, <2>2 DEF Taken
  <2>4. Ordered(delivered, seen)
    BY <1>0, <2>2, OrderedPrefix DEF Accounts, Tally, Taken
  <2>5. batch' \in Seq(Taking)
    BY <2>1
  <2> QED
    BY <1>0, <2>1, <2>2, <2>3, <2>4, <2>5 DEF Accounts, Tally
<1>7. CASE FrameTake
  <2> DEFINE m == Message(Framed, copy.body)
  <2>1. m \in Taking /\ m[2] = m[1] /\ m[1] = seen + 1 /\ m[1] > seen
    BY <1>0, <1>7, FramedIsInt DEF FrameTake, Whole, Expected, Message, Taking, PollTypes
  <2>2. /\ seen' = m[1] /\ lost' = lost + (m[1] - (seen + 1)) /\ lapped' = lapped
    BY <1>0, <1>7, <2>1 DEF FrameTake, Expected, PollTypes
  <2>3. \/ batch' = Append(batch, m) /\ delivered' = delivered
        \/ Return(Append(batch, m))
    BY <1>7 DEF FrameTake
  <2> HIDE DEF m
  <2>4. Tally'
    BY <2>1, <2>2, <2>3, TakeStep DEF Takes
  <2>5. lost' = lost
    BY <1>7 DEF FrameTake
  <2> QED
    BY <1>0, <2>4, <2>5 DEF Accounts
<1>8. CASE Survivor
  <2>1. PICK m \in frames : /\ lost' = lost + Gap(m) /\ seen' = m[1]
                            /\ batch' = Append(batch, m)
    BY <1>8 DEF Survivor
  <2>2. delivered' = delivered /\ lapped' = lapped
    BY <1>8 DEF Survivor
  <2>3. m \in Taking /\ m[2] = m[1] /\ m[1] > seen /\ ~safe
    BY <1>0 DEF Scanning
  <2>4. lost' = lost + (m[1] - (seen + 1))
    BY <2>1 DEF Gap, Expected
  <2>5. Tally'
    BY <2>1, <2>2, <2>3, <2>4, TakeStep DEF Takes
  <2> QED
    BY <1>0, <2>3, <2>5 DEF Accounts
<1> QED
  BY <1>2, <1>3, <1>4, <1>5, <1>6, <1>7, <1>8 DEF Next, Beside

(* The invariant of the byte-wise reader. *)
THEOREM ProbeInvariant == Spec => []ProbeInv
<1>1. Init => ProbeInv
  <2> SUFFICES ASSUME Init PROVE ProbeInv
    OBVIOUS
  <2>1. SendInv
    <3>1. sent = 0 /\ ~sending /\ sending \in BOOLEAN /\ unlanded = {}
      BY DEF Init
    <3>2. slots \in [Positions -> Memory]
      BY SlotInMemory DEF Init
    <3>3. SendTypes /\ Landing
      BY <3>1, <3>2 DEF SendTypes, Landing
    <3>4. Retained
      BY <3>1 DEF Retained
    <3> QED
      BY <3>3, <3>4 DEF SendInv
  <2>2. PollTypes /\ Scanning
    BY Fresh DEF Init, PollTypes, Scanning
  <2>3. Accounts
    <3>1. seen = 0 /\ lost = 0 /\ delivered = <<>> /\ batch = <<>>
      BY DEF Init
    <3>2. Taken = <<>> /\ <<>> \in Seq(Taking)
      BY <3>1 DEF Taken
    <3>3. Len(Taken) = 0
      BY <3>2
    <3> QED
      BY <3>1, <3>2, <3>3 DEF Accounts, Tally, Ordered
  <2> QED
    BY <2>1, <2>2, <2>3 DEF ProbeInv
<1>2. ASSUME ProbeInv, [Next]_vars
      PROVE  ProbeInv'
  BY <1>2, SendInvStep, PollTypesStep, ScanningStep, AccountsStep DEF ProbeInv
<1> QED
  BY <1>1, <1>2, PTL DEF Spec

(* Whatever a probe has torn, no poll hands out a wrong, repeated or       *)
(* misplaced message; and while no poll has failed the messages and the    *)
(* losses account for all sequences up to the cursor, without any loss on  *)
(* a safe lane.                                                            *)
THEOREM TornProbeHarmlessTheorem == Spec => []TornProbeHarmless
<1>1. ASSUME ProbeInv
      PROVE  TornProbeHarmless
  <2>1. Taken \in Seq(Taking)
    BY <1>1, ConcatProperties DEF ProbeInv, Accounts, Tally, Taken
  <2>2. DOMAIN Taken = 1..Len(Taken) /\ seen \in Nat
    BY <1>1, <2>1, LenProperties DEF ProbeInv, PollTypes
  <2> QED
    BY <1>1, <2>2 DEF ProbeInv, Accounts, Tally, Ordered, TornProbeHarmless
<1> QED
  BY <1>1, ProbeInvariant, PTL

-----------------------------------------------------------------------------
(* What a poll reads.  The slot of a message that had been sent when the   *)
(* poll began holds that message until the sender overruns the poll: every *)
(* byte probe reads is one of its ends, and they make its sequence.        *)

ByteOf(slot, i) == IF i <= 2 THEN slot.head[i] ELSE slot.guard[i - 2]

(* The poll expects a message that was there when it began, and is not     *)
(* overrun.                                                                *)
Findable == ~recovering /\ Expected <= due /\ Issued <= behind + Depth

Reading ==
  /\ due <= sent /\ behind <= seen
  /\ recovering => Issued > behind + Depth \/ seen >= due
  /\ pc = "probe" /\ ~recovering => at = Position(Expected)
  /\ pc = "probe" /\ Findable =>
       \A i \in 1..Len(read) : read[i] = ByteOf(Slot(Expected), i)

PollInv == ProbeInv /\ Reading

(* The numbers of the lane. *)
LEMMA Numbers ==
  ASSUME ProbeInv
  PROVE  /\ Depth \in Nat /\ Depth > 0 /\ sent \in Nat /\ seen \in Nat /\ lost \in Nat
         /\ behind \in Nat /\ due \in Nat /\ Expected = seen + 1 /\ Expected \in Nat
         /\ recovering \in BOOLEAN
BY ByteAssumption DEF ProbeInv, PollTypes, SendInv, SendTypes, Expected

LEMMA ExpectedSlot ==
  ASSUME PollInv, Findable, pc = "probe"
  PROVE  Here = Slot(Expected)
<1>1. at = Position(Expected) /\ due <= sent /\ behind <= seen
  BY DEF PollInv, Reading, Findable
<1>2. sent <= Issued
  BY Numbers DEF PollInv, Issued
<1>3. Expected \in 1..sent /\ Expected + Depth > Issued
  <2>1. Issued \in Int
    BY Numbers DEF PollInv, Issued
  <2> QED
    BY <1>1, <2>1, Numbers DEF PollInv, Findable
<1> QED
  BY <1>1, <1>3 DEF PollInv, ProbeInv, SendInv, Retained, Here

(* The head that a poll reads of a message it is to find is its sequence. *)
LEMMA FindsExpected ==
  ASSUME PollInv, Findable, Read
  PROVE  Found = Expected
<1>1. 1 \in 1..Len(read) /\ 2 \in 1..Len(read)
  BY DEF Read
<1>2. read[1] = ByteOf(Slot(Expected), 1) /\ read[2] = ByteOf(Slot(Expected), 2)
  BY <1>1 DEF PollInv, Reading, Read
<1>3. read[1] = Split(Expected)[1] /\ read[2] = Split(Expected)[2]
  BY <1>2 DEF ByteOf, Slot
<1> QED
  BY <1>3, JoinedWord, Numbers DEF PollInv, Found

LEMMA ReadingStep ==
  ASSUME PollInv, [Next]_vars
  PROVE  Reading'
<1>0. /\ ProbeInv /\ Reading
      /\ Issued \in Nat /\ Issued' \in Nat /\ Issued <= Issued'
      /\ sent \in Nat /\ sent' \in Nat /\ sent <= sent'
      /\ Depth \in Nat /\ seen \in Nat /\ behind \in Nat /\ due \in Nat
      /\ Expected = seen + 1 /\ recovering \in BOOLEAN
  BY IssuedGrows, Numbers DEF PollInv, ProbeInv
<1>1. ASSUME UNCHANGED <<recovering, behind, due, seen>>, Findable'
      PROVE  Findable /\ Expected' = Expected
  BY <1>0, <1>1 DEF Findable, Expected
<1>2. ASSUME UNCHANGED <<recovering, behind, due, seen>>
      PROVE  /\ due' <= sent' /\ behind' <= seen'
             /\ recovering' => Issued' > behind' + Depth \/ seen' >= due'
  <2>1. due <= sent /\ behind <= seen
    BY <1>0 DEF Reading
  <2>2. CASE recovering
    BY <1>0, <1>2, <2>1, <2>2 DEF Reading
  <2>3. CASE ~recovering
    BY <1>0, <1>2, <2>1, <2>3
  <2> QED
    BY <2>2, <2>3
<1>3. ASSUME NEW q, Return(q), seen' \in Nat
      PROVE  Reading'
  BY <1>0, <1>3 DEF Return, Reading
<1>4. CASE Beside
  <2>1. UNCHANGED <<recovering, behind, due, seen, pc, at, read>>
    BY <1>4, BesideFrame
  <2>2. Expected' = Expected
    BY <2>1 DEF Expected
  <2> QED
    BY <1>0, <1>1, <1>2, <2>1, <2>2 DEF Reading
<1>5. CASE PollStart
  <2>1. /\ at' = Position(Expected) /\ read' = <<>> /\ behind' = seen /\ due' = sent
        /\ seen' = seen /\ recovering' = recovering /\ pc = "idle" /\ Expected' = Expected
    BY <1>5 DEF PollStart, ProbeAt, cursor, Expected
  <2>2. ~recovering
    BY <1>0, <2>1 DEF ProbeInv, Scanning
  <2>3. Len(read') = 0
    BY <2>1
  <2> QED
    BY <1>0, <2>1, <2>2, <2>3 DEF Reading
<1>6. CASE ProbeByte
  <2> DEFINE n == Len(read)
  <2>1. /\ UNCHANGED <<recovering, behind, due, seen, pc, at>> /\ pc = "probe"
        /\ read' = Append(read, IF n < 2 THEN Here.head[n + 1] ELSE Here.guard[n - 1])
    BY <1>6 DEF ProbeByte, cursor
  <2>2. read \in Seq(Int) /\ n \in Nat /\ read' \in Seq(Int)
    BY <1>0, PollTypesStep, LenProperties DEF ProbeInv, PollTypes
  <2>3. Expected' = Expected
    BY <2>1 DEF Expected
  <2>4. ASSUME Findable', NEW i \in 1..Len(read')
        PROVE  read'[i] = ByteOf(Slot(Expected), i)
    <3>1. Findable /\ Here = Slot(Expected)
      BY <1>1, <2>1, <2>4, ExpectedSlot
    <3>2. /\ Len(read') = n + 1
          /\ read'[n + 1] = IF n < 2 THEN Here.head[n + 1] ELSE Here.guard[n - 1]
          /\ \A j \in 1..n : read'[j] = read[j]
      BY <2>1, <2>2
    <3>3. CASE i = n + 1
      BY <2>2, <3>1, <3>2, <3>3 DEF ByteOf
    <3>4. CASE i \in 1..n
      BY <1>0, <2>1, <3>1, <3>2, <3>4 DEF Reading
    <3> QED
      BY <2>2, <2>4, <3>2, <3>3, <3>4
  <2> QED
    BY <1>0, <1>2, <2>1, <2>3, <2>4 DEF Reading
<1>7. CASE ProbeMiss \/ ProbeLapped \/ FrameMiss \/ Recovered
  BY <1>0, <1>3, <1>7 DEF ProbeMiss, ProbeLapped, FrameMiss, Recovered, cursor
<1>8. CASE ProbeHit \/ \E w \in Parts : CopyWord(w)
  <2>1. UNCHANGED <<recovering, behind, due, seen>> /\ pc' # "probe"
    BY <1>8 DEF ProbeHit, CopyWord, cursor
  <2> QED
    BY <1>2, <2>1 DEF Reading
<1>9. CASE ProbeRecover
  <2>1. /\ Read /\ ~recovering /\ Found > Expected /\ recovering'
        /\ UNCHANGED <<behind, due, seen>>
    BY <1>9 DEF ProbeRecover, cursor
  <2>2. ~Findable
    BY <1>0, <2>1, FindsExpected
  <2>3. Issued > behind + Depth \/ seen >= due
    BY <1>0, <2>1, <2>2 DEF Findable
  <2>4. due <= sent /\ behind <= seen
    BY <1>0 DEF Reading
  <2>5. /\ due' <= sent' /\ behind' <= seen'
        /\ Issued' > behind' + Depth \/ seen' >= due'
    BY <1>0, <2>1, <2>3, <2>4
  <2>6. ~Findable'
    BY <2>1 DEF Findable
  <2> QED
    BY <2>1, <2>5, <2>6 DEF Reading
<1>10. CASE FrameTake
  <2>1. seen' = seen + 1 /\ ~recovering
    BY <1>0, <1>10 DEF FrameTake
  <2>2. CASE \E q : Return(q)
    BY <1>0, <1>3, <2>1, <2>2
  <2>3. CASE ProbeAt(Position(Expected + 1)) /\ UNCHANGED <<recovering, behind, due>>
    <3>1. at' = Position(Expected') /\ read' = <<>>
      BY <1>0, <2>1, <2>3 DEF ProbeAt, Expected
    <3>2. Len(read') = 0
      BY <3>1
    <3>3. due <= sent /\ behind <= seen
      BY <1>0 DEF Reading
    <3>4. due' <= sent' /\ behind' <= seen' /\ ~recovering'
      BY <1>0, <2>1, <2>3, <3>3
    <3> QED
      BY <3>1, <3>2, <3>4 DEF Reading
  <2> QED
    BY <1>10, <2>2, <2>3 DEF FrameTake
<1>11. CASE ScanSkip \/ ScanFrame
  <2>1. UNCHANGED <<recovering, behind, due, seen>> /\ recovering
    BY <1>11 DEF ScanSkip, ScanFrame, ScanOn, cursor
  <2> QED
    BY <1>2, <2>1 DEF Reading, Findable
<1>12. CASE Survivor
  <2>1. PICK m \in frames : seen' = m[1]
    BY <1>12 DEF Survivor
  <2>2. /\ pc = "deliver" /\ UNCHANGED <<pc, recovering, behind, due, sent, sending>>
    BY <1>12 DEF Survivor, sendVars
  <2>3. m[1] \in Nat /\ m[1] > seen /\ recovering
    BY <1>0, <2>2 DEF ProbeInv, Scanning, Taking
  <2>4. /\ due <= sent /\ behind <= seen /\ Issued' = Issued
        /\ Issued > behind + Depth \/ seen >= due
    BY <1>0, <2>2, <2>3 DEF Reading, Issued
  <2>5. /\ due' <= sent' /\ behind' <= seen'
        /\ Issued' > behind' + Depth \/ seen' >= due'
    BY <1>0, <2>1, <2>2, <2>3, <2>4
  <2> QED
    BY <2>2, <2>5 DEF Reading
<1> QED
  BY <1>4, <1>5, <1>6, <1>7, <1>8, <1>9, <1>10, <1>11, <1>12 DEF Next, Beside

(* What a poll in progress has read is what the slots held of it. *)
THEOREM PollInvariant == Spec => []PollInv
<1>1. ASSUME Init
      PROVE  Reading
  <2>1. /\ sent = 0 /\ seen = 0 /\ behind = 0 /\ due = 0 /\ pc = "idle" /\ ~recovering
    BY <1>1 DEF Init
  <2> QED
    BY <2>1 DEF Reading
<1>2. ASSUME PollInv, [Next]_vars
      PROVE  Reading'
  BY <1>2, ReadingStep
<1>3. PollInv <=> ProbeInv /\ Reading
  BY DEF PollInv
<1> QED
  BY <1>1, <1>2, <1>3, ProbeInvariant, PTL DEF Spec

(* A poll counts a loss only when the sender overran it, or among messages *)
(* whose sends had not returned when it started: recover is entered by no  *)
(* torn probe of a message that was in place.                              *)
THEOREM LossIsLapOrLateTheorem == Spec => LossIsLapOrLate
<1>1. ASSUME PollInv, [Next]_vars
      PROVE  [lost' # lost => Issued > behind + Depth \/ seen >= due]_vars
  <2> SUFFICES ASSUME lost' # lost
               PROVE  Issued > behind + Depth \/ seen >= due
    OBVIOUS
  <2>1. Survivor
    BY <1>1 DEF Next, Send, Land, SendReturn, Ack, PollStart, ProbeByte, ProbeMiss,
       ProbeHit, ProbeLapped, ProbeRecover, CopyWord, FrameTake, FrameMiss, ScanSkip,
       ScanFrame, ScanOn, Recovered, vars, cursor
  <2>2. recovering
    BY <1>1, <2>1 DEF Survivor, PollInv, ProbeInv, Scanning
  <2> QED
    BY <1>1, <2>2 DEF PollInv, Reading
<1> QED
  BY <1>1, PollInvariant, PTL DEF Spec, LossIsLapOrLate

=============================================================================
