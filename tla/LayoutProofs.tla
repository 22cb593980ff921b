---------------------------- MODULE LayoutProofs ----------------------------
(***************************************************************************)
(* The layout of the lanes is right for every configuration, number of     *)
(* ranks and width of the integers: no two lanes overlap, none leaves its  *)
(* window, counters are not shared, and a directed pair has one lane.      *)
(***************************************************************************)
EXTENDS Layout, SequenceTheorems, TLAPS

-----------------------------------------------------------------------------
(* The invariant of the packing loop *)

Usize == 0..MaxUsize

Entries == Int \X Int \X Usize \X Usize

LaneRecords ==
  [source : Ranks, destination : Ranks, offset : Nat, depth : Nat, slot : Nat,
   ack : Nat]

TypeOK ==
  /\ pc \in {"sort", "check", "pack", "done", "refused"}
  /\ config \in Seq(Entries)
  /\ next \in Nat \ {0} /\ next <= Len(config) + 1
  /\ lengths \in [Ranks -> Usize]
  /\ ack_lengths \in [Ranks -> Nat]
  /\ lanes \in Seq(LaneRecords) /\ Len(lanes) = next - 1

(* What has been decided when the loop is reached, and when it ends. *)
Checked ==
  /\ pc \in {"sort", "check"} => next = 1
  /\ pc \notin {"sort", "refused"} => Sorted(config)
  /\ pc \in {"pack", "done"} =>
       ~Twice /\ \A i \in DOMAIN config : Transport(config[i])
  /\ pc = "done" => next = Len(config) + 1

(* The lanes are those of the entries walked over, each between two        *)
(* different ranks.                                                        *)
Walked ==
  \A i \in 1..Len(lanes) :
    /\ lanes[i].source = config[i][1] /\ lanes[i].destination = config[i][2]
    /\ lanes[i].source # lanes[i].destination

(* The order of the directed pairs, which the walk follows. *)
PairBefore(a, b) == a[1] < b[1] \/ (a[1] = b[1] /\ a[2] < b[2])

Ascending ==
  \A i, j \in 1..Len(lanes) : i < j => PairBefore(config[i], config[j])

(* Each lane starts where the ones before it in the same window end. *)
Stacked ==
  /\ InWindow
  /\ \A i, j \in 1..Len(lanes) :
       i < j /\ lanes[i].destination = lanes[j].destination =>
         End(lanes[i]) <= lanes[j].offset

(* The counters of a source are numbered as its lanes come. *)
Numbered ==
  /\ \A i \in 1..Len(lanes) : lanes[i].ack < ack_lengths[lanes[i].source]
  /\ \A i, j \in 1..Len(lanes) :
       i < j /\ lanes[i].source = lanes[j].source => lanes[i].ack < lanes[j].ack
  /\ \A r \in Ranks : \A c \in 0..(ack_lengths[r] - 1) :
       \E i \in 1..Len(lanes) : lanes[i].source = r /\ lanes[i].ack = c

LayoutInv ==
  /\ TypeOK
  /\ Checked
  /\ Walked
  /\ Ascending
  /\ Stacked
  /\ Numbered

-----------------------------------------------------------------------------
(* Neighbours of a sorted configuration without repetition ascend. *)
LEMMA NeighboursAscend ==
  ASSUME NEW a \in Entries, NEW b \in Entries,
         ~Precedes(b, a), ~(a[1] = b[1] /\ a[2] = b[2])
  PROVE  PairBefore(a, b)
<1>1. a[1] \in Int /\ a[2] \in Int /\ b[1] \in Int /\ b[2] \in Int
  BY DEF Entries
<1>2. ~(b[1] < a[1])
  <2> SUFFICES ASSUME b[1] < a[1] PROVE FALSE
    OBVIOUS
  <2>1. \A j \in 1..(1 - 1) : b[j] = a[j]
    OBVIOUS
  <2> QED
    BY <2>1 DEF Precedes
<1>3. ~(b[1] = a[1] /\ b[2] < a[2])
  <2> SUFFICES ASSUME b[1] = a[1], b[2] < a[2] PROVE FALSE
    OBVIOUS
  <2>1. \A j \in 1..(2 - 1) : b[j] = a[j]
    OBVIOUS
  <2> QED
    BY <2>1 DEF Precedes
<1> QED
  BY <1>1, <1>2, <1>3 DEF PairBefore

(* The order of the directed pairs is transitive. *)
LEMMA PairBeforeTransitive ==
  ASSUME NEW a \in Entries, NEW b \in Entries, NEW c \in Entries,
         PairBefore(a, b), PairBefore(b, c)
  PROVE  PairBefore(a, c)
BY DEF PairBefore, Entries

(* What the loop adds in one turn: with the checks of Fits nothing wraps.  *)
LEMMA Packed ==
  ASSUME LayoutInv, Pack
  PROVE  /\ Entry \in Entries /\ Transport(Entry) /\ pc = "pack"
         /\ lanes' = Append(lanes, [source |-> Entry[1], destination |-> Entry[2],
                                    offset |-> lengths[Entry[2]], depth |-> Entry[3],
                                    slot |-> SlotBytes, ack |-> ack_lengths[Entry[1]]])
         /\ lengths' = [lengths EXCEPT ![Entry[2]] = @ + LaneBytes]
         /\ ack_lengths' = [ack_lengths EXCEPT ![Entry[1]] = @ + 1]
         /\ SlotBytes \in Nat \ {0} /\ LaneBytes \in Nat
         /\ lengths[Entry[2]] + LaneBytes <= MaxUsize
<1>1. Entry \in Entries /\ Transport(Entry)
  <2>1. next \in 1..Len(config) /\ config \in Seq(Entries)
    BY DEF LayoutInv, TypeOK, Pack
  <2>2. next \in DOMAIN config
    BY <2>1, LenProperties
  <2> QED
    BY <2>1, <2>2 DEF LayoutInv, Checked, Pack, Entry
<1>2. /\ Entry[3] \in Nat \ {0} /\ Entry[4] \in Nat \ {0}
      /\ Entry[1] \in Ranks /\ Entry[2] \in Ranks
  BY <1>1, LayoutAssumption DEF Entries, Usize, Transport
<1>3. SlotBytes \in Nat \ {0}
  BY <1>2, LayoutAssumption DEF SlotBytes
<1>4. LaneBytes \in Nat
  BY <1>2, <1>3 DEF LaneBytes
<1>5. /\ SlotBytes <= MaxUsize /\ lengths[Entry[2]] + LaneBytes <= MaxUsize
  BY DEF Pack, Fits
<1>6. lengths[Entry[2]] \in Nat
  BY <1>2, LayoutAssumption DEF LayoutInv, TypeOK, Usize
<1>7. \A x \in Nat : x <= MaxUsize => Wrap(x) = x
  BY LayoutAssumption DEF Wrap
<1>8. Wrap(SlotBytes) = SlotBytes /\ Wrap(Offset + LaneBytes) = lengths[Entry[2]] + LaneBytes
  BY <1>3, <1>4, <1>5, <1>6, <1>7 DEF Offset
<1> QED
  BY <1>1, <1>3, <1>4, <1>5, <1>8 DEF Pack, Offset, Counter

(* Packing one more lane at the end of its destination's window keeps all parts *)
(* of the invariant.                                                            *)
LEMMA PackKeepsInv ==
  ASSUME LayoutInv, Pack
  PROVE  LayoutInv'
<1> DEFINE n == Len(lanes)
           new == [source |-> Entry[1], destination |-> Entry[2],
                   offset |-> lengths[Entry[2]], depth |-> Entry[3],
                   slot |-> SlotBytes, ack |-> ack_lengths[Entry[1]]]
<1>1. /\ Entry \in Entries /\ Transport(Entry) /\ pc = "pack"
      /\ lanes' = Append(lanes, new)
      /\ lengths' = [lengths EXCEPT ![Entry[2]] = @ + LaneBytes]
      /\ ack_lengths' = [ack_lengths EXCEPT ![Entry[1]] = @ + 1]
      /\ SlotBytes \in Nat \ {0} /\ LaneBytes \in Nat
      /\ lengths[Entry[2]] + LaneBytes <= MaxUsize
      /\ next' = next + 1 /\ pc' = pc /\ config' = config
  BY Packed DEF Pack
<1>2. /\ Entry[1] \in Ranks /\ Entry[2] \in Ranks /\ Entry[1] # Entry[2]
      /\ Entry[3] \in Nat \ {0}
  BY <1>1, LayoutAssumption DEF Entries, Usize, Transport
<1>3. /\ TypeOK /\ config \in Seq(Entries) /\ next \in 1..Len(config)
      /\ n = next - 1 /\ n \in Nat /\ lanes \in Seq(LaneRecords)
      /\ lengths \in [Ranks -> Usize] /\ ack_lengths \in [Ranks -> Nat]
  BY DEF LayoutInv, TypeOK, Pack
<1>4. /\ lengths[Entry[2]] \in Nat /\ ack_lengths[Entry[1]] \in Nat
      /\ Usize \subseteq Nat
  BY <1>2, <1>3, LayoutAssumption DEF Usize
<1>5. new \in LaneRecords
  BY <1>1, <1>2, <1>4 DEF LaneRecords
<1>6. End(new) = lengths[Entry[2]] + LaneBytes
  BY DEF End, LaneBytes
<1> HIDE DEF new
<1>7. /\ lanes' \in Seq(LaneRecords) /\ Len(lanes') = n + 1
      /\ \A i \in 1..n : lanes'[i] = lanes[i]
      /\ lanes'[n + 1] = new
  BY <1>1, <1>3, <1>5, AppendProperties
<1>8. \A i \in 1..n : lanes[i] \in LaneRecords
  BY <1>3
<1>9. /\ new.source = Entry[1] /\ new.destination = Entry[2]
      /\ new.offset = lengths[Entry[2]] /\ new.slot = SlotBytes
      /\ new.ack = ack_lengths[Entry[1]]
  BY DEF new
<1> HIDE DEF n
<1>10. TypeOK'
  <2>1. lengths' \in [Ranks -> Usize]
    BY <1>1, <1>2, <1>3, <1>4 DEF Usize
  <2>2. ack_lengths' \in [Ranks -> Nat]
    BY <1>1, <1>2, <1>3
  <2> QED
    BY <1>1, <1>3, <1>7, <2>1, <2>2 DEF TypeOK, n
<1>11. Checked'
  <2>1. Checked
    BY DEF LayoutInv
  <2> QED
    BY <1>1, <2>1 DEF Checked, Sorted, Twice, Transport
<1>12. Walked'
  <2>1. Entry = config[n + 1]
    BY <1>3 DEF Entry
  <2>2. \A i \in 1..n : /\ lanes[i].source = config[i][1] /\ lanes[i].destination = config[i][2]
                        /\ lanes[i].source # lanes[i].destination
    BY DEF LayoutInv, Walked, n
  <2> QED
    BY <1>1, <1>2, <1>3, <1>7, <1>9, <2>1, <2>2 DEF Walked
<1>13. Ascending'
  <2> SUFFICES ASSUME NEW i \in 1..(n + 1), NEW j \in 1..(n + 1), i < j
               PROVE  PairBefore(config[i], config[j])
    BY <1>1, <1>7 DEF Ascending
  <2>1. CASE j \in 1..n
    BY <1>3, <2>1 DEF LayoutInv, Ascending, n
  <2>2. CASE j = n + 1
    <3>1. n \in 1..Len(config) /\ n + 1 \in 2..Len(config) /\ i \in 1..Len(config)
      BY <1>3, <2>2
    <3>2. config[n] \in Entries /\ config[n + 1] \in Entries /\ config[i] \in Entries
      BY <1>3, <3>1
    <3>3. PairBefore(config[n], config[n + 1])
      <4>1. ~Precedes(config[n + 1], config[n])
        BY <1>1, <1>3, <3>1 DEF LayoutInv, Checked, Sorted
      <4>2. ~(config[n][1] = config[n + 1][1] /\ config[n][2] = config[n + 1][2])
        <5>1. ~Twice /\ n = (n + 1) - 1
          BY <1>1, <1>3 DEF LayoutInv, Checked
        <5> QED
          BY <3>1, <5>1 DEF Twice
      <4> QED
        BY <3>2, <4>1, <4>2, NeighboursAscend
    <3>4. CASE i = n
      BY <2>2, <3>3, <3>4
    <3>5. CASE i < n
      <4>1. PairBefore(config[i], config[n])
        <5>1. i \in 1..n /\ n \in 1..n
          BY <1>3, <3>5
        <5> QED
          BY <3>5, <5>1 DEF LayoutInv, Ascending, n
      <4> QED
        BY <2>2, <3>2, <3>3, <4>1, PairBeforeTransitive
    <3> QED
      BY <1>3, <2>2, <3>4, <3>5
  <2> QED
    BY <1>3, <2>1, <2>2
<1>14. Stacked'
  <2>1. \A i \in 1..n : /\ lanes[i].slot > 0
                        /\ End(lanes[i]) <= lengths[lanes[i].destination]
    BY <1>3, LenProperties DEF LayoutInv, Stacked, InWindow, n
  <2>2. \A i \in 1..n : End(lanes[i]) \in Nat
    BY <1>8 DEF LaneRecords, End
  <2>3. ASSUME NEW r \in Ranks
        PROVE  lengths[r] \in Nat /\ lengths'[r] \in Nat /\ lengths[r] <= lengths'[r]
    <3>1. lengths[r] \in Nat
      BY <1>3, <1>4
    <3>2. lengths'[r] = IF r = Entry[2] THEN lengths[r] + LaneBytes ELSE lengths[r]
      BY <1>1, <1>3
    <3> QED
      BY <1>1, <3>1, <3>2
  <2>4. End(new) <= lengths'[new.destination]
    BY <1>1, <1>2, <1>3, <1>6, <1>9, <2>3
  <2>5. InWindow'
    <3> SUFFICES ASSUME NEW i \in 1..(n + 1)
                 PROVE  lanes'[i].slot > 0 /\ End(lanes'[i]) <= lengths'[lanes'[i].destination]
      BY <1>7, LenProperties DEF InWindow, End
    <3>1. CASE i \in 1..n
      <4>1. lanes[i].destination \in Ranks
        BY <1>8, <3>1 DEF LaneRecords
      <4> QED
        BY <1>7, <2>1, <2>2, <2>3, <3>1, <4>1
    <3>2. CASE i = n + 1
      BY <1>1, <1>7, <1>9, <2>4, <3>2
    <3> QED
      BY <1>3, <3>1, <3>2
  <2>6. ASSUME NEW i \in 1..(n + 1), NEW j \in 1..(n + 1), i < j,
               lanes'[i].destination = lanes'[j].destination
        PROVE  End(lanes'[i]) <= lanes'[j].offset
    <3>1. i \in 1..n
      BY <1>3, <2>6
    <3>2. CASE j \in 1..n
      BY <1>7, <2>6, <3>1, <3>2 DEF LayoutInv, Stacked, n
    <3>3. CASE j = n + 1
      BY <1>7, <1>9, <2>1, <2>6, <3>1, <3>3
    <3> QED
      BY <1>3, <3>2, <3>3
  <2> QED
    BY <1>7, <2>5, <2>6 DEF Stacked, End
<1>15. Numbered'
  <2>0. Numbered /\ \A i \in 1..n : lanes[i].source \in Ranks /\ lanes[i].ack \in Nat
    BY <1>8 DEF LayoutInv, LaneRecords
  <2>1. \A r \in Ranks : /\ ack_lengths[r] \in Nat
                         /\ ack_lengths'[r] = IF r = Entry[1] THEN ack_lengths[r] + 1
                                              ELSE ack_lengths[r]
    BY <1>1, <1>3
  <2>2. ASSUME NEW i \in 1..(n + 1)
        PROVE  lanes'[i].ack < ack_lengths'[lanes'[i].source]
    <3>1. CASE i \in 1..n
      BY <1>7, <2>0, <2>1, <3>1 DEF Numbered, n
    <3>2. CASE i = n + 1
      BY <1>2, <1>7, <1>9, <2>1, <3>2
    <3> QED
      BY <1>3, <3>1, <3>2
  <2>3. ASSUME NEW i \in 1..(n + 1), NEW j \in 1..(n + 1), i < j,
               lanes'[i].source = lanes'[j].source
        PROVE  lanes'[i].ack < lanes'[j].ack
    <3>1. i \in 1..n
      BY <1>3, <2>3
    <3>2. CASE j \in 1..n
      BY <1>7, <2>0, <2>3, <3>1, <3>2 DEF Numbered, n
    <3>3. CASE j = n + 1
      BY <1>7, <1>9, <2>0, <2>3, <3>1, <3>3 DEF Numbered, n
    <3> QED
      BY <1>3, <3>2, <3>3
  <2>4. ASSUME NEW r \in Ranks, NEW c \in 0..(ack_lengths'[r] - 1)
        PROVE  \E i \in 1..(n + 1) : lanes'[i].source = r /\ lanes'[i].ack = c
    <3>1. CASE c \in 0..(ack_lengths[r] - 1)
      <4>1. PICK i \in 1..n : lanes[i].source = r /\ lanes[i].ack = c
        BY <2>0, <3>1 DEF Numbered, n
      <4> QED
        BY <1>3, <1>7, <4>1
    <3>2. CASE r = Entry[1] /\ c = ack_lengths[r]
      <4>1. n + 1 \in 1..(n + 1)
        BY <1>3
      <4>2. lanes'[n + 1].source = r /\ lanes'[n + 1].ack = c
        BY <1>7, <1>9, <3>2
      <4> QED
        BY <4>1, <4>2
    <3> QED
      BY <2>1, <3>1, <3>2
  <2> QED
    BY <1>7, <2>2, <2>3, <2>4 DEF Numbered
<1> QED
  BY <1>10, <1>11, <1>12, <1>13, <1>14, <1>15 DEF LayoutInv

(* The walk starts with no lane packed and every length zero. *)
LEMMA LayoutInvInit == Init => LayoutInv
<1> SUFFICES ASSUME Init PROVE LayoutInv
  OBVIOUS
<1>1. TypeOK
  <2>1. config \in Seq(Entries)
    BY LayoutAssumption DEF Init, Entries, Usize
  <2>2. <<>> \in Seq(LaneRecords) /\ Len(<<>>) = 0
    OBVIOUS
  <2>3. 0 \in Usize /\ Len(config) \in Nat
    BY <2>1, LayoutAssumption DEF Usize
  <2> QED
    BY <2>1, <2>2, <2>3 DEF Init, TypeOK
<1>2. lanes = <<>> /\ DOMAIN lanes = {} /\ 1..Len(lanes) = {}
  BY DEF Init
<1>3. Checked
  BY DEF Init, Checked
<1>4. Walked /\ Ascending /\ Stacked
  BY <1>2 DEF Walked, Ascending, Stacked, InWindow
<1>5. Numbered
  BY <1>2 DEF Init, Numbered
<1> QED
  BY <1>1, <1>3, <1>4, <1>5 DEF LayoutInv

(* And every step of it keeps the invariant. *)
LEMMA LayoutInvStep == LayoutInv /\ [Next]_vars => LayoutInv'
<1> SUFFICES ASSUME LayoutInv, [Next]_vars PROVE LayoutInv'
  OBVIOUS
<1>0. TypeOK /\ Checked /\ Walked /\ Ascending /\ Stacked /\ Numbered
  BY DEF LayoutInv
<1>1. CASE Sort
  <2>1. PICK order \in [DOMAIN config -> DOMAIN config] :
          config' = [i \in DOMAIN config |-> config[order[i]]]
    BY <1>1 DEF Sort
  <2>2. config' \in Seq(Entries) /\ Len(config') = Len(config)
    <3>1. config \in Seq(Entries) /\ Len(config) \in Nat /\ DOMAIN config = 1..Len(config)
      BY <1>0, LenProperties DEF TypeOK
    <3>2. config' \in [1..Len(config) -> Entries]
      BY <2>1, <3>1
    <3>3. config' \in Seq(Entries)
      BY <3>1, <3>2, SeqDef
    <3> QED
      BY <3>1, <3>2, <3>3, LenProperties
  <2>3. /\ pc = "sort" /\ pc' = "check" /\ Sorted(config')
        /\ UNCHANGED <<next, lengths, ack_lengths, lanes>>
    BY <1>1 DEF Sort
  <2>4. next = 1 /\ Len(lanes) = 0
    BY <1>0, <2>3 DEF Checked, TypeOK
  <2>5. TypeOK' /\ Checked'
    BY <1>0, <2>2, <2>3, <2>4 DEF TypeOK, Checked
  <2>6. Walked' /\ Ascending'
    BY <2>3, <2>4 DEF Walked, Ascending
  <2>7. Stacked' /\ Numbered'
    BY <1>0, <2>3 DEF Stacked, InWindow, End, Numbered
  <2> QED
    BY <2>5, <2>6, <2>7 DEF LayoutInv
<1>2. CASE Pack
  BY <1>2, PackKeepsInv
<1>3. ASSUME UNCHANGED <<config, next, lengths, ack_lengths, lanes>>, TypeOK', Checked'
      PROVE  LayoutInv'
  BY <1>0, <1>3 DEF LayoutInv, Walked, Ascending, Stacked, InWindow, End, Numbered
<1>4. CASE Check
  <2>1. pc = "check" /\ UNCHANGED <<config, next, lengths, ack_lengths, lanes>>
    BY <1>4 DEF Check
  <2>2. pc' \in {"pack", "refused"}
    BY <1>4 DEF Check
  <2>3. pc' = "pack" => ~Twice /\ \A i \in DOMAIN config : Transport(config[i])
    BY <1>4 DEF Check
  <2>4. Checked'
    BY <1>0, <2>1, <2>2, <2>3 DEF Checked, Twice
  <2> QED
    BY <1>0, <1>3, <2>1, <2>2, <2>4 DEF TypeOK
<1>5. CASE Overflow
  BY <1>0, <1>3, <1>5 DEF Overflow, TypeOK, Checked
<1>6. CASE Allocate
  <2>1. next' = Len(config) + 1 /\ pc = "pack" /\ pc' = "done"
        /\ UNCHANGED <<config, next, lengths, ack_lengths, lanes>>
    BY <1>0, <1>6 DEF Allocate, TypeOK
  <2>2. Checked'
    BY <1>0, <2>1 DEF Checked, Twice, Sorted
  <2> QED
    BY <1>0, <1>3, <2>1, <2>2 DEF TypeOK
<1>7. CASE UNCHANGED vars
  BY <1>0, <1>3, <1>7 DEF vars, TypeOK, Checked, Twice
<1> QED
  BY <1>1, <1>2, <1>4, <1>5, <1>6, <1>7 DEF Next

(* At every point of the layout's walk, the lanes packed so far are the first *)
(* of the sorted pairs, stacked without gaps in each window and numbered      *)
(* without gaps in each sender's counters.                                    *)
THEOREM LayoutInvariant == Spec => []LayoutInv
BY LayoutInvInit, LayoutInvStep, PTL DEF Spec

-----------------------------------------------------------------------------
(* What the layout guarantees *)

(* No byte of a window belongs to two lanes, so a Put down one lane cannot *)
(* touch a slot of another.                                                *)
THEOREM DisjointTheorem == Spec => []Disjoint
<1>1. ASSUME LayoutInv
      PROVE  Disjoint
  <2>1. /\ DOMAIN lanes = 1..Len(lanes) /\ Len(lanes) \in Nat
        /\ \A i, j \in 1..Len(lanes) :
             i < j /\ lanes[i].destination = lanes[j].destination =>
               End(lanes[i]) <= lanes[j].offset
    BY <1>1, LenProperties DEF LayoutInv, TypeOK, Stacked
  <2> QED
    BY <2>1 DEF Disjoint
<1> QED
  BY <1>1, LayoutInvariant, PTL

(* Every slot lies in the window its destination allocates: neither a put  *)
(* nor a local read of a lane is out of range, whatever was configured.    *)
THEOREM InWindowTheorem == Spec => []InWindow
<1>1. LayoutInv => InWindow
  BY DEF LayoutInv, Stacked
<1> QED
  BY <1>1, LayoutInvariant, PTL

(* No two lanes of a source share a counter, and its acknowledgement       *)
(* window has no counter too many.                                         *)
THEOREM OwnCounterTheorem == Spec => []OwnCounter
<1>1. ASSUME LayoutInv
      PROVE  OwnCounter
  <2>1. /\ DOMAIN lanes = 1..Len(lanes) /\ Len(lanes) \in Nat
        /\ Numbered /\ ack_lengths \in [Ranks -> Nat]
        /\ \A i \in 1..Len(lanes) : lanes[i].source \in Ranks /\ lanes[i].ack \in Nat
    <3>1. lanes \in Seq(LaneRecords) /\ Numbered /\ ack_lengths \in [Ranks -> Nat]
      BY <1>1 DEF LayoutInv, TypeOK
    <3>2. DOMAIN lanes = 1..Len(lanes) /\ Len(lanes) \in Nat
      BY <3>1, LenProperties
    <3>3. \A i \in 1..Len(lanes) : lanes[i] \in LaneRecords
      BY <3>1
    <3> QED
      BY <3>1, <3>2, <3>3 DEF LaneRecords
  <2>2. ASSUME NEW i \in DOMAIN lanes, NEW j \in DOMAIN lanes,
               lanes[i].source = lanes[j].source, lanes[i].ack = lanes[j].ack
        PROVE  i = j
    <3>1. ~(i < j) /\ ~(j < i)
      BY <2>1, <2>2 DEF Numbered
    <3> QED
      BY <2>1, <3>1
  <2>3. ASSUME NEW r \in Ranks
        PROVE  {lanes[i].ack : i \in {j \in DOMAIN lanes : lanes[j].source = r}}
                 = 0..(ack_lengths[r] - 1)
    <3> DEFINE A == {lanes[i].ack : i \in {j \in DOMAIN lanes : lanes[j].source = r}}
    <3>1. ack_lengths[r] \in Nat
      BY <2>1
    <3>2. ASSUME NEW c \in A
          PROVE  c \in 0..(ack_lengths[r] - 1)
      <4>1. PICK i \in DOMAIN lanes : lanes[i].source = r /\ c = lanes[i].ack
        OBVIOUS
      <4>2. lanes[i].ack < ack_lengths[r] /\ lanes[i].ack \in Nat
        BY <2>1, <4>1 DEF Numbered
      <4> QED
        BY <3>1, <4>1, <4>2
    <3>3. ASSUME NEW c \in 0..(ack_lengths[r] - 1)
          PROVE  c \in A
      <4>1. PICK i \in 1..Len(lanes) : lanes[i].source = r /\ lanes[i].ack = c
        BY <2>1 DEF Numbered
      <4> QED
        BY <2>1, <4>1
    <3> QED
      BY <3>2, <3>3
  <2> QED
    BY <2>2, <2>3 DEF OwnCounter
<1> QED
  BY <1>1, LayoutInvariant, PTL

(* A ring that is laid out has one lane for each entry, no lane of a rank  *)
(* to itself, and no two for one directed pair: sorting brings the entries *)
(* of a pair together, and neighbours were compared.                       *)
THEOREM OneLanePerPairTheorem == Spec => []OneLanePerPair
<1>1. ASSUME LayoutInv
      PROVE  OneLanePerPair
  <2> SUFFICES ASSUME pc = "done"
               PROVE  /\ Len(lanes) = Len(config)
                      /\ \A i, j \in DOMAIN lanes :
                           /\ lanes[i].source # lanes[i].destination
                           /\ lanes[i].source = lanes[j].source
                                /\ lanes[i].destination = lanes[j].destination => i = j
    BY DEF OneLanePerPair
  <2>1. /\ Len(lanes) = Len(config) /\ Len(config) \in Nat
        /\ DOMAIN lanes = 1..Len(lanes)
        /\ Walked /\ Ascending
        /\ \A i \in 1..Len(config) : config[i] \in Entries
    <3>1. config \in Seq(Entries) /\ Len(config) \in Nat
      BY <1>1 DEF LayoutInv, TypeOK
    <3> QED
      BY <1>1, <3>1, LenProperties DEF LayoutInv, TypeOK, Checked
  <2>2. ASSUME NEW i \in 1..Len(lanes), NEW j \in 1..Len(lanes), i < j,
               lanes[i].source = lanes[j].source,
               lanes[i].destination = lanes[j].destination
        PROVE  FALSE
    <3>1. PairBefore(config[i], config[j])
      BY <2>1, <2>2 DEF Ascending
    <3>2. config[i][1] = config[j][1] /\ config[i][2] = config[j][2]
      BY <2>1, <2>2 DEF Walked
    <3>3. config[i] \in Entries /\ config[j] \in Entries
      BY <2>1
    <3> QED
      BY <3>1, <3>2, <3>3 DEF PairBefore, Entries
  <2>3. ASSUME NEW i \in 1..Len(lanes), NEW j \in 1..Len(lanes),
               lanes[i].source = lanes[j].source,
               lanes[i].destination = lanes[j].destination
        PROVE  i = j
    <3>1. ~(i < j) /\ ~(j < i)
      BY <2>2, <2>3
    <3> QED
      BY <2>1, <3>1
  <2> QED
    BY <2>1, <2>3 DEF Walked
<1> QED
  BY <1>1, LayoutInvariant, PTL

=============================================================================
