------------------------------- MODULE Layout -------------------------------
(***************************************************************************)
(* How Ring::new lays the configured lanes out (src/src/ring.rs): it sorts *)
(* the configuration, refuses what is not a lane, and walks it once,       *)
(* giving each lane a byte range in its destination's slot window and a    *)
(* counter in its source's acknowledgement window.  Every rank walks the   *)
(* same configuration, so sender and receiver derive the same lane.        *)
(***************************************************************************)
EXTENDS Integers, Sequences

CONSTANTS
  N,          (* Ranks of the communicator.                                *)
  Rings,      (* The configurations given: sequences of lanes, each a      *)
              (* tuple <<source, destination, depth, capacity>>.           *)
  Overhead,   (* HEADER + WORD: the bytes of a slot besides its payload.   *)
  MaxUsize,   (* The greatest usize, scaled down.                          *)
  MaxI32      (* The greatest i32, scaled down.                            *)

ASSUME LayoutAssumption ==
  /\ N \in Nat \ {0}
  /\ Rings \subseteq Seq(Int \X Int \X (0..MaxUsize) \X (0..MaxUsize))
  /\ Overhead \in Nat \ {0} /\ MaxUsize \in Nat /\ MaxI32 \in Nat

VARIABLES
  pc,          (* "sort", "check", "pack", "done" or "refused".            *)
  config,      (* The configuration, sorted once pc is past "sort".        *)
  next,        (* The entry of it to be laid out next.                     *)
  lengths,     (* lengths[r]: bytes of r's slot window so far.             *)
  ack_lengths, (* ack_lengths[r]: counters of r's window so far.           *)
  lanes        (* Lanes laid out so far, in order.                         *)

vars == <<pc, config, next, lengths, ack_lengths, lanes>>

Ranks == 0..(N - 1)

-----------------------------------------------------------------------------
(* The order of the tuples. *)
Precedes(a, b) ==
  \E i \in 1..4 : a[i] < b[i] /\ \A j \in 1..(i - 1) : a[j] = b[j]

Sorted(c) == \A i \in 2..Len(c) : ~Precedes(c[i], c[i - 1])

Init ==
  /\ pc = "sort" /\ config \in Rings /\ next = 1
  /\ lengths = [r \in Ranks |-> 0] /\ ack_lengths = [r \in Ranks |-> 0]
  /\ lanes = <<>>

Sort ==
  /\ pc = "sort"
  /\ \E order \in [DOMAIN config -> DOMAIN config] :
       /\ \A i, j \in DOMAIN config : order[i] = order[j] => i = j
       /\ config' = [i \in DOMAIN config |-> config[order[i]]]
  /\ Sorted(config')
  /\ pc' = "check"
  /\ UNCHANGED <<next, lengths, ack_lengths, lanes>>

(* A directed pair may be configured once: sorted, its entries are         *)
(* neighbours.                                                             *)
Unchecked == FALSE

Twice == \E i \in 2..Len(config) :
           config[i - 1][1] = config[i][1] /\ config[i - 1][2] = config[i][2]

Transport(c) ==
  /\ c[1] \in Ranks /\ c[2] \in Ranks /\ c[1] # c[2]
  /\ c[3] # 0 /\ c[4] # 0

Check ==
  /\ pc = "check"
  /\ pc' = IF Twice \/ \E i \in DOMAIN config : ~Transport(config[i])
           THEN "refused"
           ELSE "pack"
  /\ UNCHANGED <<config, next, lengths, ack_lengths, lanes>>

-----------------------------------------------------------------------------
Entry == config[next]

SlotBytes == Entry[4] + Overhead

LaneBytes == Entry[3] * SlotBytes

(* Where the lane starts in its destination's window. *)
OffsetAtSource == lengths[Entry[1]]

Offset == lengths[Entry[2]]

(* Every sum and product is checked: one that does not fit is refused. *)
FitsUnchecked == TRUE

Fits ==
  /\ SlotBytes <= MaxUsize /\ SlotBytes <= MaxI32
  /\ LaneBytes <= MaxUsize
  /\ lengths[Entry[2]] + LaneBytes <= MaxUsize

Wrap(x) == x % (MaxUsize + 1)

(* The counter of the lane: the number of lanes its source already has. *)
CounterByDestination == ack_lengths[Entry[2]]

Counter == ack_lengths[Entry[1]]

Pack ==
  /\ pc = "pack" /\ next <= Len(config) /\ Fits
  /\ lanes' = Append(lanes, [source |-> Entry[1], destination |-> Entry[2],
                             offset |-> Offset, depth |-> Entry[3],
                             slot |-> Wrap(SlotBytes), ack |-> Counter])
  /\ lengths' = [lengths EXCEPT ![Entry[2]] = Wrap(Offset + LaneBytes)]
  /\ ack_lengths' = [ack_lengths EXCEPT ![Entry[1]] = @ + 1]
  /\ next' = next + 1
  /\ UNCHANGED <<pc, config>>

Overflow ==
  /\ pc = "pack" /\ next <= Len(config) /\ ~Fits
  /\ pc' = "refused"
  /\ UNCHANGED <<config, next, lengths, ack_lengths, lanes>>

Allocate ==
  /\ pc = "pack" /\ next > Len(config)
  /\ pc' = "done"
  /\ UNCHANGED <<config, next, lengths, ack_lengths, lanes>>

Next == Sort \/ Check \/ Pack \/ Overflow \/ Allocate

Spec == Init /\ [][Next]_vars

-----------------------------------------------------------------------------
(* Properties *)

(* The first byte after a lane. *)
End(lane) == lane.offset + lane.depth * lane.slot

(* Two lanes into one rank never share a byte of its slot window. *)
Disjoint ==
  \A i, j \in DOMAIN lanes :
    i # j /\ lanes[i].destination = lanes[j].destination =>
      End(lanes[i]) <= lanes[j].offset \/ End(lanes[j]) <= lanes[i].offset

(* Every slot of every lane lies in the window its destination allocates,  *)
(* so neither a put nor a local read is refused as out of range.           *)
InWindow ==
  \A i \in DOMAIN lanes :
    /\ lanes[i].slot > 0
    /\ End(lanes[i]) <= lengths[lanes[i].destination]

(* Every lane has a counter of its own in the window of its source, and    *)
(* no counter is allocated for nothing.                                    *)
OwnCounter ==
  /\ \A i, j \in DOMAIN lanes :
       lanes[i].source = lanes[j].source /\ lanes[i].ack = lanes[j].ack => i = j
  /\ \A r \in Ranks :
       {lanes[i].ack : i \in {j \in DOMAIN lanes : lanes[j].source = r}}
         = 0..(ack_lengths[r] - 1)

(* What is laid out is what was configured: one lane for each directed     *)
(* pair, between two different ranks.                                      *)
OneLanePerPair ==
  pc = "done" =>
    /\ Len(lanes) = Len(config)
    /\ \A i, j \in DOMAIN lanes :
         /\ lanes[i].source # lanes[i].destination
         /\ lanes[i].source = lanes[j].source
              /\ lanes[i].destination = lanes[j].destination => i = j

=============================================================================
