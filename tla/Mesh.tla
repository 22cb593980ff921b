-------------------------------- MODULE Mesh --------------------------------
(***************************************************************************)
(* A Ring over several ranks (src/src/ring.rs), message by message: all    *)
(* the lanes between the ranks, what they share, and the threads that      *)
(* call one ring.  One poll visits every incoming lane of its rank under   *)
(* the mutex of `seen`, collects their messages in one batch, and fails as *)
(* a whole; acknowledgements to all origins go through the mutex of        *)
(* `acked`; the loss statistic is one counter for the whole ring.          *)
(*                                                                         *)
(* Module Lane has the words of a slot.  Here a Put is in flight or        *)
(* complete, and reading the slot it is replacing (probe and frame         *)
(* together) finds nothing usable, the old message or the new one.  That   *)
(* is Lane with words read at once; ByteProbe has what bytes add to it.    *)
(***************************************************************************)
EXTENDS Integers, Sequences, FiniteSets, FiniteSetsExt

CONSTANTS
  Ranks,     (* The ranks of the communicator, numbers.                    *)
  Lanes,     (* The configured lanes, as pairs <<source, destination>>.    *)
  Depth,     (* Depth[l]: the slots of lane l.                             *)
  Limit,     (* Limit[l]: bound on the messages sent down lane l.          *)
  Threads,   (* The receiving threads, as pairs <<rank, name>>.            *)
  Modes,     (* The kinds of ring to consider: TRUE is Ring::safe.         *)
  Faulty,    (* Lanes whose acknowledgements may fail and be repeated.     *)
  Overcredit (* Bound on what repeated acknowledgements add too much.      *)

ASSUME MeshAssumption ==
  /\ Ranks \subseteq Nat /\ IsFiniteSet(Ranks)
  /\ Lanes \subseteq Ranks \X Ranks /\ \A l \in Lanes : l[1] # l[2]
  /\ Depth \in [Lanes -> Nat \ {0}]
  /\ Limit \in [Lanes -> Nat]
  /\ \A t \in Threads : t[1] \in Ranks
  /\ Modes \subseteq BOOLEAN /\ Faulty \subseteq Lanes /\ Overcredit \in Nat

VARIABLES
  safe,      (* Whether the ring has acknowledgement counters.             *)
  sent,      (* sent[l]: the highest sequence put on lane l.               *)
  cached,    (* cached[l]: the counter of l as its sender last read it.    *)
  flying,    (* flying[l]: the Put of sequence sent[l] + 1 is in flight.   *)
  counter,   (* counter[l]: the counter of l in the window of its source.  *)
  seen,      (* seen[l]: the receiver's cursor.                            *)
  acked,     (* acked[l]: the last sequence the receiver acknowledged.     *)
  lost,      (* lost[r]: sequences skipped on all incoming lanes of r.     *)
  poll,      (* poll[r]: the poll in progress on r, with the lanes still   *)
             (* to visit, or with the batch of the last one when there is  *)
             (* none.                                                      *)
  ack,       (* ack[t]: the acknowledgement in progress on thread t.       *)
  taken,     (* History: the sequences polls have taken off a lane.        *)
  errors     (* <<lane, kind>>: the broken lanes that checks reported.     *)

sendVars == <<sent, cached, flying>>
recvVars == <<seen, lost, poll, taken>>
meshVars == <<safe, sendVars, counter, recvVars, acked, ack, errors>>

Incoming(r) == {l \in Lanes : l[2] = r}

(* A poll that has neither read nor found anything at its lane. *)
FreshPoll(pc, todo, messages) ==
  [pc |-> pc, todo |-> todo, read |-> 0, at |-> 0, found |-> {}, batch |-> messages]

IdlePoll(messages) == FreshPoll("idle", {}, messages)

IdleAck == [pc |-> "idle", lane |-> <<>>, sequence |-> 0, previous |-> 0]

Zero == [l \in Lanes |-> 0]

(* What a ring is made with (Ring::new), all counters and cursors zero. *)
Fresh(mode) ==
  /\ safe = mode
  /\ sent = Zero /\ cached = Zero /\ counter = Zero
  /\ seen = Zero /\ acked = Zero
  /\ flying = [l \in Lanes |-> FALSE]
  /\ lost = [r \in Ranks |-> 0]
  /\ poll = [r \in Ranks |-> IdlePoll(<<>>)]
  /\ ack = [t \in Threads |-> IdleAck]
  /\ taken = [l \in Lanes |-> <<>>]
  /\ errors = {}

(* The ring is closed, and another one made. *)
Renew(mode) ==
  /\ safe' = mode
  /\ sent' = Zero /\ cached' = Zero /\ counter' = Zero
  /\ seen' = Zero /\ acked' = Zero
  /\ flying' = [l \in Lanes |-> FALSE]
  /\ lost' = [r \in Ranks |-> 0]
  /\ poll' = [r \in Ranks |-> IdlePoll(<<>>)]
  /\ ack' = [t \in Threads |-> IdleAck]
  /\ taken' = [l \in Lanes |-> <<>>]
  /\ errors' = {}

MeshInit == \E mode \in Modes : Fresh(mode)

-----------------------------------------------------------------------------
(* Ring::send *)

GatedLate(l, a) == safe /\ sent[l] + 1 - a > Depth[l] + 1

(* The slot just released is not reused. *)
GatedEarly(l, a) == safe /\ sent[l] + 1 - a >= Depth[l]

Gated(l, a) == safe /\ sent[l] + 1 - a > Depth[l]

Incredible(l) == counter[l] < cached[l] \/ counter[l] > sent[l]

MaySend(l) == ~flying[l] /\ sent[l] < Limit[l]

SendPut(l) ==
  /\ MaySend(l)
  /\ \/ ~Gated(l, cached[l]) /\ UNCHANGED cached
     \/ /\ Gated(l, cached[l]) /\ ~Incredible(l) /\ ~Gated(l, counter[l])
        /\ cached' = [cached EXCEPT ![l] = counter[l]]
  /\ flying' = [flying EXCEPT ![l] = TRUE]
  /\ UNCHANGED <<safe, sent, counter, recvVars, acked, ack, errors>>

(* Error::Full. *)
SendFull(l) ==
  /\ MaySend(l)
  /\ Gated(l, cached[l]) /\ ~Incredible(l) /\ Gated(l, counter[l])
  /\ cached' = [cached EXCEPT ![l] = counter[l]]
  /\ UNCHANGED <<safe, sent, flying, counter, recvVars, acked, ack, errors>>

SendDisbelieve(l) ==
  /\ MaySend(l)
  /\ Gated(l, cached[l]) /\ Incredible(l)
  /\ errors' = errors \cup
       {<<l, IF counter[l] < cached[l] THEN "regressed" ELSE "exceeds">>}
  /\ UNCHANGED <<safe, sendVars, counter, recvVars, acked, ack>>

(* The flush returns: the message is whole in its slot. *)
SendReturn(l) ==
  /\ flying[l]
  /\ flying' = [flying EXCEPT ![l] = FALSE]
  /\ sent' = [sent EXCEPT ![l] = @ + 1]
  /\ UNCHANGED <<safe, cached, counter, recvVars, acked, ack, errors>>

-----------------------------------------------------------------------------
(* Ring::poll *)

Position(l, s) == (s - 1) % Depth[l]

(* The sequence whose Put was the last to complete at position p; zero     *)
(* when there was none.                                                    *)
Stored(l, p) ==
  LET here == {s \in 1..sent[l] : Position(l, s) = p}
  IN  IF here = {} THEN 0 ELSE Max(here)

(* What reading the slot may find; zero stands for nothing usable. *)
Readable(l, p) ==
  {Stored(l, p)} \cup
  IF flying[l] /\ Position(l, sent[l] + 1) = p THEN {0, sent[l] + 1} ELSE {}

(* The lanes are visited in the order of their sources. *)
Lane(r) == CHOOSE l \in poll[r].todo : \A k \in poll[r].todo : l[1] <= k[1]

(* The poll turns to the first of some lanes. *)
Visit(todo, messages) == FreshPoll("lane", todo, messages)

PollStart(r) ==
  /\ poll[r].pc = "idle" /\ Incoming(r) # {}
  /\ poll' = [poll EXCEPT ![r] = Visit(Incoming(r), <<>>)]
  /\ UNCHANGED <<safe, sendVars, counter, seen, lost, taken, acked, ack, errors>>

(* The poll is through with a lane, and goes on to the next one or returns *)
(* what it has collected.                                                  *)
LeaveLane(r, messages) ==
  LET todo == poll[r].todo \ {Lane(r)}
  IN  poll' = [poll EXCEPT ![r] = IF todo = {} THEN IdlePoll(messages)
                                             ELSE Visit(todo, messages)]

(* Nothing new in the expected slot. *)
PollMiss(r) ==
  /\ poll[r].pc = "lane"
  /\ \E f \in Readable(Lane(r), Position(Lane(r), seen[Lane(r)] + 1)) :
       f <= seen[Lane(r)]
  /\ LeaveLane(r, poll[r].batch)
  /\ UNCHANGED <<safe, sendVars, counter, seen, lost, taken, acked, ack, errors>>

Message(l, s) == [lane |-> l, sequence |-> s]

Take(l, s) ==
  /\ seen' = [seen EXCEPT ![l] = s]
  /\ taken' = [taken EXCEPT ![l] = Append(@, s)]

PollTake(r) ==
  LET l        == Lane(r)
      expected == seen[l] + 1
      messages == Append(poll[r].batch, Message(l, expected))
  IN  /\ poll[r].pc = "lane"
      /\ expected \in Readable(l, Position(l, expected))
      /\ Take(l, expected)
      /\ IF poll[r].read + 1 < Depth[l]
         THEN poll' = [poll EXCEPT ![r].read = @ + 1, ![r].batch = messages]
         ELSE LeaveLane(r, messages)
      /\ UNCHANGED <<safe, sendVars, counter, lost, acked, ack, errors>>

Lapped(r) ==
  /\ poll[r].pc = "lane"
  /\ \E f \in Readable(Lane(r), Position(Lane(r), seen[Lane(r)] + 1)) :
       f > seen[Lane(r)] + 1

(* Error::Lapped: the poll gives up, with the messages it had collected    *)
(* from this lane and from the lanes before it.                            *)
PollLapped(r) ==
  /\ Lapped(r) /\ safe
  /\ errors' = errors \cup {<<Lane(r), "lapped">>}
  /\ poll' = [poll EXCEPT ![r] = IdlePoll(<<>>)]
  /\ UNCHANGED <<safe, sendVars, counter, seen, lost, taken, acked, ack>>

PollRecover(r) ==
  /\ Lapped(r) /\ ~safe
  /\ poll' = [poll EXCEPT ![r].pc = "scan"]
  /\ UNCHANGED <<safe, sendVars, counter, seen, lost, taken, acked, ack, errors>>

(* recover reads the slots one after the other. *)
PollScan(r) ==
  LET l == Lane(r)
  IN  /\ poll[r].pc = "scan"
      /\ \E f \in Readable(l, poll[r].at) :
           LET found == poll[r].found \cup ({f} \ 0..seen[l])
           IN  IF poll[r].at + 1 < Depth[l]
               THEN poll' = [poll EXCEPT ![r].at = @ + 1, ![r].found = found]
               ELSE IF found = {}
                    THEN LeaveLane(r, poll[r].batch)
                    ELSE poll' = [poll EXCEPT ![r].pc = "deliver", ![r].found = found]
      /\ UNCHANGED <<safe, sendVars, counter, seen, taken, lost, acked, ack, errors>>

GapFromSeen(l, s) == s - seen[l]

(* The sequences skipped when the cursor of l moves to s. *)
Gap(l, s) == s - seen[l] - 1

(* What the scan found is delivered in order, and the gaps are counted. *)
PollDeliver(r) ==
  LET l        == Lane(r)
      s        == Min(poll[r].found)
      rest     == poll[r].found \ {s}
      messages == Append(poll[r].batch, Message(l, s))
  IN  /\ poll[r].pc = "deliver"
      /\ Take(l, s)
      /\ lost' = [lost EXCEPT ![r] = @ + Gap(l, s)]
      /\ IF rest = {}
         THEN LeaveLane(r, messages)
         ELSE poll' = [poll EXCEPT ![r].found = rest, ![r].batch = messages]
      /\ UNCHANGED <<safe, sendVars, counter, acked, ack, errors>>

-----------------------------------------------------------------------------
(* Ring::ack *)

(* The mutex of `acked` is held from before the counter moves until it is  *)
(* recorded.                                                               *)
MutexReleasedEarly(r) == TRUE

MutexFree(r) == \A t \in Threads : t[1] = r => ack[t].pc = "idle"

(* ack reads the cursor under the mutex of `seen`: not amid a poll. *)
AmidPolls(r) == TRUE

BetweenPolls(r) == poll[r].pc = "idle"

(* The bound, which is not in the code, on the counter of a lane whose     *)
(* acknowledgements fail and are repeated.  No other lane is bounded.      *)
InBound(l, s) == l \in Faulty => counter[l] + s - acked[l] <= Limit[l] + Overcredit

AckIssue(t, l, s) ==
  /\ safe /\ l[2] = t[1]
  /\ ack[t].pc = "idle" /\ MutexFree(t[1]) /\ BetweenPolls(t[1])
  /\ s > acked[l] /\ s <= seen[l]
  /\ InBound(l, s)
  /\ ack' = [ack EXCEPT ![t] = [IdleAck EXCEPT !.pc = "issued", !.lane = l,
                                               !.sequence = s]]
  /\ UNCHANGED <<safe, sendVars, counter, recvVars, acked, errors>>

(* MPI_Fetch_and_op takes effect in the window of the lane's source. *)
AckApply(t) ==
  LET l == ack[t].lane
  IN  /\ ack[t].pc = "issued"
      /\ ack' = [ack EXCEPT ![t].pc = "applied", ![t].previous = counter[l]]
      /\ counter' = [counter EXCEPT ![l] = @ + (ack[t].sequence - acked[l])]
      /\ UNCHANGED <<safe, sendVars, recvVars, acked, errors>>

AckReturn(t) ==
  LET l == ack[t].lane
  IN  /\ ack[t].pc = "applied"
      /\ ack' = [ack EXCEPT ![t] = IdleAck]
      /\ IF ack[t].previous = acked[l]
         THEN /\ acked' = [acked EXCEPT ![l] = ack[t].sequence]
              /\ UNCHANGED errors
         ELSE /\ errors' = errors \cup {<<l, "diverged">>}
              /\ UNCHANGED acked
      /\ UNCHANGED <<safe, sendVars, counter, recvVars>>

(* The operation or its flush fails, before or after the counter moved. *)
AckFails(t) ==
  /\ ack[t].pc \in {"issued", "applied"} /\ ack[t].lane \in Faulty
  /\ ack' = [ack EXCEPT ![t] = IdleAck]
  /\ UNCHANGED <<safe, sendVars, counter, recvVars, acked, errors>>

-----------------------------------------------------------------------------
Send(l) == SendPut(l) \/ SendFull(l) \/ SendDisbelieve(l) \/ SendReturn(l)

Poll(r) ==
  \/ PollStart(r)
  \/ PollMiss(r)
  \/ PollTake(r)
  \/ PollLapped(r)
  \/ PollRecover(r)
  \/ PollScan(r)
  \/ PollDeliver(r)

Ack(t) ==
  \/ \E l \in Lanes : \E s \in 1..seen[l] : AckIssue(t, l, s)
  \/ AckApply(t)
  \/ AckReturn(t)
  \/ AckFails(t)

MeshNext ==
  \/ \E l \in Lanes : Send(l)
  \/ \E r \in Ranks : Poll(r)
  \/ \E t \in Threads : Ack(t)

MeshSpec == MeshInit /\ [][MeshNext]_meshVars

-----------------------------------------------------------------------------
(* Properties *)

(* With words read at once, only a lane whose acknowledgements failed is   *)
(* ever reported broken, and only on a safe ring: neither the threads that *)
(* poll and acknowledge concurrently, nor a broken lane under the same     *)
(* poll, break another.                                                    *)
Isolated == \A e \in errors : safe /\ e[1] \in Faulty

InBatch(batch, l) == Cardinality({i \in DOMAIN batch : batch[i].lane = l})

(* The messages of l that the poll in progress has yet to return. *)
Due(l) == IF poll[l[2]].pc = "idle" THEN 0 ELSE InBatch(poll[l[2]].batch, l)

(* Whatever room a sender is given back was held by messages that a poll   *)
(* has returned, or has dropped with an error: never by messages of a poll *)
(* still in progress.                                                      *)
AckedWereReturned == \A l \in Lanes \ Faulty : counter[l] <= seen[l] - Due(l)

Total(f, into) == MapThenSumSet(LAMBDA l : f[l], into)

(* One loss counter serves all lanes: with the messages taken it accounts  *)
(* for every cursor of the rank, whatever the polls recovered.             *)
RingAccounted ==
  \A r \in Ranks :
    lost[r] + Total([l \in Lanes |-> Len(taken[l])], Incoming(r)) = Total(seen, Incoming(r))

(* Lane l as the abstract queue of FifoLane. *)
Fifo(l, lossless) == INSTANCE FifoLane WITH
  Depth    <- Depth[l],
  Limit    <- Limit[l],
  Data     <- {l},
  Lossless <- lossless,
  CountMod <- 1,
  accepted <- [s \in 1..(sent[l] + IF flying[l] THEN 1 ELSE 0) |-> l],
  cursor   <- seen[l],
  out      <- [i \in DOMAIN taken[l] |-> [sequence |-> taken[l][i], data |-> l]],
  lost     <- seen[l] - Len(taken[l]),
  released <- counter[l],
  refused  <- 0

FifoStep(l) ==
  \/ IF safe THEN Fifo(l, TRUE)!Next ELSE Fifo(l, FALSE)!Next
  \/ UNCHANGED Fifo(l, TRUE)!fifoVars

(* Each lane whose acknowledgements do not fail is a queue of its own: a   *)
(* bounded lossless one on a safe ring, a lossy one on a raw ring,         *)
(* whatever happens on the lanes that share its polls.                     *)
LanesAreFifo ==
  /\ \A l \in Lanes \ Faulty : Fifo(l, TRUE)!Init
  /\ [][\A l \in Lanes \ Faulty : FifoStep(l)]_meshVars

=============================================================================
