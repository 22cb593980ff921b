------------------------------ MODULE Compare -------------------------------
(***************************************************************************)
(* The comparison program (src/examples/compare.rs).  Ranks 0 and 1, the   *)
(* measured pair, go through the measurements of one repetition in step: a *)
(* stream and a round-trip measurement over a safe ring, the same over a   *)
(* raw one, a stream of standard and one of buffered point-to-point sends, *)
(* and point-to-point round trips.  The other ranks make noise until rank  *)
(* 0 dismisses them; all ranks meet in a last barrier.                     *)
(***************************************************************************)
EXTENDS Mesh, Noise, SequencesExt

CONSTANTS
  World,     (* All ranks.                                                 *)
  Messages,  (* n: messages of a stream.                                   *)
  Iters      (* Round trips of a measurement.                              *)

ASSUME CompareAssumption ==
  /\ Ranks = {0, 1} /\ Ranks \subseteq World
  /\ Lanes = {<<0, 1>>, <<1, 0>>}
  /\ Threads = Ranks \X {"main"}
  /\ Messages \in Nat \ {0} /\ Iters \in Nat \ {0}
  /\ Limit[<<0, 1>>] = Messages + Iters /\ Limit[<<1, 0>>] = Iters
  /\ \A p \in Pairs : {p[1], p[2]} \subseteq World \ Ranks
  /\ Faulty = {}

VARIABLES
  measure,   (* The measurement in progress, an index of Measures.         *)
  pc,        (* pc[r]: what rank r of the pair does next.                  *)
  count,     (* count[r]: messages sent, or round trips made, so far.      *)
  got,       (* Messages rank 1 took in the stream in progress.            *)
  stopping,  (* Rank 1 has received the stop message of a ring stream.     *)
  reply,     (* What rank 1 told rank 0 it took.                           *)
  chan,      (* chan[r]: point-to-point messages of r not received yet.    *)
  told       (* The ranks outside the pair that rank 0 has dismissed.      *)

pairVars    == <<measure, pc, count, got, stopping, reply, chan, told>>
compareVars == <<meshVars, noiseVars, pairVars>>

Measures ==
  <<"safe_stream", "safe_rtt", "raw_stream", "raw_rtt",
    "send_stream", "bsend_stream", "send_rtt">>

Measuring(names) == measure \in DOMAIN Measures /\ Measures[measure] \in names

RingStreams == {"safe_stream", "raw_stream"}
RingRtts    == {"safe_rtt", "raw_rtt"}
P2pStreams  == {"send_stream", "bsend_stream"}
P2pRtts     == {"send_rtt"}
OnRing      == Measuring(RingStreams \cup RingRtts)

(* What the ranks of the pair do first in a measurement. *)
Opening(name) ==
  IF name \in RingStreams \cup RingRtts
  THEN [r \in Ranks |-> IF r = 0 THEN "push" ELSE "await"]
  ELSE [r \in Ranks |-> IF r = 0 THEN "post" ELSE "receive"]

CompareInit ==
  /\ Fresh(TRUE) /\ NoiseInit
  /\ measure = 1 /\ pc = Opening(Measures[1])
  /\ count = [r \in Ranks |-> 0]
  /\ got = 0 /\ stopping = FALSE /\ reply = 0
  /\ chan = [r \in Ranks |-> <<>>]
  /\ told = {}

Other(r) == 1 - r

Out(r) == <<r, Other(r)>>

To(r, next) == pc' = [pc EXCEPT ![r] = next]

(* The sends rank r has made have returned. *)
SendsReturned(r) == Completes(chan[r])

-----------------------------------------------------------------------------
(* push: rank 0 in a stream, both ranks in turn in a round-trip.           *)

More(r) == count[r] < IF Measuring(RingStreams \cup P2pStreams) THEN Messages ELSE Iters

Push(r) ==
  /\ pc[r] = "push" /\ More(r)
  /\ \/ SendPut(Out(r)) /\ To(r, "flying")
     \/ SendFull(Out(r)) /\ UNCHANGED pc
     \/ SendDisbelieve(Out(r)) /\ To(r, "failed")
  /\ UNCHANGED <<noiseVars, measure, count, got, stopping, reply, chan, told>>

(* The Put is flushed.  In a stream the next message follows; rank 0 waits *)
(* for its answer in a round trip, which rank 1 completes by answering.    *)
Transfer(r) ==
  /\ pc[r] = "flying"
  /\ SendReturn(Out(r))
  /\ IF r = 0 /\ ~Measuring(RingStreams)
     THEN To(r, "await") /\ UNCHANGED count
     ELSE /\ count' = [count EXCEPT ![r] = @ + 1]
          /\ To(r, IF Measuring(RingStreams) THEN "push"
                   ELSE IF count'[r] < Iters THEN "await" ELSE "barrier")
  /\ UNCHANGED <<noiseVars, measure, got, stopping, reply, chan, told>>

-----------------------------------------------------------------------------
(* Draining the ring: rank 1 in a stream, await_one in a round trip.       *)

StartPoll(r) ==
  /\ pc[r] = "await"
  /\ PollStart(r)
  /\ To(r, "polling")
  /\ UNCHANGED <<noiseVars, measure, count, got, stopping, reply, chan, told>>

(* A step of the poll; after the last one its messages are counted, and    *)
(* the last one is acknowledged.                                           *)
PollOn(r) ==
  LET batch == poll'[r].batch
  IN  /\ pc[r] = "polling"
      /\ Poll(r)
      /\ IF poll'[r].pc # "idle" THEN UNCHANGED <<pc, got>>
         ELSE IF errors' # errors THEN To(r, "failed") /\ UNCHANGED got
         ELSE /\ To(r, IF safe /\ batch # <<>> THEN "ack" ELSE "drained")
              /\ got' = IF Measuring(RingStreams) THEN got + Len(batch) ELSE got
      /\ UNCHANGED <<noiseVars, measure, count, stopping, reply, chan, told>>

Acknowledge(r) ==
  LET t == <<r, "main">>
  IN  /\ pc[r] = "ack"
      /\ \/ AckIssue(t, Out(Other(r)), Last(poll[r].batch).sequence) /\ UNCHANGED pc
         \/ AckApply(t) /\ UNCHANGED pc
         \/ /\ AckReturn(t)
            /\ To(r, IF errors' # errors THEN "failed" ELSE "drained")
      /\ UNCHANGED <<noiseVars, measure, count, got, stopping, reply, chan, told>>

(* The stop message has arrived: probed for, and received. *)
StopArrived == chan[0] # <<>> /\ Head(chan[0]) = "stop"

DrainedAtOnce == stopping \/ StopArrived

(* The drain may stop at an empty poll that followed the stop message. *)
Drained == stopping

(* What the loop does after a poll. *)
StreamGoesOn ==
  /\ Measuring(RingStreams)
  /\ IF Drained /\ poll[1].batch = <<>>
     THEN To(1, "answer") /\ UNCHANGED <<stopping, chan>>
     ELSE /\ To(1, "await")
          /\ IF ~stopping /\ StopArrived
             THEN stopping' = TRUE /\ chan' = [chan EXCEPT ![0] = Tail(@)]
             ELSE UNCHANGED <<stopping, chan>>
  /\ UNCHANGED count

RttGoesOn(r) ==
  /\ Measuring(RingRtts)
  /\ IF poll[r].batch = <<>>
     THEN To(r, "await") /\ UNCHANGED count
     ELSE IF r = 1
     THEN To(r, "push") /\ UNCHANGED count
     ELSE /\ count' = [count EXCEPT ![r] = @ + 1]
          /\ To(r, IF count'[r] < Iters THEN "push" ELSE "barrier")
  /\ UNCHANGED <<stopping, chan>>

(* The batch is dropped. *)
AfterPoll(r) ==
  /\ pc[r] = "drained"
  /\ StreamGoesOn \/ RttGoesOn(r)
  /\ poll' = [poll EXCEPT ![r].batch = <<>>]
  /\ UNCHANGED <<safe, sendVars, counter, seen, lost, taken, acked, ack, errors,
                 noiseVars, measure, got, reply, told>>

-----------------------------------------------------------------------------
(* Point to point                                                          *)

(* The loop of a p2p stream or round trip: a message of rank 0 in a        *)
(* stream, of either in a round trip; a standard send returns when MPI     *)
(* lets it, a buffered one at once.                                        *)
Post(r) ==
  /\ pc[r] = "post" /\ More(r)
  /\ chan' = [chan EXCEPT ![r] = Append(@, "data")]
  /\ To(r, "posted")
  /\ UNCHANGED <<meshVars, noiseVars, measure, count, got, stopping, reply, told>>

Posted(r) ==
  /\ pc[r] = "posted"
  /\ SendsReturned(r) \/ Measuring({"bsend_stream"})
  /\ IF r = 0 /\ Measuring(P2pRtts)
     THEN To(r, "receive") /\ UNCHANGED count
     ELSE /\ count' = [count EXCEPT ![r] = @ + 1]
          /\ To(r, IF Measuring(P2pStreams) THEN "post"
                   ELSE IF count'[r] < Iters THEN "receive" ELSE "barrier")
  /\ UNCHANGED <<meshVars, noiseVars, measure, got, stopping, reply, chan, told>>

Receive(r) ==
  LET m == Head(chan[Other(r)])
  IN  /\ pc[r] = "receive" /\ chan[Other(r)] # <<>>
      /\ chan' = [chan EXCEPT ![Other(r)] = Tail(@)]
      /\ IF Measuring(P2pStreams)
         THEN /\ To(r, IF m = "stop" THEN "answer" ELSE "receive")
              /\ got' = IF m = "stop" THEN got ELSE got + 1
              /\ UNCHANGED count
         ELSE /\ UNCHANGED got
              /\ IF r = 1 THEN To(r, "post") /\ UNCHANGED count
                 ELSE /\ count' = [count EXCEPT ![r] = @ + 1]
                      /\ To(r, IF count'[r] < Iters THEN "post" ELSE "barrier")
      /\ UNCHANGED <<meshVars, noiseVars, measure, stopping, reply, told>>

(* The end of a stream: rank 0 says so, and waits for rank 1's count. *)
SendStop ==
  /\ pc[0] \in {"push", "post"} /\ ~More(0)
  /\ chan' = [chan EXCEPT ![0] = Append(@, "stop")]
  /\ To(0, "reply")
  /\ UNCHANGED <<meshVars, noiseVars, measure, count, got, stopping, reply, told>>

Answer ==
  /\ pc[1] = "answer"
  /\ chan' = [chan EXCEPT ![1] = Append(@, got)]
  /\ To(1, "barrier")
  /\ UNCHANGED <<meshVars, noiseVars, measure, count, got, stopping, reply, told>>

(* Rank 0 does not wait for the count. *)
ReplyUnawaited ==
  /\ pc[0] = "reply" /\ SendsReturned(0)
  /\ To(0, "barrier")
  /\ reply' = Messages
  /\ UNCHANGED <<meshVars, noiseVars, measure, count, got, stopping, chan, told>>

Reply ==
  /\ pc[0] = "reply" /\ SendsReturned(0) /\ chan[1] # <<>>
  /\ reply' = Head(chan[1])
  /\ chan' = [chan EXCEPT ![1] = Tail(@)]
  /\ To(0, "barrier")
  /\ UNCHANGED <<meshVars, noiseVars, measure, count, got, stopping, told>>

-----------------------------------------------------------------------------
(* The barriers *)

EveryRankArrived ==
  /\ \A r \in Ranks : pc[r] = "barrier" /\ SendsReturned(r)
  /\ \A r \in World \ Ranks : Quiet(r)

PairArrived == \A r \in Ranks : pc[r] = "barrier" /\ SendsReturned(r)

(* The barrier of the pair after a measurement, and what follows it before *)
(* the next one: a ring is closed after its round trips, and a new one     *)
(* made before a ring stream.  The loops end after the last measurement.   *)
Barrier ==
  /\ measure \in DOMAIN Measures /\ PairArrived
  /\ measure' = measure + 1
  /\ count' = [r \in Ranks |-> 0]
  /\ got' = 0 /\ stopping' = FALSE /\ reply' = 0
  /\ pc' = IF measure' \in DOMAIN Measures
           THEN Opening(Measures[measure'])
           ELSE [r \in Ranks |-> IF r = 0 THEN "dismiss" ELSE "world"]
  /\ IF measure' \in DOMAIN Measures /\ Measures[measure'] \in RingStreams
     THEN Renew(Measures[measure + 1] = "safe_stream")
     ELSE UNCHANGED meshVars
  /\ UNCHANGED <<noiseVars, chan, told>>

(* Rank 0 dismisses the others one by one; the main thread of each has     *)
(* nothing to do but to receive that, and raises `stop`.                   *)
Dismiss(r) ==
  /\ pc[0] = "dismiss"
  /\ r \in World \ (Ranks \cup told)
  /\ \A q \in World \ (Ranks \cup told) : r <= q
  /\ told' = told \cup {r}
  /\ IF r \in Noisy THEN NoiseRaise(r) ELSE UNCHANGED stop
  /\ UNCHANGED <<meshVars, eager, wire, noise, measure, pc, count, got, stopping,
                 reply, chan>>

Dismissed ==
  /\ pc[0] = "dismiss" /\ told = World \ Ranks
  /\ To(0, "world")
  /\ UNCHANGED <<meshVars, noiseVars, measure, count, got, stopping, reply, chan, told>>

(* The last barrier: the other ranks reach it when their noise thread has  *)
(* left.                                                                   *)
WorldBarrier ==
  /\ \A r \in Ranks : pc[r] = "world"
  /\ \A r \in World \ Ranks : r \in told /\ Quiet(r)
  /\ pc' = [r \in Ranks |-> "end"]
  /\ UNCHANGED <<meshVars, noiseVars, measure, count, got, stopping, reply, chan, told>>

-----------------------------------------------------------------------------
RingWork(r) ==
  \/ Push(r)
  \/ StartPoll(r)
  \/ PollOn(r)
  \/ Acknowledge(r)
  \/ AfterPoll(r)

P2pWork(r) ==
  \/ Post(r)
  \/ Posted(r)
  \/ Receive(r)

Streaming ==
  \/ SendStop
  \/ Answer
  \/ Reply

Ending ==
  \/ Barrier
  \/ \E r \in World : Dismiss(r)
  \/ Dismissed
  \/ WorldBarrier

Background(r) == NoiseThread(r) /\ UNCHANGED <<meshVars, pairVars>>

Ended == \A r \in Ranks : pc[r] = "end"

Over == Ended /\ UNCHANGED compareVars

CompareNext ==
  \/ \E r \in Ranks : RingWork(r) \/ P2pWork(r) \/ Transfer(r)
  \/ Streaming
  \/ Ending
  \/ \E r \in Noisy : Background(r)
  \/ Over

(* Every thread is scheduled; a Put that is being flushed, and a message,  *)
(* arrives.  The steps of Streaming and Ending wait for one another only.  *)
Fairness ==
  /\ \A r \in Ranks :
       /\ WF_compareVars(RingWork(r) \/ P2pWork(r))
       /\ WF_compareVars(Transfer(r))
  /\ WF_compareVars(Streaming) /\ WF_compareVars(Ending)
  /\ \A r \in Noisy : WF_compareVars(Background(r))

CompareSpec == CompareInit /\ [][CompareNext]_compareVars /\ Fairness

-----------------------------------------------------------------------------
(* Properties *)

(* What rank 0 prints of a stream: everything was delivered or, on a raw   *)
(* ring only, lost.                                                        *)
StreamRow ==
  pc[0] = "barrier" /\ Measuring(RingStreams \cup P2pStreams) =>
    /\ ~Measuring({"raw_stream"}) => reply = Messages
    /\ Measuring({"raw_stream"}) => reply + lost[1] = Messages

(* What it prints of round trips: each rank took every message of the      *)
(* other once, and none of the stream before, though `await_one` returns   *)
(* at whatever it finds.                                                   *)
RttRow ==
  PairArrived /\ Measuring(RingRtts) =>
    /\ taken[<<1, 0>>] = [i \in 1..Iters |-> i]
    /\ \A i \in 1..Iters :
         taken[<<0, 1>>][Len(taken[<<0, 1>>]) - Iters + i] = Messages + i
    /\ lost[0] = 0 /\ seen[<<0, 1>>] = Messages + Iters

(* No rank panics, and every row printed is true of the ring.              *)
RowsTrue ==
  /\ \A r \in Ranks : pc[r] # "failed"
  /\ StreamRow
  /\ RttRow

(* A measurement leaves nothing for the next one: no point-to-point        *)
(* message, and no message in the ring (the comment in p2p_stream says     *)
(* that waiting for the count drains the queue).                           *)
NothingLeftOver ==
  PairArrived =>
    /\ \A r \in Ranks : chan[r] = <<>>
    /\ OnRing => seen = sent

(* The program ends on every rank: the measured pair never waits for the   *)
(* noise ranks before it has dismissed them (the comment in main says that *)
(* a world barrier would deadlock).                                        *)
CompareEnds == <>Ended

=============================================================================
