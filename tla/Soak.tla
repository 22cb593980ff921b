-------------------------------- MODULE Soak --------------------------------
(***************************************************************************)
(* The soak program (src/examples/soak.rs): every rank opens a lane to     *)
(* every other, its main thread pushes Count stamped messages down each,   *)
(* round-robin and retrying while the ring answers Full, while its poller  *)
(* thread drains, verifies and acknowledges what comes in.  A barrier      *)
(* after the last push lets each poller stop at an empty poll; then the    *)
(* totals are checked, gathered, and the ring is closed.                   *)
(***************************************************************************)
EXTENDS Mesh, Noise

CONSTANT Count  \* messages pushed down each lane

ASSUME SoakAssumption ==
  /\ Count \in Nat \ {0}
  /\ Lanes = {l \in Ranks \X Ranks : l[1] # l[2]}
  /\ Limit = [l \in Lanes |-> Count]
  /\ Threads = Ranks \X {"poller"}
  /\ Faulty = {}

VARIABLES
  main,      (* main[r]: what the main thread of r does next.              *)
  done,      (* done[r]: the flag the main thread raises.                  *)
  stage,     (* stage[r]: what the poller thread does next.                *)
  finished,  (* finished[r]: `done` as loaded before the poll in progress. *)
  got,       (* got[l]: the last sequence of l handed to the poller.       *)
  total,     (* total[r]: messages handed to the poller.                   *)
  owed       (* owed[r]: what is left to acknowledge of the last batch.    *)

mainVars   == <<main, done>>
pollerVars == <<stage, finished, got, total, owed>>
soakVars   == <<meshVars, noiseVars, mainVars, pollerVars>>

SoakInit ==
  /\ MeshInit /\ NoiseInit
  /\ main = [r \in Ranks |-> "push"]
  /\ done = [r \in Ranks |-> FALSE]
  /\ stage = [r \in Ranks |-> "load"]
  /\ finished = done
  /\ got = [l \in Lanes |-> 0]
  /\ total = [r \in Ranks |-> 0]
  /\ owed = [r \in Ranks |-> {}]

-----------------------------------------------------------------------------
(* The main thread *)

(* The rounds of pushes go over the destinations in order of rank: the     *)
(* lane pushed to next is the first of those with the fewest messages.     *)
Target(r) ==
  CHOOSE l \in Lanes : l[1] = r /\ \A k \in Lanes : k[1] = r =>
    sent[l] < sent[k] \/ (sent[l] = sent[k] /\ l[2] <= k[2])

AllPushed(r) == \A l \in Lanes : l[1] = r => sent[l] = Count

To(r, next) == main' = [main EXCEPT ![r] = next]

(* push: one message, retried while the lane is full; main panics at any   *)
(* other error.                                                            *)
Push(r) ==
  /\ main[r] = "push" /\ ~AllPushed(r)
  /\ \/ (SendPut(Target(r)) \/ SendFull(Target(r))) /\ UNCHANGED main
     \/ SendDisbelieve(Target(r)) /\ To(r, "failed")
  /\ UNCHANGED <<noiseVars, done, pollerVars>>

(* A Put is flushed, and its send returns. *)
Transfer(l) ==
  /\ SendReturn(l)
  /\ UNCHANGED <<noiseVars, mainVars, pollerVars>>

(* The collectives of the main threads, and the stages after them. *)
Order == <<"push", "barrier", "join", "gather", "close", "end">>

After(s) == {Order[i] : i \in {j \in DOMAIN Order : \E k \in 1..j : Order[k] = s}}

Through(s) == \A r \in Ranks : main[r] \in After(s)

EnterBarrier(r) ==
  /\ main[r] = "push" /\ AllPushed(r)
  /\ To(r, "barrier")
  /\ UNCHANGED <<meshVars, noiseVars, done, pollerVars>>

(* Every send of every rank has returned: the poller may stop. *)
RaiseDone(r) ==
  /\ main[r] = "barrier" /\ Through("barrier")
  /\ To(r, "join")
  /\ done' = [done EXCEPT ![r] = TRUE]
  /\ UNCHANGED <<meshVars, noiseVars, pollerVars>>

(* The poller thread is joined, and the noise thread told to stop. *)
Joined(r) == stage[r] \in {"exited", "failed"}

StopNoise(r) ==
  /\ main[r] = "join" /\ Joined(r)
  /\ r \in Noisy /\ ~stop[r]
  /\ NoiseRaise(r)
  /\ UNCHANGED <<meshVars, eager, wire, noise, mainVars, pollerVars>>

(* The poller succeeded, every lane ended at its sender's last message,    *)
(* and what was received and what was lost add up.                         *)
Passes(r) ==
  LET into == {l \in Lanes : l[2] = r}
  IN  /\ stage[r] = "exited"
      /\ \A l \in into : got[l] = Count
      /\ safe => lost[r] = 0
      /\ total[r] + lost[r] = Count * Cardinality(into)

(* The scope ends with the noise thread; the checks follow, and abort all  *)
(* ranks when they fail.                                                   *)
Verdict(r) ==
  /\ main[r] = "join" /\ Joined(r)
  /\ r \in Noisy => stop[r] /\ Quiet(r)
  /\ To(r, IF Passes(r) THEN "gather" ELSE "failed")
  /\ UNCHANGED <<meshVars, noiseVars, done, pollerVars>>

(* all_gather of the counters; the barrier and the close of the ring. *)
Collective(r) ==
  /\ \/ main[r] = "gather" /\ Through("gather") /\ To(r, "close")
     \/ main[r] = "close" /\ Through("close") /\ To(r, "end")
  /\ UNCHANGED <<meshVars, noiseVars, done, pollerVars>>

-----------------------------------------------------------------------------
(* The poller thread *)

GoOn(r, next) == stage' = [stage EXCEPT ![r] = next]

Load(r) ==
  /\ stage[r] = "load"
  /\ finished' = [finished EXCEPT ![r] = done[r]]
  /\ GoOn(r, "poll")
  /\ UNCHANGED <<meshVars, noiseVars, mainVars, got, total, owed>>

StartPoll(r) ==
  /\ stage[r] = "poll"
  /\ PollStart(r)
  /\ GoOn(r, "polling")
  /\ UNCHANGED <<noiseVars, mainVars, finished, got, total, owed>>

(* The last sequence of l that the poller knows of after n messages of a   *)
(* batch: its `seen`.                                                      *)
Latest(batch, n, l) ==
  LET of == {i \in 1..n : batch[i].lane = l}
  IN  IF of = {} THEN got[l] ELSE batch[Max(of)].sequence

(* The checks on the order of the sequences. *)
InOrder(batch) ==
  \A i \in DOMAIN batch :
    LET before == Latest(batch, i - 1, batch[i].lane)
    IN  /\ batch[i].sequence > before
        /\ safe => batch[i].sequence = before + 1

Reached(batch, l) == Latest(batch, Len(batch), l)

(* The furthest sequence of each lane in a batch. *)
Furthest(batch) == {Message(l, Reached(batch, l)) : l \in {batch[i].lane : i \in DOMAIN batch}}

Owes(batch) == IF safe THEN Furthest(batch) ELSE {}

(* A step of Ring::poll; after the last one the batch is verified. *)
PollOn(r) ==
  LET batch == poll'[r].batch
  IN  /\ stage[r] = "polling"
      /\ Poll(r)
      /\ IF poll'[r].pc # "idle"
         THEN UNCHANGED <<stage, got, total, owed>>
         ELSE IF errors' # errors \/ ~InOrder(batch)
         THEN GoOn(r, "failed") /\ UNCHANGED <<got, total, owed>>
         ELSE /\ GoOn(r, "ack")
              /\ got' = [l \in Lanes |-> Reached(batch, l)]
              /\ total' = [total EXCEPT ![r] = @ + Len(batch)]
              /\ owed' = [owed EXCEPT ![r] = Owes(batch)]
      /\ UNCHANGED <<noiseVars, mainVars, finished>>

(* Each lane of the batch is acknowledged, in any order. *)
Acknowledge(r) ==
  LET t == <<r, "poller">>
  IN  /\ stage[r] = "ack"
      /\ \/ /\ \E m \in owed[r] :
                 /\ AckIssue(t, m.lane, m.sequence)
                 /\ owed' = [owed EXCEPT ![r] = @ \ {m}]
            /\ UNCHANGED stage
         \/ AckApply(t) /\ UNCHANGED <<stage, owed>>
         \/ /\ AckReturn(t)
            /\ IF errors' # errors THEN GoOn(r, "failed") ELSE UNCHANGED stage
            /\ UNCHANGED owed
      /\ UNCHANGED <<noiseVars, mainVars, finished, got, total>>

(* The loop ends after an empty poll that followed the barrier: `finished` *)
(* is older than the poll, `done` itself may be younger.                   *)
FinishedNow(r) == done[r]

Finished(r) == finished[r]

Check(r) ==
  /\ stage[r] = "ack" /\ owed[r] = {} /\ ack[<<r, "poller">>].pc = "idle"
  /\ GoOn(r, IF Finished(r) /\ poll[r].batch = <<>> THEN "exited" ELSE "load")
  /\ poll' = [poll EXCEPT ![r].batch = <<>>]
  /\ UNCHANGED <<safe, sendVars, counter, seen, lost, taken, acked, ack, errors,
                 noiseVars, mainVars, finished, got, total, owed>>

-----------------------------------------------------------------------------
Main(r) ==
  \/ Push(r)
  \/ EnterBarrier(r)
  \/ RaiseDone(r)
  \/ StopNoise(r)
  \/ Verdict(r)
  \/ Collective(r)

Poller(r) ==
  \/ Load(r)
  \/ StartPoll(r)
  \/ PollOn(r)
  \/ Acknowledge(r)
  \/ Check(r)

Background(r) ==
  /\ NoiseThread(r)
  /\ UNCHANGED <<meshVars, mainVars, pollerVars>>

Ended == \A r \in Ranks : main[r] = "end"

Over == Ended /\ UNCHANGED soakVars

SoakNext ==
  \/ \E r \in Ranks : Main(r) \/ Poller(r)
  \/ \E l \in Lanes : Transfer(l)
  \/ \E r \in Noisy : Background(r)
  \/ Over

(* Every thread is scheduled, and a Put that is being flushed completes. *)
Fairness ==
  /\ \A r \in Ranks : WF_soakVars(Main(r)) /\ WF_soakVars(Poller(r))
  /\ \A l \in Lanes : WF_soakVars(Transfer(l))
  /\ \A r \in Noisy : WF_soakVars(Background(r))

SoakSpec == SoakInit /\ [][SoakNext]_soakVars /\ Fairness

-----------------------------------------------------------------------------
(* Properties *)

(* No check of the program fails: no poll, send or ack returns an error,   *)
(* the batches are in order, and when a poller stops its lanes ended at    *)
(* their senders' last messages, everything was received or counted as     *)
(* lost, and a safe ring lost nothing (soak.rs:296-311).                   *)
SoakPasses ==
  /\ \A r \in Ranks : main[r] # "failed" /\ stage[r] # "failed"
  /\ \A r \in Ranks : stage[r] = "exited" => Passes(r)

(* The program ends on every rank: a sender that is refused is let through *)
(* by an acknowledgement of a poller that cannot stop before it, and the   *)
(* noise threads leave.                                                    *)
Termination == <>Ended

=============================================================================
