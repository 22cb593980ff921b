----------------------------- MODULE LaneFaults -----------------------------
(***************************************************************************)
(* A safe lane whose MPI calls may fail, any number of times.              *)
(* Window::put and Window::fetch_add return the error of MPI_Put,          *)
(* MPI_Fetch_and_op or MPI_Win_flush, and `send` and `ack` pass it on with *)
(* `?` before they record anything, whatever has already happened in the   *)
(* other rank's memory.  The caller then goes on, and may call again: the  *)
(* sequence of a failed send is taken again, by the same payload or        *)
(* another, and a failed ack is repeated.                                  *)
(*                                                                         *)
(* `errors` holds, besides the reports of the run-time checks, the errors  *)
(* these failures returned: a Put's, the first acknowledgement's and a     *)
(* later one's.                                                            *)
(***************************************************************************)
EXTENDS Lane

Reports == {"lapped", "regressed", "exceeds", "diverged"}

(* The Put or its flush fails: the words that have landed stay, and `sent` *)
(* is not advanced.                                                        *)
PutFails ==
  /\ sending
  /\ sending' = FALSE
  /\ errors' = errors \cup {"put"}
  /\ UNCHANGED <<sent, cached, image, full, unlanded, log, slots, counter, recvVars,
                 pollVars, ackVars>>

(* The others may still land, after the error: words of the same buffer,   *)
(* until the next send fills it anew, for the same slot.                   *)
LandLate(w) ==
  /\ ~sending /\ w \in unlanded
  /\ slots' = [slots EXCEPT ![Position(image.sequence)][w] = image[w]]
  /\ unlanded' = unlanded \ {w}
  /\ UNCHANGED <<sent, cached, image, sending, full, log, counter,
                 recvVars, pollVars, ackVars, errors>>

(* The acknowledgement fails, before or after the counter moved; `acked`   *)
(* is not advanced, and what was fetched is not compared.                  *)
AckFails ==
  /\ ackpc \in {"issued", "applied"}
  /\ ackpc' = "idle" /\ ackseq' = 0 /\ previous' = 0
  /\ errors' = errors \cup {IF "ack" \in errors THEN "ack again" ELSE "ack"}
  /\ UNCHANGED <<acked, sendVars, slots, counter, recvVars, pollVars>>

PutFaults == PutFails \/ \E w \in Words : LandLate(w)

FaultNext == Next \/ PutFaults \/ AckFails

FaultSpec == Init /\ [][FaultNext]_vars

-----------------------------------------------------------------------------
(* Properties *)

(* Whatever failed, the copy that poll takes for a message is the whole    *)
(* image of one send: the words of a failed Put never mix with those of    *)
(* its retry, nor with what the slot held before.                          *)
Unmixed ==
  [][seen' > seen => copy \in {Image(Expected, d) : d \in Data}]_vars

(* Failed Puts alone never make the checks of a safe lane fire: a retried  *)
(* send passes the gate its first attempt passed without reading the       *)
(* counter again, even when that attempt is already acknowledged, past     *)
(* `sent`.                                                                 *)
PutFaultsHarmless == "ack" \notin errors => errors \subseteq {"put"}

(* One failed acknowledgement, repeated, can credit the sender with slots  *)
(* that are still unread; the ack that does so returns the error.          *)
OvercreditReported ==
  "ack again" \notin errors /\ ackpc = "idle" /\ counter > seen =>
    "diverged" \in errors

(* Whatever the counter has become, a safe lane never skips a sequence,    *)
(* and never drops one it has polled, unless a check has reported the lane *)
(* broken.                                                                 *)
NoSilentLoss ==
  errors \cap Reports = {} =>
    [i \in DOMAIN Taken |-> Taken[i].sequence] = [i \in 1..seen |-> i]

(* The comment on Ring::ack calls it cumulative and idempotent: repeating  *)
(* it must not credit the sender with a slot that was not polled.          *)
AckIdempotent == counter <= seen

=============================================================================
