------------------------------- MODULE Noise --------------------------------
(***************************************************************************)
(* The background noise of the soak and comparison programs: a thread on   *)
(* each rank of a pair, playing ping-pong by point-to-point messages until *)
(* the lower rank is told to stop.  A standard-mode send may return at     *)
(* once or only when the message has been received: MPI is free to choose, *)
(* and both choices are considered.                                        *)
(***************************************************************************)
EXTENDS Integers, Sequences

CONSTANTS
  Pairs,     (* <<lower, upper>> pairs of ranks that make noise.           *)
  Eagers     (* The choices of MPI considered: TRUE is to return at once.  *)

ASSUME NoiseAssumption ==
  /\ \A p \in Pairs : p[1] < p[2]
  /\ \A p, q \in Pairs : {p[1], p[2]} \cap {q[1], q[2]} # {} => p = q
  /\ Eagers \subseteq BOOLEAN

VARIABLES
  eager,     (* What MPI does with standard-mode sends.                    *)
  wire,      (* wire[r]: what r has sent its partner and is not received.  *)
  noise,     (* noise[r]: what the noise thread of r does next.            *)
  stop       (* stop[r]: the flag the main thread of r raises.             *)

noiseVars == <<eager, wire, noise, stop>>

Noisy == {p[1] : p \in Pairs} \cup {p[2] : p \in Pairs}

(* Ranks without a partner return at once. *)
NoiseInit ==
  /\ eager \in Eagers
  /\ wire = [r \in Noisy |-> <<>>]
  /\ noise = [r \in Noisy |-> IF \E p \in Pairs : p[1] = r THEN "loop" ELSE "await"]
  /\ stop = [r \in Noisy |-> FALSE]

Partner(r) == CHOOSE q \in Noisy : <<r, q>> \in Pairs \/ <<q, r>> \in Pairs

Leads(r) == <<r, Partner(r)>> \in Pairs

NoiseRaise(r) == stop' = [stop EXCEPT ![r] = TRUE]

(* A standard-mode send returns. *)
Completes(channel) == eager \/ channel = <<>>

(* The lower rank sends payload, or its last message when told to stop. *)
NoiseServe(r) ==
  /\ noise[r] = "loop"
  /\ wire' = [wire EXCEPT ![r] = Append(@, IF stop[r] THEN "stop" ELSE "noise")]
  /\ noise' = [noise EXCEPT ![r] = IF stop[r] THEN "quitting" ELSE "sending"]
  /\ UNCHANGED <<eager, stop>>

NoiseSent(r) ==
  /\ noise[r] \in {"sending", "quitting"} /\ Completes(wire[r])
  /\ noise' = [noise EXCEPT ![r] = IF @ = "sending" THEN "await" ELSE "left"]
  /\ UNCHANGED <<eager, wire, stop>>

(* The lower rank receives the answer and loops; the upper one answers     *)
(* payload, and leaves when it receives the last message.                  *)
NoiseReceive(r) ==
  LET q == Partner(r)
      m == Head(wire[q])
  IN  /\ noise[r] = "await" /\ wire[q] # <<>>
      /\ IF Leads(r)
         THEN /\ noise' = [noise EXCEPT ![r] = "loop"]
              /\ wire' = [wire EXCEPT ![q] = Tail(@)]
         ELSE IF m = "stop"
         THEN /\ noise' = [noise EXCEPT ![r] = "left"]
              /\ wire' = [wire EXCEPT ![q] = Tail(@)]
         ELSE /\ noise' = [noise EXCEPT ![r] = "sending"]
              /\ wire' = [wire EXCEPT ![q] = Tail(@), ![r] = Append(@, "noise")]
      /\ UNCHANGED <<eager, stop>>

NoiseThread(r) == NoiseServe(r) \/ NoiseSent(r) \/ NoiseReceive(r)

(* The noise thread of r has returned, or never had a partner. *)
Quiet(r) == r \in Noisy => noise[r] = "left"

=============================================================================
