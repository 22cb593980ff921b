------------------------------ MODULE FifoLane ------------------------------
(***************************************************************************)
(* What a lane of a Ring promises, without slots, words or windows.  The   *)
(* receiver takes what the sender put in order of sequence.  A lossless    *)
(* lane (Ring::safe) is a bounded queue: it holds at most Depth unreleased *)
(* messages, refuses more, and never skips.  A lossy lane (Ring::raw)      *)
(* never refuses, may skip, and counts what it skips.                      *)
(***************************************************************************)
EXTENDS Integers, Sequences

CONSTANTS
  Depth,     (* Unreleased messages a lossless lane holds.                 *)
  Limit,     (* Messages a lane can carry in its lifetime.                 *)
  Data,      (* Payloads.                                                  *)
  Lossless,  (* TRUE for a safe lane, FALSE for a raw one.                 *)
  CountMod   (* The count of refusals wraps here.                          *)

VARIABLES
  accepted,  (* Every payload the sender has put; the index is its         *)
             (* sequence.                                                  *)
  cursor,    (* The highest sequence taken.                                *)
  out,       (* The messages taken, in order.                              *)
  lost,      (* Sequences skipped.                                         *)
  released,  (* Sequences whose room has been given back.                  *)
  refused    (* Refusals, modulo CountMod.                                 *)

fifoVars == <<accepted, cursor, out, lost, released, refused>>

Init ==
  /\ accepted = <<>> /\ cursor = 0 /\ out = <<>> /\ lost = 0
  /\ released = 0 /\ refused = 0

Room == Len(accepted) - released < Depth

Accept(d) ==
  /\ Len(accepted) < Limit
  /\ Lossless => Room
  /\ accepted' = Append(accepted, d)
  /\ UNCHANGED <<cursor, out, lost, released, refused>>

(* Only a lane with no room left refuses. *)
Refuse ==
  /\ Lossless /\ ~Room
  /\ refused' = (refused + 1) % CountMod
  /\ UNCHANGED <<accepted, cursor, out, lost, released>>

Take(s) ==
  /\ s > cursor
  /\ Lossless => s = cursor + 1
  /\ cursor' = s
  /\ out' = Append(out, [sequence |-> s, data |-> accepted[s]])
  /\ lost' = lost + (s - cursor - 1)
  /\ UNCHANGED <<accepted, released, refused>>

Release(s) ==
  /\ Lossless
  /\ released < s /\ s <= cursor
  /\ released' = s
  /\ UNCHANGED <<accepted, cursor, out, lost, refused>>

Next ==
  \/ \E d \in Data : Accept(d)
  \/ Refuse
  \/ \E s \in 1..Len(accepted) : Take(s) \/ Release(s)

Spec == Init /\ [][Next]_fifoVars

=============================================================================
