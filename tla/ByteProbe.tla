------------------------------ MODULE ByteProbe ------------------------------
(***************************************************************************)
(* The reading side of a lane, safe or raw, one byte at a time.  The       *)
(* windows of a Ring hold u8, so Window::read_local_volatile, and with it  *)
(* the probe of a slot's two ends, reads a word as bytes in address order. *)
(* Lane reads each word at once; here a word that a Put lands between two  *)
(* byte reads is read as a mixture of what it was and what it becomes.     *)
(*                                                                         *)
(* A word is two bytes of Base values, low byte first.  Between the ends   *)
(* lies `body`: the sequence whose length, checksum and payload it holds.  *)
(* An acknowledgement is one step: Lane has its interleavings.             *)
(***************************************************************************)
EXTENDS Integers, Sequences

CONSTANTS
  Base,   (* Values of a byte.                                             *)
  Depth,  (* Slots of the lane.                                            *)
  Limit   (* Bound: the last sequence that is sent.                        *)

ASSUME ByteAssumption ==
  /\ Base \in Nat \ {0, 1} /\ Depth \in Nat \ {0}
  /\ Limit \in 1..(Base * Base - 2)

VARIABLES
  safe,                     (* Made by Ring::safe, not by Ring::raw.       *)
  sent, sending, unlanded,  (* Outgoing; the words yet to land.            *)
  slots,                    (* The receiver's slot memory.                 *)
  counter,                  (* The cumulative acknowledgement.             *)
  seen, lost,               (* The receiver's cursor; what it skipped.     *)
  pc,                       (* "idle", "probe", "frame" or "deliver".      *)
  recovering,               (* The poll is inside `recover`.               *)
  at,                       (* The slot position being read.               *)
  read,                     (* The bytes probe has read, in order.         *)
  copy, uncopied,           (* The frame's copy of the slot.               *)
  frames,                   (* Found by recover and not yet delivered.     *)
  batch, behind,            (* What the poll collected, where it started.  *)
  due,                      (* History: `sent` when the poll started.      *)
  delivered,                (* What polls have returned.                   *)
  lapped                    (* A poll has returned Error::Lapped.          *)

sendVars == <<safe, sent, sending, unlanded, slots, counter>>
cursor   == <<seen, lost>>
pollVars ==
  <<pc, recovering, at, read, copy, uncopied, frames, batch, behind, due>>
vars == <<sendVars, cursor, pollVars, delivered, lapped>>

-----------------------------------------------------------------------------
(* Words and slots *)

Bytes     == 0..(Base - 1)
MaxU64    == Base * Base - 1
Positions == 0..(Depth - 1)

Word(low, high) == low + Base * high

Split(w) == <<w % Base, w \div Base>>

Not(w) == MaxU64 - w

Position(s) == (s - 1) % Depth

(* The two ends as bytes, the rest as one word. *)
Slot(s) ==
  [head |-> Split(s), body |-> s, guard |-> IF s = 0 THEN <<0, 0>> ELSE Split(Not(s))]

Parts == {"head", "body", "guard"}

Message(s, d) == <<s, d>>

Init ==
  /\ safe \in BOOLEAN
  /\ sent = 0 /\ sending = FALSE /\ unlanded = {}
  /\ slots = [p \in Positions |-> Slot(0)]
  /\ counter = 0 /\ seen = 0 /\ lost = 0
  /\ pc = "idle" /\ recovering = FALSE /\ at = 0 /\ read = <<>>
  /\ copy = Slot(0) /\ uncopied = {} /\ frames = {}
  /\ batch = <<>> /\ behind = 0 /\ due = 0
  /\ delivered = <<>> /\ lapped = FALSE

-----------------------------------------------------------------------------
(* The sender, and the acknowledgement *)

Gated == safe /\ sent + 1 - counter > Depth

Send ==
  /\ ~sending /\ ~Gated /\ sent < Limit
  /\ sending' = TRUE
  /\ unlanded' = unlanded \cup {<<sent + 1, w>> : w \in Parts}
  /\ UNCHANGED <<safe, sent, slots, counter, cursor, pollVars, delivered, lapped>>

(* A word of a Put lands whole; the words land in any order. *)
Land(s, w) ==
  /\ <<s, w>> \in unlanded
  /\ slots' = [slots EXCEPT ![Position(s)][w] = Slot(s)[w]]
  /\ unlanded' = unlanded \ {<<s, w>>}
  /\ UNCHANGED <<safe, sent, sending, counter, cursor, pollVars, delivered, lapped>>

(* A flush issued before its Put waits for the earlier ones only. *)
FlushedFirst == unlanded \subseteq {sent + 1} \X Parts

Flushed == unlanded = {}

SendReturn ==
  /\ sending /\ Flushed
  /\ sent' = sent + 1 /\ sending' = FALSE
  /\ UNCHANGED <<safe, unlanded, slots, counter, cursor, pollVars, delivered, lapped>>

Ack(s) ==
  /\ safe /\ pc = "idle" /\ s > counter /\ s <= seen
  /\ counter' = s
  /\ UNCHANGED <<safe, sent, sending, unlanded, slots, cursor, pollVars, delivered,
                 lapped>>

-----------------------------------------------------------------------------
(* Ring::poll *)

Expected == seen + 1

Here == slots[at]

(* The poll ends, and hands out the given messages. *)
Return(messages) ==
  /\ delivered' = delivered \o messages
  /\ pc' = "idle" /\ recovering' = FALSE /\ at' = 0 /\ read' = <<>>
  /\ copy' = Slot(0) /\ uncopied' = {} /\ frames' = {}
  /\ batch' = <<>> /\ behind' = 0 /\ due' = 0

(* The poll goes on to probe position p. *)
ProbeAt(p) ==
  /\ pc' = "probe" /\ at' = p /\ read' = <<>>
  /\ copy' = Slot(0) /\ uncopied' = {}

PollStart ==
  /\ pc = "idle"
  /\ ProbeAt(Position(Expected))
  /\ behind' = seen /\ due' = sent
  /\ UNCHANGED <<sendVars, cursor, recovering, frames, batch, delivered, lapped>>

(* The next byte of the head, then of the guard. *)
ProbeByte ==
  /\ pc = "probe" /\ Len(read) < 4
  /\ LET n == Len(read)
     IN  read' = Append(read, IF n < 2 THEN Here.head[n + 1] ELSE Here.guard[n - 1])
  /\ UNCHANGED <<sendVars, cursor, pc, recovering, at, copy, uncopied, frames, batch,
                 behind, due, delivered, lapped>>

Found == Word(read[1], read[2])

Probed == Found # 0 /\ Word(read[3], read[4]) = Not(Found)

Read == pc = "probe" /\ Len(read) = 4

ProbeMiss ==
  /\ Read /\ ~recovering /\ (~Probed \/ Found < Expected)
  /\ Return(batch)
  /\ UNCHANGED <<sendVars, cursor, lapped>>

(* The sequence expected or, in recover, any that is not seen. *)
ProbeHit ==
  /\ Read /\ Probed
  /\ IF recovering THEN Found > seen ELSE Found = Expected
  /\ pc' = "frame" /\ uncopied' = Parts
  /\ UNCHANGED <<sendVars, cursor, recovering, at, read, copy, frames, batch, behind,
                 due, delivered, lapped>>

(* Error::Lapped: the messages collected so far are dropped. *)
ProbeLapped ==
  /\ Read /\ ~recovering /\ Probed /\ Found > Expected /\ safe
  /\ lapped' = TRUE
  /\ Return(<<>>)
  /\ UNCHANGED <<sendVars, cursor>>

(* A raw lane scans every slot. *)
ProbeRecover ==
  /\ Read /\ ~recovering /\ Probed /\ Found > Expected /\ ~safe
  /\ recovering' = TRUE
  /\ ProbeAt(0)
  /\ UNCHANGED <<sendVars, cursor, frames, batch, behind, due, delivered, lapped>>

(* frame copies the slot.  It copies words whole here, in any order: the   *)
(* checksum would refuse a mixture of two sequences, being of neither.     *)
CopyWord(w) ==
  /\ pc = "frame" /\ w \in uncopied
  /\ copy' = [copy EXCEPT ![w] = Here[w]]
  /\ uncopied' = uncopied \ {w}
  /\ UNCHANGED <<sendVars, cursor, pc, recovering, at, read, frames, batch, behind,
                 due, delivered, lapped>>

Framed == Word(copy.head[1], copy.head[2])

Guarded == Framed # 0 /\ Word(copy.guard[1], copy.guard[2]) = Not(Framed)

(* The checksum covers the sequence and the body. *)
Whole == Guarded /\ copy.body = Framed

Copied == pc = "frame" /\ uncopied = {}

FrameTake ==
  /\ Copied /\ ~recovering /\ Whole /\ Framed = Expected
  /\ seen' = Expected
  /\ LET messages == Append(batch, Message(Framed, copy.body))
     IN  IF Expected - behind < Depth
         THEN /\ ProbeAt(Position(Expected + 1))
              /\ batch' = messages
              /\ UNCHANGED <<recovering, frames, behind, due, delivered>>
         ELSE Return(messages)
  /\ UNCHANGED <<sendVars, lost, lapped>>

FrameMiss ==
  /\ Copied /\ ~recovering /\ ~(Whole /\ Framed = Expected)
  /\ Return(batch)
  /\ UNCHANGED <<sendVars, cursor, lapped>>

(* recover goes on to the next position, or to deliver what it has found. *)
ScanOn(found) ==
  /\ frames' = found
  /\ IF at + 1 < Depth
     THEN ProbeAt(at + 1)
     ELSE /\ pc' = "deliver" /\ at' = 0 /\ read' = <<>>
          /\ copy' = Slot(0) /\ uncopied' = {}
  /\ UNCHANGED <<sendVars, cursor, recovering, batch, behind, due, delivered, lapped>>

ScanSkip ==
  /\ Read /\ recovering /\ ~(Probed /\ Found > seen)
  /\ ScanOn(frames)

ScanFrame ==
  /\ Copied /\ recovering
  /\ ScanOn(IF Whole /\ Framed > seen
            THEN frames \cup {Message(Framed, copy.body)}
            ELSE frames)

(* The survivors are delivered oldest first, the gaps counted as lost. *)
Oldest(m) == m \in frames /\ \A n \in frames : m[1] <= n[1]

Gap(m) == m[1] - Expected

Survivor ==
  /\ pc = "deliver"
  /\ \E m \in frames :
       /\ Oldest(m)
       /\ lost' = lost + Gap(m)
       /\ seen' = m[1]
       /\ batch' = Append(batch, m)
       /\ frames' = frames \ {m}
  /\ UNCHANGED <<sendVars, pc, recovering, at, read, copy, uncopied, behind, due,
                 delivered, lapped>>

Recovered ==
  /\ pc = "deliver" /\ frames = {}
  /\ Return(batch)
  /\ UNCHANGED <<sendVars, cursor, lapped>>

Next ==
  \/ Send
  \/ \E s \in 1..Limit, w \in Parts : Land(s, w)
  \/ SendReturn
  \/ \E s \in 1..Limit : Ack(s)
  \/ PollStart
  \/ ProbeByte
  \/ ProbeMiss
  \/ ProbeHit
  \/ ProbeLapped
  \/ ProbeRecover
  \/ \E w \in Parts : CopyWord(w)
  \/ FrameTake
  \/ FrameMiss
  \/ ScanSkip
  \/ ScanFrame
  \/ Survivor
  \/ Recovered

Spec == Init /\ [][Next]_vars

-----------------------------------------------------------------------------
(* Properties *)

Taken == delivered \o batch

(* The highest sequence whose Put has been issued. *)
Issued == IF sending THEN sent + 1 ELSE sent

(* A probe torn inside a word may end a poll early, make it fail or make   *)
(* it scan a lane that was not lapped, but it never makes one hand out a   *)
(* wrong, repeated or misplaced message; and while no poll has failed the  *)
(* messages and the losses account for all sequences up to the cursor,     *)
(* without any loss on a safe lane.                                        *)
TornProbeHarmless ==
  /\ \A i \in DOMAIN Taken : Taken[i][2] = Taken[i][1] /\ Taken[i][1] <= seen
  /\ \A i \in 2..Len(Taken) : Taken[i - 1][1] < Taken[i][1]
  /\ ~lapped => Len(Taken) + lost = seen
  /\ safe => lost = 0

(* A poll counts a loss only when the sender overran it, putting more than *)
(* Depth messages past the cursor it started from, or among messages whose *)
(* sends had not returned when it started: what was in its slot by then is *)
(* not lost to a torn probe or to a scan.                                  *)
LossIsLapOrLate == [][lost' # lost => Issued > behind + Depth \/ seen >= due]_vars

(* The comment in poll, and design.md, say that a safe lane cannot lap:    *)
(* a poll that finds a later sequence means the counter or the window has  *)
(* been corrupted.  Nothing is corrupted here.                             *)
NeverLapped == ~lapped

=============================================================================
