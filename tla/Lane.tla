-------------------------------- MODULE Lane --------------------------------
(***************************************************************************)
(* One directed lane of a Ring (src/src/ring.rs): a sender that Puts slot  *)
(* images into the receiver's window, a receiver that polls its own window *)
(* memory, and, in a safe ring, a cumulative acknowledgement counter that  *)
(* the receiver advances in the sender's window.                           *)
(*                                                                         *)
(* The sender's part runs under the mutex of its `Outgoing`, the poll      *)
(* under the mutex of `seen`, the acknowledgement under the mutex of       *)
(* `acked`; the three interleave freely, and so do the words of an image   *)
(* that a Put is landing with the words a poll is reading: MPI orders      *)
(* neither, and the receiver takes no part in the transfer.                *)
(***************************************************************************)
EXTENDS Integers, Sequences

CONSTANTS
  Depth,     (* Slots of the lane.                                         *)
  MaxU64,    (* The greatest u64, scaled down: sequence numbers run out.   *)
  Data,      (* Payloads that fit the lane's capacity; send refuses longer *)
             (* ones before it touches any state.                          *)
  Blank,     (* The payload bytes of a slot nothing was ever put into.     *)
  Length,    (* Length[d] is the byte length of payload d.                 *)
  Safe,      (* TRUE for Ring::safe, FALSE for Ring::raw.                  *)
  CountMod   (* The statistics `full` and `corrupt` wrap at CountMod.      *)

ASSUME LaneAssumption ==
  /\ Depth \in Nat \ {0}
  /\ MaxU64 \in Nat \ {0}
  /\ Blank \notin Data
  /\ Length \in [Data -> Nat]
  /\ Safe \in BOOLEAN
  /\ CountMod \in Nat \ {0}

VARIABLES
  (* Outgoing *)
  sent,       (* Highest sequence put on the wire.                         *)
  cached,     (* Outgoing.acked: the counter as last read.                 *)
  image,      (* Outgoing.image: the slot image being put.                 *)
  sending,    (* A send holds the mutex with its Put not yet flushed.      *)
  full,       (* Sends refused with Error::Full, modulo CountMod.          *)
  (* The Put in flight and the two windows *)
  unlanded,   (* Words of `image` that have not reached the slot yet.      *)
  slots,      (* The receiver's slot memory.                               *)
  counter,    (* The acknowledgement counter in the sender's window.       *)
  (* The receiver's state *)
  seen,       (* Cursor: the highest sequence polled.                      *)
  lost,       (* Sequences skipped by a raw lane.                          *)
  corrupt,    (* Slot reads that failed validation, modulo CountMod.       *)
  max_lag,    (* Greatest advance of `seen` in one poll.                   *)
  (* Locals of the poll in progress *)
  pc,         (* "idle", or what the poll does next.                       *)
  recovering, (* The poll is inside `recover`.                             *)
  at,         (* The slot position being read.                             *)
  head,       (* The sequence word probe has read.                         *)
  copy,       (* The image frame is copying out of the slot.               *)
  uncopied,   (* Words of the slot that are not in `copy` yet.             *)
  frames,     (* What recover has found and poll not yet delivered.        *)
  batch,      (* Messages this poll has collected so far.                  *)
  behind,     (* `seen` when the poll started.                             *)
  due,        (* History: `sent` when the poll started.                    *)
  (* The acknowledgement *)
  acked,      (* Ring.acked: the last sequence acknowledged.               *)
  ackpc,      (* "idle", "issued" or "applied".                            *)
  ackseq,     (* The sequence the ack in progress acknowledges.            *)
  previous,   (* What fetch_add returned to it.                            *)
  (* History *)
  log,        (* log[s]: the payload last put as sequence s.               *)
  delivered,  (* Messages that polls have returned, in order.              *)
  errors      (* Errors by which the run-time checks reported a broken     *)
              (* lane.                                                     *)

sendVars == <<sent, cached, image, sending, full, unlanded, log>>
recvVars == <<seen, lost, corrupt, max_lag, delivered>>
pollVars ==
  <<pc, recovering, at, head, copy, uncopied, frames, batch, behind, due>>
ackVars  == <<acked, ackpc, ackseq, previous>>
vars == <<sendVars, slots, counter, recvVars, pollVars, ackVars, errors>>

-----------------------------------------------------------------------------
(* Slots and words *)

U64       == 0..MaxU64
SeqNums   == 1..MaxU64
Positions == 0..(Depth - 1)

(* The words of a slot, in address order: each lands, and is read, alone.  *)
Words == {"sequence", "length", "checksum", "payload", "guard"}

(* The position a sequence occupies: dropping the modulus runs off the end *)
(* of the lane.                                                            *)
PositionUnwrapped(s) == s - 1

Position(s) == (s - 1) % Depth

Not(w) == MaxU64 - w

(* CRC32, idealised: different inputs have different checksums, and the    *)
(* zero word of a fresh slot is the checksum of no message.                *)
Checksum(s, len, data) == <<s, len, data>>

Image(s, d) ==
  [sequence |-> s,
   length   |-> Length[d],
   checksum |-> Checksum(s, Length[d], d),
   payload  |-> d,
   guard    |-> Not(s)]

Zeroed ==
  [sequence |-> 0,
   length   |-> 0,
   checksum |-> Checksum(0, 0, Blank),
   payload  |-> Blank,
   guard    |-> 0]

Message(s, d) == [sequence |-> s, data |-> d]

Messages == {Message(s, d) : s \in SeqNums, d \in Data}

Bump(count) == (count + 1) % CountMod

Init ==
  /\ sent = 0 /\ cached = 0 /\ full = 0
  /\ image = Zeroed /\ sending = FALSE /\ unlanded = {}
  /\ slots = [p \in Positions |-> Zeroed]
  /\ counter = 0
  /\ seen = 0 /\ lost = 0 /\ corrupt = 0 /\ max_lag = 0
  /\ pc = "idle" /\ recovering = FALSE /\ at = 0 /\ head = 0
  /\ copy = Zeroed /\ uncopied = {}
  /\ frames = {} /\ batch = <<>> /\ behind = 0 /\ due = 0
  /\ acked = 0 /\ ackpc = "idle" /\ ackseq = 0 /\ previous = 0
  /\ log = [s \in SeqNums |-> Blank]
  /\ delivered = <<>>
  /\ errors = {}

-----------------------------------------------------------------------------
(* Ring::send *)

NextSequence == sent + 1               \* the sequence a send would take

(* The overwrite gate, evaluated against acknowledgement a. *)
GatedLate(a) == Safe /\ NextSequence - a > Depth + 1

Gated(a) == Safe /\ NextSequence - a > Depth

(* What `acknowledged` rejects: a counter that went backwards or ran past  *)
(* what this rank has sent.                                                *)
Incredible(value) == value < cached \/ value > sent

(* The send passes the gate, at once or after refreshing the cache, builds *)
(* the image and issues the Put.                                           *)
SendPut(d) ==
  /\ ~sending /\ sent < MaxU64
  /\ \/ ~Gated(cached) /\ UNCHANGED cached
     \/ /\ Gated(cached) /\ ~Incredible(counter) /\ ~Gated(counter)
        /\ cached' = counter
  /\ image' = Image(NextSequence, d)
  /\ unlanded' = Words
  /\ sending' = TRUE
  /\ log' = [log EXCEPT ![NextSequence] = d]
  /\ UNCHANGED <<sent, full, slots, counter, recvVars, pollVars, ackVars, errors>>

SendFullStale ==
  /\ ~sending /\ sent < MaxU64
  /\ Gated(cached)
  /\ full' = Bump(full)
  /\ UNCHANGED <<sent, cached, image, sending, unlanded, log, slots, counter,
                 recvVars, pollVars, ackVars, errors>>

(* No headroom even after refreshing: Error::Full, nothing is sent. *)
SendFull ==
  /\ ~sending /\ sent < MaxU64
  /\ Gated(cached) /\ ~Incredible(counter) /\ Gated(counter)
  /\ cached' = counter
  /\ full' = Bump(full)
  /\ UNCHANGED <<sent, image, sending, unlanded, log, slots, counter,
                 recvVars, pollVars, ackVars, errors>>

SendDisbelieveEager ==
  /\ ~sending /\ sent < MaxU64
  /\ Safe /\ Incredible(counter)
  /\ errors' = errors \cup {"exceeds"}
  /\ UNCHANGED <<sendVars, slots, counter, recvVars, pollVars, ackVars>>

(* The refresh reads a counter it cannot believe. *)
SendDisbelieve ==
  /\ ~sending /\ sent < MaxU64
  /\ Gated(cached) /\ Incredible(counter)
  /\ errors' = errors \cup {IF counter < cached THEN "regressed" ELSE "exceeds"}
  /\ UNCHANGED <<sendVars, slots, counter, recvVars, pollVars, ackVars>>

(* MPI_Put: a word of the image reaches the slot, in no particular order. *)
Land(w) ==
  /\ sending /\ w \in unlanded
  /\ slots' = [slots EXCEPT ![Position(image.sequence)][w] = image[w]]
  /\ unlanded' = unlanded \ {w}
  /\ UNCHANGED <<sent, cached, image, sending, full, log, counter,
                 recvVars, pollVars, ackVars, errors>>

(* MPI_Win_flush returns once the Put is complete at the target; a local   *)
(* flush would return before that.                                         *)
FlushedLocally == TRUE

Flushed == unlanded = {}

SendReturn ==
  /\ sending /\ Flushed
  /\ sent' = image.sequence
  /\ sending' = FALSE
  /\ UNCHANGED <<cached, image, full, unlanded, log, slots, counter,
                 recvVars, pollVars, ackVars, errors>>

-----------------------------------------------------------------------------
(* Ring::poll.  In the main loop `read` is seen - behind.                  *)

Expected == seen + 1

PollStart ==
  /\ pc = "idle" /\ seen < MaxU64
  /\ pc' = "head" /\ at' = Position(Expected) /\ behind' = seen
  /\ due' = sent
  /\ UNCHANGED <<recovering, head, copy, uncopied, frames, batch,
                 sendVars, slots, counter, recvVars, ackVars, errors>>

(* checked_add fails at the end of the sequence space: nothing to expect. *)
PollExhausted ==
  /\ pc = "idle" /\ seen = MaxU64
  /\ UNCHANGED vars

(* The poll gives up its locals. *)
Leave ==
  /\ pc' = "idle" /\ recovering' = FALSE /\ at' = 0 /\ head' = 0
  /\ copy' = Zeroed /\ uncopied' = {}
  /\ frames' = {} /\ batch' = <<>> /\ behind' = 0 /\ due' = 0

(* The poll returns the messages it has, its cursor being at `cursor`. *)
Return(messages, cursor) ==
  /\ delivered' = delivered \o messages
  /\ max_lag' = IF cursor - behind > max_lag THEN cursor - behind ELSE max_lag
  /\ Leave

(* The poll goes on to probe position p. *)
ProbeAt(p) ==
  /\ pc' = "head" /\ at' = p /\ head' = 0
  /\ copy' = Zeroed /\ uncopied' = {}

(* probe reads the two ends of the slot, one after the other, each at once *)
(* (ByteProbe reads them byte by byte).                                    *)
ReadHead ==
  /\ pc = "head"
  /\ head' = slots[at].sequence
  /\ pc' = "tail"
  /\ UNCHANGED <<recovering, at, copy, uncopied, frames, batch, behind, due,
                 sendVars, slots, counter, recvVars, ackVars, errors>>

GuardRead == slots[at].guard

(* What probe returns: a sequence whose complement guards the other end. *)
Probed == head # 0 /\ GuardRead = Not(head)

CountProbe == corrupt' = IF head # 0 /\ ~Probed THEN Bump(corrupt) ELSE corrupt

(* Nothing new in the expected slot: this poll is over. *)
ProbeMiss ==
  /\ pc = "tail" /\ ~recovering
  /\ ~Probed \/ head < Expected
  /\ CountProbe
  /\ Return(batch, seen)
  /\ UNCHANGED <<seen, lost, sendVars, slots, counter, ackVars, errors>>

(* The slot holds the sequence wanted (or, in recover, any unseen one):    *)
(* frame copies it out.                                                    *)
ProbeHit ==
  /\ pc = "tail" /\ Probed
  /\ IF recovering THEN head > seen ELSE head = Expected
  /\ pc' = "frame" /\ uncopied' = Words
  /\ UNCHANGED <<recovering, at, head, copy, frames, batch, behind, due,
                 sendVars, slots, counter, recvVars, ackVars, errors>>

(* The slot holds a later sequence than the one expected. *)
Ahead == head > Expected

(* Only a raw lane recovers. *)
FallThrough == TRUE

MayRecover == ~Safe

(* A safe lane found overwritten: Error::Lapped, and the messages this     *)
(* poll had collected go with it.                                          *)
ProbeLapped ==
  /\ pc = "tail" /\ ~recovering /\ Probed /\ Ahead /\ Safe
  /\ errors' = errors \cup {"lapped"}
  /\ Leave
  /\ UNCHANGED <<sendVars, slots, counter, recvVars, ackVars>>

(* A raw lane found overwritten: recover scans every slot. *)
ProbeRecover ==
  /\ pc = "tail" /\ ~recovering /\ Probed /\ Ahead /\ MayRecover
  /\ recovering' = TRUE
  /\ ProbeAt(0)
  /\ UNCHANGED <<frames, batch, behind, due, sendVars, slots, counter,
                 recvVars, ackVars, errors>>

(* frame copies the slot word by word, in any order. *)
CopyWord(w) ==
  /\ pc = "frame" /\ w \in uncopied
  /\ copy' = [copy EXCEPT ![w] = slots[at][w]]
  /\ uncopied' = uncopied \ {w}
  /\ UNCHANGED <<pc, recovering, at, head, frames, batch, behind, due,
                 sendVars, slots, counter, recvVars, ackVars, errors>>

(* What frame accepts. *)
Guarded ==
  /\ copy.sequence # 0
  /\ copy.guard = Not(copy.sequence)

Whole ==
  /\ Guarded
  /\ copy.checksum = Checksum(copy.sequence, copy.length, copy.payload)

Copied == pc = "frame" /\ uncopied = {}

CountFrame == corrupt' = IF copy.sequence # 0 /\ ~Whole THEN Bump(corrupt) ELSE corrupt

(* After taking sequence s: the loop goes on, `read` being below `depth`   *)
(* and there being another sequence to expect.                             *)
ShortRead(s) == s - behind < Depth - 1 /\ s < MaxU64

ReadOn(s) == s - behind < Depth /\ s < MaxU64

(* The expected message is taken; the loop goes on for at most Depth of    *)
(* them.                                                                   *)
FrameTake ==
  /\ Copied /\ ~recovering
  /\ Whole /\ copy.sequence = Expected
  /\ seen' = Expected
  /\ LET messages == Append(batch, Message(Expected, copy.payload))
     IN  IF ReadOn(Expected)
         THEN /\ ProbeAt(Position(Expected + 1))
              /\ batch' = messages
              /\ UNCHANGED <<recovering, frames, behind, due, delivered, max_lag>>
         ELSE Return(messages, Expected)
  /\ UNCHANGED <<lost, corrupt, sendVars, slots, counter, ackVars, errors>>

(* The copy is torn or of another sequence: it is retried by a later poll. *)
FrameMiss ==
  /\ Copied /\ ~recovering
  /\ ~Whole \/ copy.sequence # Expected
  /\ CountFrame
  /\ Return(batch, seen)
  /\ UNCHANGED <<seen, lost, sendVars, slots, counter, ackVars, errors>>

-----------------------------------------------------------------------------
(* recover scans every position; what it finds is delivered in order of    *)
(* sequence, the gaps counted as lost.                                     *)

(* Go on to the next position; after the last one, deliver what was found. *)
ScanOn(found) ==
  /\ frames' = found
  /\ IF at + 1 < Depth
     THEN ProbeAt(at + 1)
     ELSE /\ pc' = "deliver" /\ at' = 0 /\ head' = 0
          /\ copy' = Zeroed /\ uncopied' = {}
  /\ UNCHANGED <<recovering, batch, behind, due, seen, lost, max_lag, delivered>>

ScanSkip ==
  /\ pc = "tail" /\ recovering
  /\ ~(Probed /\ head > seen)
  /\ CountProbe
  /\ ScanOn(frames)
  /\ UNCHANGED <<sendVars, slots, counter, ackVars, errors>>

ScanFrame ==
  /\ Copied /\ recovering
  /\ CountFrame
  /\ ScanOn(IF Whole /\ copy.sequence > seen
            THEN frames \cup {Message(copy.sequence, copy.payload)}
            ELSE frames)
  /\ UNCHANGED <<sendVars, slots, counter, ackVars, errors>>

Newest(m) == m \in frames /\ \A n \in frames : m.sequence >= n.sequence

(* The oldest frame left.  A position is scanned once and two positions    *)
(* never hold the same sequence: dedup_by_key finds nothing to drop.       *)
Oldest(m) == m \in frames /\ \A n \in frames : m.sequence <= n.sequence

(* What skipping from `seen` to sequence s adds to `lost`. *)
GapFromSeen(s) == s - seen

Gap(s) == s - Expected

Survivor ==
  /\ pc = "deliver"
  /\ \E m \in frames :
       /\ Oldest(m)
       /\ lost' = lost + Gap(m.sequence)
       /\ seen' = m.sequence
       /\ batch' = Append(batch, m)
       /\ frames' = frames \ {m}
  /\ UNCHANGED <<pc, recovering, at, head, copy, uncopied, behind, due,
                 corrupt, max_lag, delivered, sendVars, slots, counter,
                 ackVars, errors>>

Recovered ==
  /\ pc = "deliver" /\ frames = {}
  /\ Return(batch, seen)
  /\ UNCHANGED <<seen, lost, corrupt, sendVars, slots, counter, ackVars, errors>>

-----------------------------------------------------------------------------
(* Ring::ack: a no-op on a raw ring, and for a sequence already            *)
(* acknowledged.                                                           *)

(* What ack lets through: not acknowledged yet, and polled. *)
Unacked(s) == s > acked

Ackable(s) == s > acked /\ s <= seen

(* `seen` is read under its mutex, so no poll is in progress; it is        *)
(* released before the atomic operation is issued.                         *)
AckIssue(s) ==
  /\ Safe /\ ackpc = "idle" /\ pc = "idle"
  /\ Ackable(s)
  /\ ackpc' = "issued" /\ ackseq' = s
  /\ UNCHANGED <<acked, previous, sendVars, slots, counter, recvVars, pollVars, errors>>

(* What ack adds to the cumulative counter. *)
WholeSequence == ackseq

Delta == ackseq - acked

(* MPI_Fetch_and_op takes effect in the sender's window. *)
AckApply ==
  /\ ackpc = "issued"
  /\ previous' = counter
  /\ counter' = (counter + Delta) % (MaxU64 + 1)
  /\ ackpc' = "applied"
  /\ UNCHANGED <<acked, ackseq, sendVars, slots, recvVars, pollVars, errors>>

(* The value fetched is the one tracked here. *)
NotRegressed == previous >= acked

Undiverged == previous = acked

(* The flush returns, and the acknowledgement is recorded. *)
AckReturn ==
  /\ ackpc = "applied"
  /\ IF Undiverged
     THEN acked' = ackseq /\ UNCHANGED errors
     ELSE errors' = errors \cup {"diverged"} /\ UNCHANGED acked
  /\ ackpc' = "idle" /\ ackseq' = 0 /\ previous' = 0
  /\ UNCHANGED <<sendVars, slots, counter, recvVars, pollVars>>

-----------------------------------------------------------------------------
Send ==
  \/ \E d \in Data : SendPut(d)
  \/ SendFull
  \/ SendDisbelieve
  \/ \E w \in Words : Land(w)
  \/ SendReturn

Poll ==
  \/ PollStart
  \/ PollExhausted
  \/ ReadHead
  \/ ProbeMiss
  \/ ProbeHit
  \/ ProbeLapped
  \/ ProbeRecover
  \/ \E w \in Words : CopyWord(w)
  \/ FrameTake
  \/ FrameMiss
  \/ ScanSkip
  \/ ScanFrame
  \/ Survivor
  \/ Recovered

Ack ==
  \/ \E s \in SeqNums : AckIssue(s)
  \/ AckApply
  \/ AckReturn

Next == Send \/ Poll \/ Ack

Spec == Init /\ [][Next]_vars

-----------------------------------------------------------------------------
(* Properties *)

(* The highest sequence whose Put has been issued. *)
Issued == IF sending THEN image.sequence ELSE sent

(* Everything polls have taken out of the lane, in order. *)
Taken == delivered \o batch

Images == {Zeroed} \cup {Image(s, d) : s \in SeqNums, d \in Data}

(* Slot memory, or a copy of it: each word may be of another image. *)
Slot ==
  [sequence : U64,
   length   : {i.length : i \in Images},
   checksum : {i.checksum : i \in Images},
   payload  : Data \cup {Blank},
   guard    : U64]

SendTypeOK ==
  /\ sent \in U64 /\ cached \in U64 /\ full \in 0..(CountMod - 1)
  /\ image \in Images /\ sending \in BOOLEAN /\ unlanded \subseteq Words
  /\ log \in [SeqNums -> Data \cup {Blank}]

RecvTypeOK ==
  /\ seen \in U64 /\ lost \in U64 /\ max_lag \in U64
  /\ corrupt \in 0..(CountMod - 1)
  /\ delivered \in Seq(Messages)

PollTypeOK ==
  /\ pc \in {"idle", "head", "tail", "frame", "deliver"}
  /\ recovering \in BOOLEAN
  /\ at \in Positions /\ head \in U64
  /\ copy \in Slot /\ uncopied \subseteq Words
  /\ frames \subseteq Messages /\ batch \in Seq(Messages)
  /\ behind \in U64 /\ due \in U64

AckTypeOK ==
  /\ acked \in U64 /\ ackseq \in U64 /\ previous \in U64
  /\ ackpc \in {"idle", "issued", "applied"}

(* Every variable stays in its range: statistics and cursors do not leave  *)
(* the u64s, positions not the lane, and a slot, and a copy of one, holds  *)
(* words of images.                                                        *)
TypeOK ==
  /\ SendTypeOK
  /\ RecvTypeOK
  /\ PollTypeOK
  /\ AckTypeOK
  /\ slots \in [Positions -> Slot]
  /\ counter \in U64
  /\ errors \subseteq {"lapped", "regressed", "exceeds", "diverged"}

(* With words read at once, a safe lane never reports a broken protocol:   *)
(* no poll finds a lapped slot, no refresh reads an incredible counter, no *)
(* acknowledgement finds the counter diverged (the comments in poll and    *)
(* acknowledged that say these mean corruption).  ByteProbe shows that     *)
(* byte by byte a probe can find a slot lapped that is not (NeverLapped).  *)
NoFalseAlarm == Safe => errors = {}

(* A safe lane delivers every sequence once, in order, with the payload    *)
(* sent under it, and what one poll hands out starts where the last ended. *)
ExactlyOnce ==
  Safe => Taken = [i \in 1..seen |-> Message(i, log[i])]

(* No torn or misplaced copy is ever handed out, on either kind of lane:   *)
(* a message carries the payload its sequence was sent with.               *)
Intact == \A i \in DOMAIN Taken : Taken[i] = Message(Taken[i].sequence, log[Taken[i].sequence])

(* The cursor accounts for every sequence: taken once, in order, or        *)
(* counted as lost.                                                        *)
Accounted ==
  /\ \A i \in 2..Len(Taken) : Taken[i - 1].sequence < Taken[i].sequence
  /\ Taken # <<>> => Taken[Len(Taken)].sequence = seen
  /\ Len(Taken) + lost = seen

(* On a safe lane a message whose send returned stays whole in its slot    *)
(* until it has been polled, whatever is being put meanwhile.              *)
Unread ==
  Safe => \A s \in (seen + 1)..sent : slots[Position(s)] = Image(s, log[s])

(* On either lane the last Depth messages stay whole in their slots, but   *)
(* for the one slot that the Put in flight is replacing.                   *)
Retained ==
  \A s \in 1..sent : s + Depth > Issued => slots[Position(s)] = Image(s, log[s])

(* The credit the sender works with never exceeds the counter, nor the     *)
(* counter what has been polled: room is never given back twice or early.  *)
Credit == cached <= counter /\ counter <= seen

(* A poll returns every message whose send had returned before the poll    *)
(* began, unless the sender laps it meanwhile.                             *)
CatchesUp ==
  [][pc # "idle" /\ pc' = "idle" /\ Issued <= behind + Depth => seen' >= due]_vars

(* The abstract lane this one implements: a sequence is accepted when its  *)
(* Put is issued, taken when the cursor moves over it, and its room is     *)
(* released when the counter moves in the sender's window.                 *)
Fifo == INSTANCE FifoLane WITH
  Limit    <- MaxU64,
  Lossless <- Safe,
  accepted <- [s \in 1..Issued |-> log[s]],
  cursor   <- seen,
  out      <- Taken,
  released <- counter,
  refused  <- full

(* The lane is a bounded lossless queue when safe, a lossy one that counts *)
(* its losses when raw, and a safe lane refuses only when it has no room.  *)
ImplementsFifo == Fifo!Spec

=============================================================================
