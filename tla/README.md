# Verification of mpi-rma

TLA+ models of the `mpi-rma` crate, checked with TLC, and theorems about its
lanes, rings, layouts and segments, and about the two programs that come with it,
proved with TLAPS. The crate moves messages between MPI ranks
through memory windows: a sender writes slot images into the receiver's window
with `MPI_Put`, the receiver polls its own memory, and nothing in MPI orders
the two. What makes it correct is the protocol in the slots (sequence, length,
checksum, guard), the overwrite gate, and the acknowledgement counter.

## The system

| Part | Source | State | Operations |
|---|---|---|---|
| Lane | `src/ring.rs` | `Outgoing` (sent, cached acknowledgement, image); the slots in the receiver's window; the counter in the sender's window; `seen`, `acked`; the statistics `lost`, `corrupt`, `max_lag`, `full` | `send`, `poll` (with `probe`, `frame`, `recover`), `ack` |
| Ring construction | `src/ring.rs`, `src/window.rs` | the sorted configuration, the lane tables, two windows | `new`, `agree`, `allocate`, `close`, drop |
| Window | `src/window.rs` | an MPI window, its epoch, every rank's length | `put`, `get`, `fetch_add`, `read_local`, `read_local_volatile`, `sync`, `close` |
| Segment | `src/segment.rs` | a POSIX shared-memory object, its name; per handle the mapping, ownership and a sticky failure | `create`, `open`, `payload`, `detach`, `retire`, drop |
| Soak program | `examples/soak.rs` | a `done` and a `stop` flag; per rank a main, a poller and a noise thread | push with retry, barriers, poll/verify/ack loop, checks, gathering, ping-pong noise |
| Comparison program | `examples/compare.rs` | the ring of the measurement, point-to-point messages, a `stop` flag and a noise thread on ranks above 1 | ring and point-to-point streams and round trips, barriers of the pair, dismissal, last barrier |
| Rest | `src/error.rs`, `src/lib.rs`, `examples/test_*.rs`, `tests/`, `scripts/`, `data/` | none of its own | errors, re-exports, tests, plots |

How they interact: a `Ring` is built collectively, packs all its lanes into one
window of bytes per rank, and (safe mode) all counters into one window of
`u64` per rank. `send` runs under the mutex of its lane's `Outgoing`, `poll`
under the mutex of `seen`, `ack` under the mutex of `acked` and, briefly, of
`seen`; the three may run in different threads and, for the two ends of a lane,
run in different processes. The shared state is the slot memory and the
counter. All lanes into a rank share one `seen` mutex, one `acked` mutex, one loss
counter and the fate of the poll that visits them. The two programs drive rings
from several threads and ranks, and synchronise by barriers and by point-to-point
messages besides. A segment is independent of MPI: processes of one node share a name
and an object.

What is hard: every read of a slot races with a Put into it, word by word (or
byte by byte); the sender decides on a cached counter; a message can be polled
and acknowledged before the send that put it has returned; raw lanes are lapped
at any point of a poll and of the scan that follows; `?` leaves `send`, `ack`
and `poll` after other ranks' memory has changed; construction is a series of
collectives in which ranks decide separately whether to go on; the programs stop
pollers and noise threads that other ranks still wait for; segments are
opened while they are being made, and cleaned up on many error paths.
`PROJECT.json` lists each of these hazards at its line, with the properties
that would catch it going wrong.

What makes the parts correct:

- a safe lane is a bounded lossless queue, and its run-time checks stay silent;
- a raw lane hands out only whole messages, in order, and accounts for the rest;
- the lanes of a ring never share memory or counters, whatever the sizes, and
  what they do share (mutexes, statistics, polls) lets none of them break another;
- all ranks get a ring, of the same configuration, or none does;
- the programs end on every rank, and what they check or print is true;
- an opened segment is one whole publication, and its name is removed once, by
  its creator.

## Modules

| Module | Models | Checked by |
|---|---|---|
| `FifoLane` | the abstract lane: accept, refuse, take, lose, release | through `ImplementsFifo` and `LanesAreFifo` |
| `Lane` | one directed lane, safe or raw, word by word | `lane_safe`, `lane_raw` |
| `LaneFaults` | a safe lane whose puts and acknowledgements fail, any number of times | `lane_faults`, `ack_retry` |
| `ByteProbe` | a lane, safe or raw, whose slot ends are read byte by byte | `byte_probe`, `safe_lapped` |
| `Mesh` | all lanes of a ring, message by message, and the threads that call it | `mesh` |
| `Noise` | the ping-pong noise threads of the two programs | with `Soak`, `Compare` |
| `Soak` | the soak program: `Mesh` and `Noise` under its main and poller threads | `soak` |
| `Compare` | the comparison program: `Mesh` and `Noise` under its measurements | `compare` |
| `Layout` | sorting, validation and packing of the lanes | `layout` |
| `RingSetup` | the collectives of construction and closing over several ranks | `ring_setup` |
| `Segment` | handles of one segment name in several processes | `segment` |
| `LaneProofs` | the safety of `Lane`, its refinement of `FifoLane`, and the safety of `LaneFaults` | TLAPS |
| `MeshProofs` | independence of the lanes of `Mesh`, their refinement of `FifoLane` | TLAPS |
| `ByteProbeProofs`, `LayoutProofs`, `RingSetupProofs`, `SegmentProofs`, `SoakProofs`, `CompareProofs` | the safety of the module each is named after | TLAPS |

`MC*` modules only give the constants their values.

### Lane

Variables are grouped as in the code: `Outgoing` (`sent`, `cached`, `image`,
`sending` while the mutex is held over a Put), the Put in flight (`unlanded`
words), the two windows (`slots`, `counter`), the receiver's state, the locals
of the poll in progress (`pc`, `at`, `head`, `copy`, ...), the acknowledgement
in progress, and history variables (`log`, `delivered`, `errors`, `due`).

- `send` is `SendPut`, `SendFull` or `SendDisbelieve` (gate, refresh of the
  cached counter, image, issue of the Put), then one `Land` for each word in
  any order, then `SendReturn` once the flush is complete. The gate and the
  image are one step because no other thread can see them: `Outgoing` is locked
  and the counter is read once.
- `poll` is cut at each read of slot memory: `ReadHead`, the guard (in the
  action that acts on it), `CopyWord` for each word in any order. In between,
  Puts land. `FrameTake` either goes on to the next slot or ends the poll.
- `recover` uses the same two reads per position (`ScanSkip`, `ScanFrame`), and
  `Survivor` delivers what was found, oldest first.
- `ack` is `AckIssue` (checks under the locks), `AckApply` (the counter moves
  in the sender's window), `AckReturn` (flush, comparison, local update).

Abstractions: a payload is one word; a word is read and written at once, so that what
`Lane` shows of a lane never being lapped, and with it what `Mesh`, `Soak` and `Compare` show
of it, holds of words read at once (`ByteProbe` shows what is left when they are read byte by byte,
as the code does); the CRC is ideal, so two different
inputs never collide; requests refused before any state is touched (unknown
rank, payload longer than the lane, sequence not yet polled) change nothing and
are not actions; with an ideal checksum a length word beyond the capacity is
one of the copies `Whole` refuses.

### The other modules

`LaneFaults` adds the failing calls to `Lane`: `PutFails` leaves the words that
landed and does not advance `sent`, and the others may still land after the error (`LandLate`), until
the next send fills the buffer anew; `AckFails` leaves the counter moved or not and
does not advance `acked`. Neither is counted or bounded; the counter wraps as a
`u64` does. The errors the failures return are recorded beside the reports of the
checks, so that the properties can say which failures have happened. The caller may
go on calling, as the API allows. MPI's default error handler would end the job
instead; the code is written for handlers that return.

`ByteProbe` repeats the lane, safe or raw (`safe`, whichever it was made), with the sequence and the guard as two bytes
each. Words land whole, each Put's in any order (`unlanded` holds pairs of a sequence and a word);
`ProbeByte` reads the four bytes in address order, as the loop of `read_local_volatile` does. A raw
lane scans as in `Lane`, but every probe of the scan is byte by byte too. The acknowledgement is a
single step.

`Mesh` takes a ring as a whole. Its unit is the message: a Put is in flight or
complete, and a read of the slot it is replacing (`probe` and `frame` together) finds
nothing usable, the message that was there or the new one (`Readable`). That is what
`Lane` shows of torn copies, with words read at once: none is accepted. What `Mesh` keeps is the control around
it: `poll` goes over the incoming lanes in order of origin (`todo` holds those it has
still to visit, and it is at the first of them), up to `depth` messages of each, scans a lapped raw lane position by position, delivers the survivors one at a time,
and gives everything up at a lapped safe lane (`PollLapped`). `seen` is locked from
`PollStart` to the end of the poll, so `AckIssue` is between polls; `acked` is locked
from `AckIssue` to `AckReturn`, so only one thread of a rank is in it. Sends of one
lane exclude each other (`flying`), sends of different lanes do not. A lane refines
the `FifoLane` that `Lane` refines. The counter of a lane whose acknowledgements fail is bounded
(`InBound`), which the code does not do; the theorems hold with whatever bound.

`Soak` puts the program around `Mesh`. Each rank has a main thread (rounds of
pushes over its destinations, barrier, `done`, joining the poller, the checks, the
gathering, the barrier before `close`), a poller (load `done`, poll, verify,
acknowledge in the arbitrary order of a hash map, stop at an empty poll whose load
saw `done`) and the noise thread of `Noise`. Every assertion and `fail` of the program
is a transition to "failed". The stage names are those of the code's phases. What a
message carries is its lane and sequence, which is what `paint` writes and `verify`
compares.

`Noise` is the ping-pong of a pair of ranks, by messages in channels. A standard-mode
send may return at once or only when the message is received; MPI may do either, so
`eager` is chosen at the start.

`Compare` goes through one repetition for one payload size: the measurements in
`Measures`, each ended by a barrier of the pair, rings made and closed between them.
A rank runs one operation at a time; `pc` says which. Ring streams drain until an
empty poll after the stop message (`AfterPoll`), round trips use `await_one`, and
point-to-point messages travel in order through `chan`. Rank 0 then dismisses the noise
ranks one by one, and all meet in the last barrier. The repetition ends as it began, so
one of them stands for all (`NothingLeftOver`).

`Layout` is the body of `Ring::new` between `agree` and the first allocation:
`Pack` is one iteration of the loop, on a scaled-down `usize` and `i32`.

`RingSetup` numbers the collectives of a construction. `Through` lets a rank
out of a collective that all ranks have entered; the other actions are what a
rank decides then: differing configurations, lanes that are invalid, a threading
level below `MPI_THREAD_MULTIPLE`, slots too large for an `MPI_Aint` on some rank (`LengthsFit`), a
window that is not unified. `Finish` is
`Window::finish` on a list of windows, which `close`, drop and the error paths
share: the epoch of a window is left (`Unlock`, or `UnlockFails`), then the window is
freed, collectively (`Freed`, or `FreeFails` on a single rank). A window whose epoch could not be
left, or whose free failed, is `kept` and makes `close` return an error. A window for which
`init_epoch` failed has no epoch, and goes straight to its free (`EpochFails`).

`Segment` has one handle per process. Every system call is a step and may be
refused; `create` and `open` can be interrupted anywhere; a refused cleanup of
`create`, `open` or drop aborts the process, one of `detach` or `retire` marks
the handle. The plain stores of `create` become visible in any order before
the release store of the revision.

## Runs

| Run | Bounds | Shows |
|---|---|---|
| `lane_safe` | 2 slots, sequences 1..3, 2 payloads | types; no false alarm; exactly-once delivery; unread messages stay whole; credit; a poll catches up; refinement of the bounded queue |
| `lane_raw` | 2 slots, sequences 1..4, 2 payloads | nothing torn delivered; every sequence accounted for; retention; a poll catches up; refinement of the lossy queue |
| `lane_faults` | 1 slot, sequences 1..3, any number of failed Puts and acknowledgements, 2 payloads for sequence 1 | a failed Put and its retry never mix and never trip the gate; an over-credit is returned as an error by the acknowledgement that makes it; nothing is skipped or dropped before a check has reported the lane |
| `ack_retry` | 1 slot, sequences 1..4, 1 payload | counterexample, see Findings |
| `mesh` | 2 lanes into one rank with 2 threads, safe and raw; 2 slots and 4 messages, and 1 slot and 3 messages with failing acknowledgements | only the lane whose acknowledgements fail is ever reported; no credit for messages of a poll in progress; losses and takings add up to the cursors; each healthy lane is a queue |
| `soak` | 2 ranks, both lanes, safe and raw, 1 slot, 3 messages each, rendezvous noise | every check of the program holds, and every rank ends |
| `compare` | 4 ranks, 2 slots, streams of 5 messages, 3 round trips, all 7 measurements, both kinds of standard sends | the rows printed are true; nothing is left for the next measurement; every rank ends |
| `byte_probe` | a safe and a raw lane, base 3, 2 slots, 5 messages | a torn probe is harmless to what is delivered and accounted for; a loss is of a poll that was overrun, or of what was not sent when it started |
| `safe_lapped` | as `byte_probe` | counterexample, see Findings |
| `layout` | 4 ranks, 2 or 3 lanes, `usize` up to 22, `i32` up to 8 | lanes disjoint, in their window, with a counter of their own, one per pair |
| `ring_setup` | 3 ranks, 4 configurations, any modes, threading levels and memory models, 3 failures | all or none; agreement; windows closed once and told truly; nobody waits for ever without a failure |
| `segment` | 3 processes, 2 objects, 2 payload lengths, 2 revisions, 2 refusals or kills | whole publications; the name removed once and by its creator; failures are final |

Why the bounds are enough. Two slots are the least in which a position is not
the whole lane, one poll can take several messages, and a scan can find a
younger message before an older one. With sequences to 3 or 4 each slot is
reused, a raw lane is lapped during the poll and again during the scan, and both
ends meet the end of the sequence space (`MaxU64` scales `u64::MAX` down). Two
payloads of different lengths tell a message from a mixture. The faults run on one
slot, where every send reuses the slot of the message before; of its sequences the first
is sent with either payload and retried with the other, and while the second payload is
about acknowledgements do not fail; of a lane that a check has reported broken at most one
acknowledgement fails (the state constraint `MCFewPayloadsAndReports` of
`MCLaneFaults`: a retry that changes the payload, a repeated acknowledgement and the state after a
report are separate questions). In `Mesh` the healthy lane has two slots, so that a raw lane is lapped and
recovers several survivors within a poll, and the failing one has one slot, the
tightest gate; `Overcredit` bounds what repeated acknowledgements add. The run visits the failing lane after
the healthy one (the order of origins); the other order is covered by the theorem. In `Soak` a
lane of one slot makes every second push wait for an acknowledgement, and three messages lap a
raw lane. In `Compare` a stream of five overruns two slots, so that a safe sender is refused and
a raw one laps its receiver. Statistics
`full` and `corrupt` count modulo `CountMod`; no guard reads them. In `ByteProbe`
sequence 3 is the first to differ from its predecessor in the slot in both bytes, and a raw lane can be
lapped up to twice over.
In `RingSetup` configurations that differ in number (`three`) and in content, one that is refused (`invalid`)
and one whose slots are too large on a single rank (`huge`) meet in every mixture, and three failures let the
construction of one rank fail and the closing of its windows too. In `Layout` three lanes reach one window together and sums overflow at each of
the checked operations. In `Segment` two objects let a name be reused while a
handle of the first object lives. Runs in which a system may really stop
(`layout`, `mesh` when the senders have reached their limit, `ring_setup` after a
failure, `segment` when all processes are dead)
do not check deadlock; the others do.

Fairness. `Soak` and `Compare` assume weak fairness of each thread (main, poller,
noise) and of each transfer: the threads run under an operating system that
schedules them, the retry loops spin or yield, and `MPI_Win_flush` returns only when the Put
is complete, so the transfer proceeds. A barrier needs no fairness of its own: it is the
step of a thread, enabled for good once all have arrived. No fairness is assumed between the
outcomes of a step: whether a poll finds a Put in flight is never fair. `RingSetup` assumes weak fairness of each rank outside its
failures: a collective that all ranks have entered lets them through. The
other specifications state no fairness and are checked for safety.

`PROJECT.json` also lists, for every property of every passing run, a mutation
of the model in the manner of a plausible bug that makes TLC find the property
violated.

### Findings

- `ack_retry`: `Ring::ack` is documented as "Cumulative and idempotent"
  (`ring.rs:480`). An acknowledgement that returns an error after
  `MPI_Fetch_and_op` took effect is not recorded, and repeating it adds its
  delta to the counter again before the comparison finds the divergence. The
  counter then credits the sender with messages that were not polled. A later
  poll can find itself lapped. `lane_faults` shows (`NoSilentLoss`) that an error is
  always reported before a message is lost.
- `safe_lapped`: the comments in `poll` (`ring.rs:427-431`) and `design.md:84-86`
  say that a safe lane reaches the lapped branch only when memory has been
  corrupted. `probe` reads through a window of bytes; when both ends of the
  expected slot are replaced between two byte reads it can see a later sequence
  with the matching guard, and a sound lane reports `Error::Lapped`. It takes two
  unlikely coincidences and a carry between the bytes (255 to 256 in a lane of
  one slot). `byte_probe` shows that nothing wrong is delivered; the messages that
  poll had collected are dropped.
  The same mixture has a consequence on a raw lane, where `design.md:80-82` says that a later valid sequence means that the
  receiver has been lapped, and that the gaps it then finds are lost. With 255 in a slot of a lane of two and 257 landing over it,
  the bytes 0xFF of the one and 0x01 of the other make 0x1FF: the lane scans though nobody lapped it. The scan passes over that
  slot while the rest of 257 is landing, finds 258 in the other, and counts 257 as lost, though it is then whole in its slot and
  the sender no more than two ahead. So no property says that a loss means a lap. `byte_probe` shows what remains true
  (`LossIsLapOrLate`): the count adds up, and a poll that is not overrun counts nothing that had been sent when it started.

## Proofs

The theorems hold for every value of the constants that satisfies the assumption of the
module (`LaneAssumption`, `MeshAssumption`, ...), and from nothing else, with one exception:
failing calls are modelled on a safe lane, so that the theorems about `LaneFaults` have `Safe`
as a hypothesis (a raw lane has no acknowledgements to fail). Every invariant, action property
and refinement that a passing run checks is also a theorem.

| Module | Theorems |
|---|---|
| `LaneProofs`, of `Lane` | `TypeCorrect` (`TypeOK`), `IntactTheorem` (`Intact`), `NoFalseAlarmTheorem`, `CreditTheorem`, `AccountedTheorem`, `ExactlyOnceTheorem`, `FifoTheorem` (`ImplementsFifo`, a refinement), `RetainedTheorem`, `UnreadTheorem`, `CatchesUpTheorem` (about steps) |
| `LaneProofs`, of `LaneFaults` | `UnmixedTheorem` (about steps), `PutFaultsHarmlessTheorem`, `OvercreditReportedTheorem`, `NoSilentLossTheorem` |
| `ByteProbeProofs` | `TornProbeHarmlessTheorem`, `LossIsLapOrLateTheorem` (about steps) |
| `MeshProofs` | `IsolatedTheorem`, `AckedWereReturnedTheorem`, `LanesAreFifoTheorem` (a refinement for each lane), `RingAccountedTheorem` |
| `LayoutProofs` | `DisjointTheorem`, `InWindowTheorem`, `OwnCounterTheorem`, `OneLanePerPairTheorem` |
| `RingSetupProofs` | `AllOrNoneTheorem`, `AgreedTheorem`, `ClosedProperlyTheorem` |
| `SoakProofs` | `SoakPassesTheorem` |
| `CompareProofs` | `RowsTrueTheorem`, `NothingLeftOverTheorem` |
| `SegmentProofs` | `PublishedWholeTheorem`, `UnlinksOwnTheorem`, `NoStaleNameTheorem`, `FailureIsFinalTheorem` (about steps) |

### A lane

The argument has three levels, each an inductive invariant on top of the one before.

`IntactInv` strengthens `TypeOK` with where the words of slots and of copies come
from: each is a word of an image that was issued, and `log` still holds the
payload that image was made of. A torn copy satisfies that, and what is
accepted is pinned down by the checksum word: it belongs to a single issued
image, and the copy's sequence and payload must be the ones it was computed
from (`WholeIsOriginal`). `log` changes only at the sequence being issued, which
has not been delivered (`LogStable`). This needs no gate, so it holds on
both kinds of lanes.

`DeliveryInv` adds three parts. `Headroom` orders the cursors of a safe lane
(`cached`, `counter`, `seen`, the highest issued sequence, at most `Depth`
beyond `cached`) through every stage of an acknowledgement. `Placement` says that
a slot position only ever holds words of sequences of that position. `Quiet` says
that a safe lane is never in `recover` and has no error. From the first two, a safe
poll never probes a sequence ahead of the one it expects (`NeverAhead`): it
would have to be at least `Depth` beyond it at the same position. So
`ProbeLapped` and `ProbeRecover` are impossible on a safe lane, `lost` stays 0,
and exactly-once delivery follows from the accounting of the cursor. The refinement
takes the same facts step by step: issuing a Put accepts (for the cached counter never
exceeds the real one), taking a message or a survivor takes, the fetch-and-add
releases, and every other step leaves the queue alone.

`MemoryInv` adds `Landing`, that what has landed of the Put in flight are words of its
image, and `Retained` itself, which is then inductive: the Put in flight touches a
single position, and the sequence that was there is `Depth` older. `Unread` is
`Retained` under `Headroom`. `PollInv` follows one poll: recovering means overrun
(`Overrun`), and as long as it is not overrun, what it has read of a slot that was
whole when it started is that message (`Reading`). A miss of such a message would
contradict it, which is `CatchesUp`.

### A safe lane with failing calls

A failed Put leaves its sequence attempted and not sent, so `Headroom` does not hold, and a failed
acknowledgement leaves the counter ahead of `acked`, so the run-time checks may fire. `FaultInv`
says what is left. `Room`: until an acknowledgement fails, the cached counter, the counter and the
cursor are in order and what was *attempted* (not only what was sent) fits the cached credit, so that a
retry passes the gate without reading the counter. `Credited`: while no later acknowledgement has failed
and none has found a difference, the counter stays within what was polled, one in progress apart. `Plain` and
`InTurn` need no credit at all: a safe lane never recovers, so a poll takes the expected sequence or
reports. `Unmixed` then rests on the checksum alone, not on the gate (`WholeOfOneSend`).

A word of a failed Put that lands late is still of the sequence after `sent`, the one attempted last (`Trying`).

### A lane read byte by byte

`ProbeInv` of `ByteProbe` says nothing about the head a probe put together from bytes. What it says is that a poll hands
out whole frames of sequences beyond the cursor, the expected one or, in a scan, the oldest first
with the gaps counted, so that what was taken is in order and, until a poll fails, complete with what was counted.
`SendInv` adds the sender's side: the last `Depth` messages are whole in their slots, but for the one the Put in flight is replacing.
From it `PollInv` follows one poll as long as it is not overrun (`Reading`): a slot whose message had been sent when the poll
started, and is beyond its cursor, does not change, so no read of it is torn; a probe of it finds that message
and a scan collects it. A gap over it would contradict that, which is `LossIsLapOrLate`.

### The lanes of a ring

`MeshInv` has two parts for a poll and an acknowledgement in progress (`Polling`:
what a scan has found lies between the cursor and what was issued; `Acking`: what is being
acknowledged was returned, and an applied acknowledgement of a healthy lane found the
counter where the last one left it), the mutex of `acked` (`Exclusive`), and for each
healthy lane `Roomy`, the order of its cursors: the cached counter, the counter, the
messages *returned* to a caller (the cursor less what the poll in progress holds), and
the highest sequence issued, at most `Depth` beyond the cached counter. Each action moves
words of one lane of one rank; `PollFrame`, `SendFrame` and `AckFrame` say once what such a
step leaves true of the others. A healthy safe lane is never lapped (`NeverLapped`) because two
sequences at a position are at least `Depth` apart (`SharedPosition`), its counter is
always credible, and no acknowledgement of it diverges; so every report of a broken lane names
a faulty one. `LanesAreFifo` is proved action by action from the same invariant. That several
acknowledging threads do not upset a lane rests on `Exclusive` alone, and that no room is
given back under a poll on the mutex of `seen`; dropping either makes the proof of `AckMoves` or
`AckIssues` fail, as the mutants of the run do for TLC.

`RingAccounted` is about sums over the lanes into a rank, which a fold adds up. `SumExists` builds
the recursive function behind the fold one size of subsets after another, `SubsetsByPicking` is the
induction along the order in which the fold takes elements, stated of a set of subsets and proved from
the least size of a counterexample, and `TotalMoves` says what changing one place does to a sum.

### The two programs

Both are proved over `MeshInv` and `RingAccounted`, whatever the depths, and both assume that no call of
the ring fails (`Faulty = {}` in `SoakAssumption` and `CompareAssumption`): then no lane is ever
reported, and the programs' failing branches after a send, a poll or an acknowledgement are not taken.

What both need beyond the ring is when a receiver is done. While no Put is in flight, the slot of the
message after the cursor holds it or a later one, if it was sent (`NextIsStored`). So a poll that started
when everything had been sent, and comes back empty, has left only drained lanes; `FoundNothing` says so
for a poll in progress, lane by lane and, in a scan, position by position (`NothingToFind`).

`SoakInv` adds that `done` is raised only when every rank has sent everything (`Pushing`), so that a poll
that began with `done` loaded is such a poll (`Searching`); that the batch of a poll in progress is in
order and reaches up to the cursor of each lane (`Known`); and that what the poller has counted, with the
batch, adds up to what was taken off its lanes (`Counted`). A poller that stops has therefore drained
every lane (`Leaving`), and received and lost add up to what was sent, which is what the checks ask.

`CompareInv` has a part for each kind of measurement. In a ring stream (`StreamInv`) what rank 0 sent is what
it counted, the stop message is sent last and received once, and rank 1 answers after an empty poll that
followed it, when it has caught up. In round trips over a ring (`RttInv`) the cursors differ from the counts of
the two ranks by the one message under way, so that a poll that finds anything finds exactly that message
(`OneUnderWay`), and one slot never wraps under it. In point-to-point measurements the lengths of the
queues do the same (`P2pStreamInv`, `P2pRttInv`). `Barrier` joins them: each measurement ends with the
cursors equal to what was sent and nothing in the queues, which is what the next one starts from, and a new
ring starts from nothing.

### Layout, construction, segments

`LayoutInv` is the invariant of the packing loop. `Stacked` keeps each lane at or above the
end of all earlier ones of its window, which needs the running length never to wrap: the
checked additions are the guard that `Packed` uses. `Numbered` does the same for counters,
and `Ascending` gets one lane per pair from sorting and from neighbours being distinct.

`SetupInv` rests on `Abreast`: a rank that is out of its k-th collective knows that all
others have entered it. What ranks decide there depends only on what all were given
(`Checked`, `Told`), so that they decide alike, and a rank that fails on its own fails inside the
series, before anyone has a ring. `Leaving` accounts for the windows, freed, kept or still to be freed, while they are
finished one by one.

`SegmentInv` says of each place in `create`, `open`, `retire` and drop what it has established
of the object (`Established`); `Owns` ties the name to whoever is to unlink it, and `Whole` lets
the revision, stored last with release, stand for all other stores.

### Lemmas about operators

`MinIs` and `MaxIs` (what the community operators return on sets of naturals, from
`LeastNatural`), `SharedPosition`, `InBatchIs` (how a cardinality over a batch grows),
`SeriesTail` and `SeriesReversed`, and `NeighboursAscend` are stated once and cited.

### Only model-checked

Liveness under fairness, which the prover cannot do: `Termination` (soak), `CompareEnds`,
`Settles` (construction). The two findings are counterexamples and have nothing to prove.

## Not modelled

- `Window::get` and `Window::sync`, which the ring does not use; element types. The
  range checks of `Window` enter through `InWindow`: what the ring accesses is in range.
- The separate memory model: `new` refuses it (`Models` in `RingSetup`).
- Poisoned mutexes: no code under the locks panics.
- What follows a failure that the code does not recover from: the soak program after a failed send or poll, when threads
  of other ranks are left spinning (`SoakPasses` shows that it does not get there while MPI does not fail); ranks left waiting in a
  collective that another rank has refused alone or failed in (`Settles` excepts them); a segment name left by a creator
  that died (`NoStaleName` excepts it).
- Pacing, timings, payload patterns and output of the two programs.
- Errors and re-exports, scripts and tests: no state. The tests were read for what they
  promise of the code.

## Plan

Done: the modules and runs above, and a proof of every safety property, action property and
refinement that the passing runs check.

What could follow: `Window::sync` and the separate memory model, should the crate come to
support it; several payload sizes in one repetition of `Compare`; failing acknowledgements under the soak
program, whose checks would then have to be read as reports.
