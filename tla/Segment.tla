------------------------------ MODULE Segment ------------------------------
(***************************************************************************)
(* The published shared-memory segments of src/src/segment.rs under one    *)
(* name: processes create, open, detach, retire and drop handles; every    *)
(* system call may be refused, every process may die, and the steps of     *)
(* different processes interleave.  The kernel's part (the name, the       *)
(* objects behind it) is modelled as the calls use it.                     *)
(***************************************************************************)
EXTENDS Integers, Sequences

CONSTANTS
  Procs,        (* Processes, each with one handle.                        *)
  Revisions,    (* Revisions a creator publishes or an opener expects.     *)
  Payloads,     (* Payloads a creator publishes.                           *)
  PayloadLen,   (* PayloadLen[d] is the length of payload d.               *)
  MaxObjects,   (* Bound on objects ever created under the name.           *)
  MaxRefusals   (* Bound on refused system calls and killed processes.     *)

ASSUME SegmentAssumption ==
  /\ Revisions \subseteq Nat \ {0}
  /\ PayloadLen \in [Payloads -> Nat]
  /\ MaxObjects \in Nat /\ MaxRefusals \in Nat

VARIABLES
  link,     (* The object the name leads to, 0 when there is none.         *)
  objects,  (* Every object created, by number.                            *)
  proc,     (* Each process: what it does next, and its handle.            *)
  refusals  (* System calls refused, and processes killed, so far.         *)

vars == <<link, objects, proc, refusals>>

-----------------------------------------------------------------------------
Header == 1                     \* the header's length, scaled down

Lengths == {PayloadLen[d] : d \in Payloads}

(* What create stores before the revision. *)
Parts == {"magic", "length", "payload"}

(* A process that holds no segment. *)
Outside ==
  [at |-> "none", object |-> 0, base |-> FALSE, owner |-> FALSE,
   failed |-> FALSE, revision |-> 0, length |-> 0]

Dead == [Outside EXCEPT !.at = "dead"]

Init ==
  /\ link = 0 /\ objects = <<>>
  /\ proc = [p \in Procs |-> Outside]
  /\ refusals = 0

At(p, place) == proc[p].at = place

Object(p) == objects[proc[p].object]

Goes(p, place) == proc' = [proc EXCEPT ![p].at = place]

Ends(p, as) == proc' = [proc EXCEPT ![p] = as]

Refuse == refusals < MaxRefusals /\ refusals' = refusals + 1

(* A refused cleanup is not survivable: the process aborts. *)
AbortAt(p, place) ==
  /\ At(p, place) /\ Refuse
  /\ Ends(p, Dead)
  /\ UNCHANGED <<link, objects>>

-----------------------------------------------------------------------------
(* Segment::create *)

(* shm_open with O_EXCL: the name must be free. *)
CreateOpen(p, r, d) ==
  /\ At(p, "none") /\ link = 0 /\ Len(objects) < MaxObjects
  /\ objects' = Append(objects, [size |-> 0, missing |-> Parts, revision |-> 0,
                                 made |-> d, by |-> p])
  /\ link' = Len(objects')
  /\ proc' = [proc EXCEPT ![p] = [Outside EXCEPT !.at = "truncate", !.object = link',
                                                 !.revision = r, !.length = PayloadLen[d]]]
  /\ UNCHANGED refusals

(* The calls of create before it writes, in order. *)
After == [truncate |-> "reserve", reserve |-> "map", map |-> "close", close |-> "write"]

CreateCall(p) ==
  /\ proc[p].at \in DOMAIN After
  /\ objects' = IF At(p, "truncate")
                THEN [objects EXCEPT ![proc[p].object].size = Header + proc[p].length]
                ELSE objects
  /\ proc' = [proc EXCEPT ![p].at = After[@], ![p].base = @ \/ At(p, "map")]
  /\ UNCHANGED <<link, refusals>>

(* One of them is refused: what was mapped is unmapped and the name is to  *)
(* be unlinked.                                                            *)
CreateRefused(p) ==
  /\ proc[p].at \in DOMAIN After /\ Refuse
  /\ proc' = [proc EXCEPT ![p].at = "unlink", ![p].base = FALSE]
  /\ UNCHANGED <<link, objects>>

(* A plain store of create becomes visible, in no particular order. *)
Write(p, part) ==
  /\ At(p, "write") /\ part \in Object(p).missing
  /\ objects' = [objects EXCEPT ![proc[p].object].missing = @ \ {part}]
  /\ UNCHANGED <<link, proc, refusals>>

Unordered(p) == TRUE            \* a relaxed store waits for nothing

Released(p) == Object(p).missing = {}

(* The release store of the revision comes after all of them. *)
Publish(p) ==
  /\ At(p, "write") /\ Released(p)
  /\ objects' = [objects EXCEPT ![proc[p].object].revision = proc[p].revision]
  /\ proc' = [proc EXCEPT ![p].at = "held", ![p].owner = TRUE]
  /\ UNCHANGED <<link, refusals>>

-----------------------------------------------------------------------------
(* Segment::open *)

Open(p, r, n) ==
  /\ At(p, "none") /\ link # 0
  /\ proc' = [proc EXCEPT ![p] = [Outside EXCEPT !.at = "stat", !.object = link,
                                                 !.revision = r, !.length = n]]
  /\ UNCHANGED <<link, objects, refusals>>

(* The length stored in the header, zero while it is not written. *)
Stored(o) == IF "length" \in o.missing THEN 0 ELSE PayloadLen[o.made]

SizeAgrees(p) == Object(p).size = Header + proc[p].length

RevisionAgrees(p) == Object(p).revision = proc[p].revision

FormatAgrees(p) ==
  "magic" \notin Object(p).missing /\ Stored(Object(p)) = proc[p].length

(* Its calls and checks, in order; a failed check leaves by way of close   *)
(* or munmap.                                                              *)
OpenStep(p) ==
  /\ \/ At(p, "stat")   /\ Goes(p, IF SizeAgrees(p) THEN "openmap" ELSE "leave")
     \/ At(p, "openmap") /\ proc' = [proc EXCEPT ![p].at = "openclose", ![p].base = TRUE]
     \/ At(p, "openclose") /\ Goes(p, "acquire")
     \/ At(p, "acquire") /\ Goes(p, IF RevisionAgrees(p) THEN "format" ELSE "leave")
     \/ At(p, "format") /\ Goes(p, IF FormatAgrees(p) THEN "held" ELSE "leave")
     \/ At(p, "leave")  /\ Ends(p, Outside)
  /\ UNCHANGED <<link, objects, refusals>>

OpenRefused(p) ==
  /\ proc[p].at \in {"stat", "openmap", "openclose"} /\ Refuse
  /\ Goes(p, "leave")
  /\ UNCHANGED <<link, objects>>

-----------------------------------------------------------------------------
(* The handle: detach, retire, drop *)

(* A refused explicit cleanup is final: it is neither retried nor hidden. *)
Retried(p) == TRUE

MayCleanUp(p) == ~proc[p].failed

Detach(p) ==
  /\ At(p, "held") /\ MayCleanUp(p) /\ proc[p].base
  /\ proc' = [proc EXCEPT ![p].base = FALSE]
  /\ UNCHANGED <<link, objects, refusals>>

(* munmap refuses, in detach or in the detach that retire begins with. *)
DetachRefused(p) ==
  /\ At(p, "held") /\ MayCleanUp(p) /\ proc[p].base /\ Refuse
  /\ proc' = [proc EXCEPT ![p].failed = TRUE]
  /\ UNCHANGED <<link, objects>>

(* retire asserts that the handle is the creator's, detaches, and goes on  *)
(* to unlink the name.                                                     *)
Retire(p) ==
  /\ At(p, "held") /\ MayCleanUp(p) /\ proc[p].owner
  /\ proc' = [proc EXCEPT ![p].at = "retire", ![p].base = FALSE]
  /\ UNCHANGED <<link, objects, refusals>>

(* Whether the handle is still to unlink the name once it has done so. *)
StillOwner(p) == proc[p].owner

Disowned(p) == FALSE

(* shm_unlink removes the name, whatever it leads to; without a name it    *)
(* fails.                                                                  *)
RetireUnlink(p) ==
  /\ At(p, "retire")
  /\ IF link # 0
     THEN proc' = [proc EXCEPT ![p].at = "held", ![p].owner = Disowned(p)]
     ELSE proc' = [proc EXCEPT ![p].at = "held", ![p].failed = TRUE]
  /\ link' = 0
  /\ UNCHANGED <<objects, refusals>>

RetireRefused(p) ==
  /\ At(p, "retire") /\ Refuse
  /\ proc' = [proc EXCEPT ![p].at = "held", ![p].failed = TRUE]
  /\ UNCHANGED <<link, objects>>

(* Drop aborts on a recorded failure; otherwise it unmaps, and the owner   *)
(* goes on to unlink.                                                      *)
Drop(p) ==
  /\ At(p, "held")
  /\ IF proc[p].failed
     THEN Ends(p, Dead)
     ELSE IF proc[p].owner
          THEN proc' = [proc EXCEPT ![p].at = "unlink", ![p].base = FALSE]
          ELSE Ends(p, Outside)
  /\ UNCHANGED <<link, objects, refusals>>

(* What a cleanup that must not fail does with the name; the failed create *)
(* must do it too.                                                         *)
LinkLeft == link

LinkRemoved == 0

(* The unlink of a failed create, or of a dropped owner. *)
Unlink(p) ==
  /\ At(p, "unlink")
  /\ Ends(p, IF link # 0 THEN Outside ELSE Dead)
  /\ link' = LinkRemoved
  /\ UNCHANGED <<objects, refusals>>

(* The process is killed: the kernel unmaps and closes, the name stays. *)
Crash(p) ==
  /\ proc[p].at \notin {"none", "dead"} /\ Refuse
  /\ Ends(p, Dead)
  /\ UNCHANGED <<link, objects>>

-----------------------------------------------------------------------------
Next ==
  \E p \in Procs :
    \/ \E r \in Revisions, d \in Payloads : CreateOpen(p, r, d)
    \/ CreateCall(p)
    \/ CreateRefused(p)
    \/ \E part \in Parts : Write(p, part)
    \/ Publish(p)
    \/ \E r \in Revisions, n \in Lengths : Open(p, r, n)
    \/ OpenStep(p)
    \/ OpenRefused(p)
    \/ Detach(p)
    \/ DetachRefused(p)
    \/ Retire(p)
    \/ RetireUnlink(p)
    \/ RetireRefused(p)
    \/ Drop(p)
    \/ Unlink(p)
    \/ \E place \in {"unlink", "leave"} : AbortAt(p, place)
    \/ Crash(p)

Spec == Init /\ [][Next]_vars

-----------------------------------------------------------------------------
(* Properties *)

(* A process that has opened a segment and still maps it sees the whole of *)
(* one publication, the one it asked for: nothing of it is still to be     *)
(* written, and the mapping it keeps does not outlive a failed check.      *)
PublishedWhole ==
  \A p \in Procs : At(p, "held") /\ proc[p].base =>
    /\ Object(p).missing = {}
    /\ Object(p).revision = proc[p].revision
    /\ PayloadLen[Object(p).made] = proc[p].length

(* Who is to unlink the name: the creator, until it has. *)
WillUnlink(p) == proc[p].owner \/ proc[p].at \in DOMAIN After \cup {"write", "unlink"}

(* Whoever is to unlink the name still finds its own object there, so no   *)
(* process ever removes the name of another one's segment.                 *)
UnlinksOwn == \A p \in Procs : WillUnlink(p) => link = proc[p].object

(* A name is never left behind but by a process that died with it: a       *)
(* create that fails, a retire and a drop all free it.                     *)
NoStaleName ==
  link # 0 => \/ WillUnlink(objects[link].by)
              \/ At(objects[link].by, "dead")

(* A refused cleanup is final: the handle stays as it is until its drop    *)
(* aborts the process.                                                     *)
FailureIsFinal ==
  [][\A p \in Procs : proc[p].failed => proc'[p] = proc[p] \/ proc'[p] = Dead]_vars

=============================================================================
