---------------------------- MODULE SegmentProofs ----------------------------
(***************************************************************************)
(* The published segments are sound for every set of processes, revisions  *)
(* and payloads, however many calls are refused or processes killed: what  *)
(* is opened is one whole publication, and every name is removed by the    *)
(* process that made it and by no other.                                   *)
(***************************************************************************)
EXTENDS Segment, SequenceTheorems, TLAPS

-----------------------------------------------------------------------------
(* The invariant *)

Creating == {"truncate", "reserve", "map", "close", "write"}

Opening == {"stat", "openmap", "openclose", "acquire", "format", "leave"}

Handling == {"held", "retire"}

Places == {"none", "dead", "unlink"} \cup Creating \cup Opening \cup Handling

ObjectRecords ==
  [size : Nat, missing : SUBSET Parts, revision : Nat, made : Payloads, by : Procs]

ProcRecords ==
  [at : Places, object : Nat, base : BOOLEAN, owner : BOOLEAN, failed : BOOLEAN,
   revision : Nat, length : Nat]

TypeOK ==
  /\ link \in Nat /\ link <= Len(objects)
  /\ objects \in Seq(ObjectRecords)
  /\ proc \in [Procs -> ProcRecords]
  /\ refusals \in Nat

(* Where a handle can be with the flags it has; it holds an object, and    *)
(* expects a revision that was published.                                  *)
Stage(p) ==
  /\ proc[p].owner => proc[p].at \in {"held", "retire", "unlink"}
  /\ At(p, "retire") => proc[p].owner
  /\ proc[p].failed => At(p, "held")
  /\ proc[p].at \notin {"none", "dead"} =>
       proc[p].object \in 1..Len(objects) /\ proc[p].revision \in Revisions

(* The name leads to the object of whoever is to unlink it. *)
Owns(p) ==
  WillUnlink(p) => link # 0 /\ link = proc[p].object /\ objects[link].by = p

(* What each place has established of the object. *)
Established(p) ==
  /\ proc[p].at \in Creating =>
       Object(p).revision = 0 /\ PayloadLen[Object(p).made] = proc[p].length
  /\ At(p, "format") => Object(p).revision = proc[p].revision
  /\ proc[p].at \in Handling =>
       /\ Object(p).missing = {}
       /\ Object(p).revision = proc[p].revision
       /\ PayloadLen[Object(p).made] = proc[p].length

(* The release store orders the others: a revision stands for them all. *)
Whole(o) == objects[o].revision # 0 => objects[o].missing = {}

SegmentInv ==
  /\ TypeOK
  /\ \A p \in Procs : Stage(p) /\ Owns(p) /\ Established(p)
  /\ \A o \in 1..Len(objects) : Whole(o)
  /\ NoStaleName

-----------------------------------------------------------------------------
(* The steps of creation, and where each leads. *)
LEMMA AfterPlaces ==
  /\ DOMAIN After = {"truncate", "reserve", "map", "close"}
  /\ \A place \in DOMAIN After : After[place] \in Creating
BY DEF After, Creating

(* Of two processes at most one is to unlink the name. *)
LEMMA OneUnlinker ==
  ASSUME SegmentInv, NEW p \in Procs, NEW q \in Procs, WillUnlink(p), WillUnlink(q)
  PROVE  p = q
BY DEF SegmentInv, Owns

(* The steps of p that only move p's handle. *)
LEMMA HandleStep ==
  ASSUME SegmentInv, NEW p \in Procs, NEW handle \in ProcRecords,
         proc' = [proc EXCEPT ![p] = handle],
         UNCHANGED <<link, objects>>, refusals' \in Nat,
         ~At(p, "dead"), Stage(p)', Owns(p)', Established(p)',
         WillUnlink(p) => WillUnlink(p)' \/ At(p, "dead")'
  PROVE  SegmentInv'
<1>1. TypeOK /\ TypeOK'
  BY DEF SegmentInv, TypeOK
<1>2. ASSUME NEW q \in Procs
      PROVE  Stage(q)' /\ Owns(q)' /\ Established(q)'
  <2>1. CASE q = p
    BY <2>1
  <2>2. CASE q # p
    <3>1. proc'[q] = proc[q]
      BY <1>1, <2>2 DEF TypeOK
    <3>2. Stage(q) /\ Owns(q) /\ Established(q)
      BY DEF SegmentInv
    <3> QED
      BY <3>1, <3>2 DEF Stage, Owns, Established, WillUnlink, At, Object
  <2> QED
    BY <2>1, <2>2
<1>3. \A o \in 1..Len(objects') : Whole(o)'
  BY DEF SegmentInv, Whole
<1>4. NoStaleName'
  <2> SUFFICES ASSUME link # 0
               PROVE  WillUnlink(objects[link].by)' \/ At(objects[link].by, "dead")'
    BY DEF NoStaleName
  <2> DEFINE q == objects[link].by
  <2>1. WillUnlink(q) \/ At(q, "dead")
    BY DEF SegmentInv, NoStaleName
  <2>2. q \in Procs
    <3>1. link \in 1..Len(objects) /\ objects \in Seq(ObjectRecords)
      BY <1>1 DEF TypeOK
    <3>2. objects[link] \in ObjectRecords
      BY <3>1
    <3> QED
      BY <3>2 DEF ObjectRecords
  <2>3. objects'[link'].by = q
    OBVIOUS
  <2> HIDE DEF q
  <2>4. CASE q = p
    BY <2>1, <2>3, <2>4 DEF WillUnlink, At
  <2>5. CASE q # p
    <3>1. proc'[q] = proc[q]
      BY <1>1, <2>2, <2>5 DEF TypeOK
    <3> QED
      BY <2>1, <2>3, <3>1 DEF WillUnlink, At
  <2> QED
    BY <2>4, <2>5
<1> QED
  BY <1>1, <1>2, <1>3, <1>4 DEF SegmentInv

(* The removal of the name by the process that is to do it. *)
LEMMA UnlinkStep ==
  ASSUME SegmentInv, NEW p \in Procs, NEW handle \in ProcRecords,
         proc' = [proc EXCEPT ![p] = handle], WillUnlink(p),
         link' = 0, UNCHANGED <<objects, refusals>>,
         Stage(p)', ~WillUnlink(p)', Established(p)'
  PROVE  SegmentInv'
<1>1. TypeOK /\ TypeOK'
  BY LenProperties DEF SegmentInv, TypeOK
<1>2. ASSUME NEW q \in Procs
      PROVE  Stage(q)' /\ Owns(q)' /\ Established(q)'
  <2>1. CASE q = p
    BY <2>1 DEF Owns
  <2>2. CASE q # p
    <3>1. proc'[q] = proc[q]
      BY <1>1, <2>2 DEF TypeOK
    <3>2. ~WillUnlink(q)
      BY <2>2, OneUnlinker
    <3>3. Stage(q) /\ Established(q)
      BY DEF SegmentInv
    <3> QED
      BY <3>1, <3>2, <3>3 DEF Stage, Owns, Established, WillUnlink, At, Object
  <2> QED
    BY <2>1, <2>2
<1>3. \A o \in 1..Len(objects') : Whole(o)'
  BY DEF SegmentInv, Whole
<1> QED
  BY <1>1, <1>2, <1>3 DEF SegmentInv, NoStaleName

(* The steps by which a creator fills its object: nobody else is at a      *)
(* place that has established anything of an object without a revision.    *)
LEMMA ObjectStep ==
  ASSUME SegmentInv, NEW p \in Procs, NEW handle \in ProcRecords, NEW new \in ObjectRecords,
         proc[p].at \in Creating,
         proc' = [proc EXCEPT ![p] = handle],
         objects' = [objects EXCEPT ![proc[p].object] = new],
         UNCHANGED <<link, refusals>>,
         new.by = Object(p).by,
         new.revision # 0 => new.missing = {},
         Stage(p)', Owns(p)', Established(p)', WillUnlink(p)'
  PROVE  SegmentInv'
<1> DEFINE o == proc[p].object
<1>1. /\ TypeOK /\ Stage(p) /\ Established(p) /\ o \in 1..Len(objects)
      /\ objects \in Seq(ObjectRecords) /\ Len(objects) \in Nat
      /\ WillUnlink(p) /\ Object(p).revision = 0
  BY LenProperties DEF SegmentInv, TypeOK, Stage, Established, Creating, WillUnlink, After
<1>2. /\ objects' \in Seq(ObjectRecords) /\ Len(objects') = Len(objects)
      /\ objects'[o] = new
      /\ \A i \in 1..Len(objects) : i # o => objects'[i] = objects[i]
  BY <1>1, ExceptSeq
<1>3. TypeOK'
  BY <1>1, <1>2 DEF TypeOK
<1>4. \A i \in 1..Len(objects) : objects'[i].by = objects[i].by
  BY <1>1, <1>2 DEF Object
<1>5. ASSUME NEW q \in Procs
      PROVE  Stage(q)' /\ Owns(q)' /\ Established(q)'
  <2>1. CASE q = p
    BY <2>1
  <2>2. CASE q # p
    <3>1. proc'[q] = proc[q]
      BY <1>1, <2>2 DEF TypeOK
    <3>2. Stage(q) /\ Owns(q) /\ Established(q)
      BY DEF SegmentInv
    <3>3. Stage(q)' /\ Owns(q)'
      <4>1. Stage(q)'
        BY <1>2, <3>1, <3>2 DEF Stage, At
      <4>2. link # 0 => link \in 1..Len(objects)
        BY <1>1 DEF TypeOK
      <4>3. Owns(q)'
        BY <1>4, <3>1, <3>2, <4>2 DEF Owns, WillUnlink
      <4> QED
        BY <4>1, <4>3
    <3>4. CASE proc[q].at \in Creating \cup {"format"} \cup Handling
      <4>1. proc[q].object # o
        <5>1. CASE proc[q].at \in Creating
          <6>1. WillUnlink(q)
            BY <5>1 DEF WillUnlink, After, Creating
          <6>2. FALSE
            BY <1>1, <2>2, <6>1, OneUnlinker
          <6> QED
            BY <6>2
        <5>2. CASE proc[q].at \in {"format"} \cup Handling
          <6>1. Object(q).revision = proc[q].revision /\ proc[q].revision \in Revisions
            BY <3>2, <5>2 DEF Established, Stage, At, Handling
          <6>2. Object(q).revision # Object(p).revision
            BY <1>1, <6>1, SegmentAssumption
          <6> QED
            BY <6>2 DEF Object
        <5> QED
          BY <3>4, <5>1, <5>2
      <4>2. proc[q].object \in 1..Len(objects)
        BY <3>2, <3>4 DEF Stage, Creating, Handling
      <4>3. objects'[proc[q].object] = objects[proc[q].object]
        BY <1>2, <4>1, <4>2
      <4> QED
        BY <3>1, <3>2, <3>3, <4>3 DEF Established, Object, At
    <3>5. CASE proc[q].at \notin Creating \cup {"format"} \cup Handling
      BY <3>1, <3>3, <3>5 DEF Established, At
    <3> QED
      BY <3>4, <3>5
  <2> QED
    BY <2>1, <2>2
<1>6. \A i \in 1..Len(objects') : Whole(i)'
  BY <1>2 DEF SegmentInv, Whole
<1>7. NoStaleName'
  <2>1. link' = o /\ objects[link].by = p
    BY <1>1 DEF SegmentInv, Owns
  <2>2. objects'[link'].by = p
    BY <1>1, <1>4, <2>1
  <2> QED
    BY <2>2 DEF NoStaleName, WillUnlink, At
<1> QED
  BY <1>3, <1>5, <1>6, <1>7 DEF SegmentInv

(* A handle that create or open has just begun. *)
Begun(place, o, r, l) ==
  [Outside EXCEPT !.at = place, !.object = o, !.revision = r, !.length = l]

(* A process that enters create or open is well formed. *)
LEMMA BegunType ==
  ASSUME NEW place \in Places, NEW o \in Nat, NEW r \in Nat, NEW l \in Nat
  PROVE  Begun(place, o, r, l) \in ProcRecords
<1>1. Outside \in ProcRecords
  BY DEF Outside, ProcRecords, Places
<1> QED
  BY <1>1 DEF ProcRecords, Begun

(* Segment::create finds the name free, and takes it. *)
LEMMA CreateOpenStep ==
  ASSUME SegmentInv, NEW p \in Procs, NEW r \in Revisions, NEW d \in Payloads,
         CreateOpen(p, r, d)
  PROVE  SegmentInv'
<1> DEFINE new == [size |-> 0, missing |-> Parts, revision |-> 0, made |-> d, by |-> p]
           n == Len(objects) + 1
           handle == Begun("truncate", n, r, PayloadLen[d])
<1>1. /\ TypeOK /\ objects \in Seq(ObjectRecords) /\ Len(objects) \in Nat
      /\ link = 0 /\ refusals' = refusals
      /\ objects' = Append(objects, new) /\ link' = Len(objects')
      /\ r \in Nat /\ PayloadLen[d] \in Nat
  BY LenProperties, SegmentAssumption DEF SegmentInv, TypeOK, CreateOpen
<1>2. new \in ObjectRecords
  BY DEF ObjectRecords
<1>3. n \in Nat /\ "truncate" \in Places
  BY <1>1 DEF Places, Creating
<1> HIDE DEF n
<1>4. /\ handle \in ProcRecords
      /\ handle.at = "truncate" /\ handle.object = n
      /\ handle.owner = FALSE /\ handle.failed = FALSE
      /\ handle.revision = r /\ handle.length = PayloadLen[d]
  <2>1. r \in Nat /\ PayloadLen[d] \in Nat
    BY <1>1
  <2>2. handle \in ProcRecords
    BY <1>3, <2>1, BegunType
  <2> QED
    BY <2>2 DEF Begun, Outside
<1> HIDE DEF new
<1>5. /\ objects' \in Seq(ObjectRecords) /\ Len(objects') = n /\ link' = n
      /\ objects'[n] = new
      /\ \A i \in 1..Len(objects) : objects'[i] = objects[i]
  BY <1>1, <1>2, AppendProperties DEF n
<1>6. proc' = [proc EXCEPT ![p] = handle]
  BY <1>5 DEF CreateOpen, Begun
<1> HIDE DEF handle
<1>7. TypeOK'
  BY <1>1, <1>4, <1>5, <1>6 DEF TypeOK, n
<1>8. ASSUME NEW q \in Procs
      PROVE  Stage(q)' /\ Owns(q)' /\ Established(q)'
  <2>1. CASE q = p
    <3>1. proc'[q] = handle
      BY <1>1, <1>6, <2>1 DEF TypeOK
    <3>2. n \in 1..Len(objects') /\ n # 0
      BY <1>1, <1>5 DEF n
    <3>3. Stage(q)'
      BY <1>4, <3>1, <3>2 DEF Stage, At
    <3>4. Owns(q)'
      BY <1>4, <1>5, <2>1, <3>1, <3>2 DEF Owns, new
    <3>5. Established(q)'
      BY <1>4, <1>5, <3>1 DEF Established, Object, At, Handling, new
    <3> QED
      BY <3>3, <3>4, <3>5
  <2>2. CASE q # p
    <3>1. proc'[q] = proc[q]
      BY <1>1, <1>6, <2>2 DEF TypeOK
    <3>2. Stage(q) /\ Owns(q) /\ Established(q)
      BY DEF SegmentInv
    <3>3. ~WillUnlink(q)
      BY <1>1, <3>2 DEF Owns
    <3>4. Stage(q)' /\ Owns(q)'
      BY <1>1, <1>5, <3>1, <3>2, <3>3 DEF Stage, Owns, WillUnlink, At, n
    <3>5. CASE proc[q].at \notin {"none", "dead"}
      <4>1. objects'[proc[q].object] = objects[proc[q].object]
        BY <1>5, <3>2, <3>5 DEF Stage
      <4> QED
        BY <3>1, <3>2, <3>4, <4>1 DEF Established, Object, At
    <3>6. CASE proc[q].at \in {"none", "dead"}
      BY <3>1, <3>4, <3>6 DEF Established, At, Creating, Handling
    <3> QED
      BY <3>5, <3>6
  <2> QED
    BY <2>1, <2>2
<1>9. ASSUME NEW i \in 1..Len(objects')
      PROVE  Whole(i)'
  <2>1. CASE i = n
    BY <1>5, <2>1 DEF Whole, new
  <2>2. CASE i # n
    <3>1. i \in 1..Len(objects)
      BY <1>1, <1>5, <2>2 DEF n
    <3> QED
      BY <1>5, <3>1 DEF SegmentInv, Whole
  <2> QED
    BY <2>1, <2>2
<1>10. NoStaleName'
  <2>1. objects'[link'].by = p
    BY <1>5 DEF new
  <2>2. proc'[p].at = "truncate"
    BY <1>1, <1>4, <1>6 DEF TypeOK
  <2> QED
    BY <2>1, <2>2, AfterPlaces DEF NoStaleName, WillUnlink
<1> QED
  BY <1>7, <1>8, <1>9, <1>10 DEF SegmentInv

(* What is known of the process that takes a step, whatever it does. *)
LEMMA Known ==
  ASSUME SegmentInv, NEW p \in Procs
  PROVE  /\ proc \in [Procs -> ProcRecords] /\ proc[p] \in ProcRecords
         /\ Stage(p) /\ Owns(p) /\ Established(p)
         /\ objects \in Seq(ObjectRecords) /\ Len(objects) \in Nat
         /\ link \in Nat /\ link <= Len(objects) /\ refusals \in Nat
         /\ Outside \in ProcRecords /\ Dead \in ProcRecords
<1>1. Outside \in ProcRecords
  BY DEF Outside, ProcRecords, Places
<1>2. Dead \in ProcRecords
  BY <1>1 DEF Dead, ProcRecords, Places
<1> QED
  BY <1>1, <1>2 DEF SegmentInv, TypeOK

(* The handle of p ends, by itself or with the process. *)
LEMMA EndStep ==
  ASSUME SegmentInv, NEW p \in Procs, NEW as \in {Outside, Dead}, Ends(p, as),
         UNCHANGED <<link, objects>>, refusals' \in Nat,
         ~At(p, "dead"), WillUnlink(p) => as = Dead
  PROVE  SegmentInv'
<1>1. /\ Outside.at = "none" /\ Outside.owner = FALSE /\ Outside.failed = FALSE
      /\ Dead.at = "dead" /\ Dead.owner = FALSE /\ Dead.failed = FALSE
  BY DEF Outside, Dead
<1>2. as \in ProcRecords /\ proc' = [proc EXCEPT ![p] = as] /\ proc'[p] = as
  BY Known DEF Ends
<1>3. /\ proc'[p].at \in {"none", "dead"} /\ proc'[p].owner = FALSE
      /\ proc'[p].failed = FALSE
  <2>1. CASE as = Outside
    BY <1>1, <1>2, <2>1
  <2>2. CASE as = Dead
    BY <1>1, <1>2, <2>2
  <2> QED
    BY <2>1, <2>2
<1>4. ~WillUnlink(p)'
  BY <1>3, AfterPlaces DEF WillUnlink
<1>5. Stage(p)'
  BY <1>3 DEF Stage, At
<1>6. Established(p)'
  BY <1>3 DEF Established, At, Creating, Handling
<1>7. WillUnlink(p) => At(p, "dead")'
  BY <1>1, <1>2 DEF At
<1> QED
  BY <1>2, <1>4, <1>5, <1>6, <1>7, HandleStep DEF Owns

(* The calls of create. *)
LEMMA CreateSteps ==
  ASSUME SegmentInv, NEW p \in Procs,
         CreateCall(p) \/ CreateRefused(p) \/ (\E part \in Parts : Write(p, part)) \/ Publish(p)
  PROVE  SegmentInv'
<1>0. /\ proc \in [Procs -> ProcRecords] /\ proc[p] \in ProcRecords
      /\ Stage(p) /\ Owns(p) /\ Established(p)
      /\ objects \in Seq(ObjectRecords) /\ Len(objects) \in Nat /\ refusals \in Nat
  BY Known
<1>1. /\ proc[p].at \in Creating /\ WillUnlink(p)
      /\ proc[p].object \in 1..Len(objects) /\ Object(p) \in ObjectRecords
      /\ Object(p) = objects[proc[p].object]
      /\ proc[p].owner = FALSE /\ proc[p].failed = FALSE
  <2>1. proc[p].at \in Creating
    BY AfterPlaces DEF CreateCall, CreateRefused, Write, Publish, At, Creating
  <2>2. proc[p].object \in 1..Len(objects)
    BY <1>0, <2>1 DEF Stage, Creating
  <2>3. objects[proc[p].object] \in ObjectRecords
    BY <1>0, <2>2
  <2> QED
    BY <1>0, <2>1, <2>2, <2>3, AfterPlaces
    DEF WillUnlink, Creating, Object, Stage, At, ProcRecords
<1> USE AfterPlaces
<1>2. CASE CreateCall(p)
  <2> DEFINE handle == [proc[p] EXCEPT !.at = After[@], !.base = @ \/ At(p, "map")]
  <2>1. /\ proc' = [proc EXCEPT ![p].at = After[@], ![p].base = @ \/ At(p, "map")]
        /\ proc[p].at \in DOMAIN After /\ UNCHANGED <<link, refusals>>
    BY <1>2 DEF CreateCall
  <2>2. handle \in ProcRecords
    <3>1. After[proc[p].at] \in Places /\ (proc[p].base \/ At(p, "map")) \in BOOLEAN
      BY <2>1 DEF Places
    <3> QED
      BY <1>0, <3>1 DEF ProcRecords
  <2>3. proc' = [proc EXCEPT ![p] = handle]
    BY <1>0, <2>1
  <2>4. /\ handle.at \in Creating /\ handle.object = proc[p].object
        /\ handle.owner = FALSE /\ handle.failed = FALSE
        /\ handle.revision = proc[p].revision /\ handle.length = proc[p].length
    BY <1>0, <1>1, <2>1 DEF ProcRecords
  <2> HIDE DEF handle
  <2>5. proc'[p] = handle
    BY <1>0, <2>3
  <2>6. CASE At(p, "truncate")
    <3> DEFINE new == [Object(p) EXCEPT !.size = Header + proc[p].length]
    <3>1. objects' = [objects EXCEPT ![proc[p].object] = new]
      BY <1>0, <1>1, <1>2, <2>6 DEF CreateCall
    <3>2. /\ new \in ObjectRecords /\ new.by = Object(p).by /\ new.made = Object(p).made
          /\ new.revision = Object(p).revision /\ new.missing = Object(p).missing
      <4> DEFINE old == Object(p)
      <4>1. old \in ObjectRecords /\ Header + proc[p].length \in Nat
        BY <1>0, <1>1 DEF ProcRecords, Header
      <4> HIDE DEF old
      <4>2. [old EXCEPT !.size = Header + proc[p].length] \in ObjectRecords
        BY <4>1 DEF ObjectRecords
      <4> QED
        BY <4>1, <4>2 DEF old, ObjectRecords
    <3> HIDE DEF new
    <3>3. objects'[proc[p].object] = new /\ Len(objects') = Len(objects)
          /\ objects'[link].by = objects[link].by
      BY <1>0, <1>1, <3>1, <3>2, ExceptSeq DEF Owns
    <3>4. Object(p).revision = 0
      BY <1>0, <1>1 DEF Established
    <3>5. Stage(p)' /\ Owns(p)' /\ Established(p)' /\ WillUnlink(p)'
      BY <1>0, <1>1, <2>1, <2>4, <2>5, <3>2, <3>3
      DEF Stage, Owns, Established, WillUnlink, At, Object, Creating, Handling
    <3> QED
      BY <1>1, <2>1, <2>2, <2>3, <3>1, <3>2, <3>4, <3>5, ObjectStep
  <2>7. CASE ~At(p, "truncate")
    <3>1. objects' = objects
      BY <1>2, <2>7 DEF CreateCall
    <3>2. Stage(p)' /\ Owns(p)' /\ Established(p)' /\ WillUnlink(p)'
      BY <1>0, <1>1, <2>1, <2>4, <2>5, <3>1
      DEF Stage, Owns, Established, WillUnlink, At, Object, Creating, Handling
    <3> QED
      BY <1>0, <1>1, <2>1, <2>2, <2>3, <3>1, <3>2, HandleStep DEF At, Creating
  <2> QED
    BY <2>6, <2>7
<1>3. CASE CreateRefused(p)
  <2> DEFINE handle == [proc[p] EXCEPT !.at = "unlink", !.base = FALSE]
  <2>1. /\ proc' = [proc EXCEPT ![p].at = "unlink", ![p].base = FALSE]
        /\ UNCHANGED <<link, objects>> /\ refusals' \in Nat
    BY <1>0, <1>3 DEF CreateRefused, Refuse
  <2>2. handle \in ProcRecords
    BY <1>0 DEF ProcRecords, Places
  <2>3. proc' = [proc EXCEPT ![p] = handle]
    BY <1>0, <2>1
  <2>4. /\ handle.at = "unlink" /\ handle.object = proc[p].object
        /\ handle.owner = FALSE /\ handle.failed = FALSE
        /\ handle.revision = proc[p].revision
    BY <1>0, <1>1 DEF ProcRecords
  <2> HIDE DEF handle
  <2>5. proc'[p] = handle
    BY <1>0, <2>3
  <2>6. Stage(p)' /\ WillUnlink(p)'
    BY <1>0, <1>1, <2>1, <2>4, <2>5 DEF Stage, WillUnlink, At, Creating
  <2>7. Owns(p)' /\ Established(p)'
    BY <1>0, <1>1, <2>1, <2>4, <2>5 DEF Owns, Established, At, Creating, Handling
  <2>8. ~At(p, "dead")
    BY <1>1 DEF At, Creating
  <2> QED
    BY <2>1, <2>2, <2>3, <2>6, <2>7, <2>8, HandleStep
<1>4. ASSUME NEW part \in Parts, Write(p, part)
      PROVE  SegmentInv'
  <2> DEFINE old == objects[proc[p].object]
             new == [old EXCEPT !.missing = @ \ {part}]
             handle == proc[p]
  <2>1. /\ proc' = proc /\ At(p, "write") /\ UNCHANGED <<link, refusals>>
        /\ objects' = [objects EXCEPT ![proc[p].object].missing = @ \ {part}]
    BY <1>4 DEF Write
  <2>2. old \in ObjectRecords
    BY <1>1
  <2>3. objects' = [objects EXCEPT ![proc[p].object] = new]
    BY <1>0, <1>1, <2>1
  <2>4. old = Object(p)
    BY DEF Object
  <2> HIDE DEF old
  <2>5. /\ new \in ObjectRecords /\ new.by = old.by /\ new.made = old.made
        /\ new.revision = old.revision
    BY <2>2 DEF ObjectRecords
  <2> HIDE DEF new
  <2>6. old.revision = 0
    BY <1>0, <1>1, <2>4 DEF Established
  <2>7. objects'[proc[p].object] = new /\ Len(objects') = Len(objects)
        /\ objects'[link].by = objects[link].by
    BY <1>0, <1>1, <2>3, <2>4, <2>5, ExceptSeq DEF Owns
  <2>8. Stage(p)' /\ WillUnlink(p)'
    BY <1>0, <1>1, <2>1, <2>7 DEF Stage, WillUnlink, At
  <2>9. Owns(p)'
    BY <1>0, <1>1, <2>1, <2>7 DEF Owns
  <2>10. Established(p)'
    BY <1>0, <1>1, <2>1, <2>4, <2>5, <2>7
    DEF Established, At, Object, Creating, Handling
  <2>11. proc' = [proc EXCEPT ![p] = handle] /\ handle \in ProcRecords
    BY <1>0, <2>1
  <2> QED
    BY <1>1, <2>1, <2>3, <2>4, <2>5, <2>6, <2>8, <2>9, <2>10, <2>11, ObjectStep
<1>5. CASE Publish(p)
  <2> DEFINE old == objects[proc[p].object]
             new == [old EXCEPT !.revision = proc[p].revision]
             handle == [proc[p] EXCEPT !.at = "held", !.owner = TRUE]
  <2>1. /\ proc' = [proc EXCEPT ![p].at = "held", ![p].owner = TRUE]
        /\ Object(p).missing = {} /\ UNCHANGED <<link, refusals>>
        /\ objects' = [objects EXCEPT ![proc[p].object].revision = proc[p].revision]
    BY <1>5 DEF Publish, Released
  <2>2. old \in ObjectRecords
    BY <1>1
  <2>3. objects' = [objects EXCEPT ![proc[p].object] = new]
    BY <1>0, <1>1, <2>1
  <2>4. old = Object(p) /\ proc[p].revision \in Nat
    BY <1>0 DEF Object, ProcRecords
  <2> HIDE DEF old
  <2>5. /\ new \in ObjectRecords /\ new.by = old.by /\ new.made = old.made
        /\ new.revision = proc[p].revision /\ new.missing = old.missing
    BY <2>2, <2>4 DEF ObjectRecords
  <2> HIDE DEF new
  <2>6. handle \in ProcRecords
    BY <1>0 DEF ProcRecords, Places, Handling
  <2>7. proc' = [proc EXCEPT ![p] = handle]
    BY <1>0, <2>1
  <2>8. /\ handle.at = "held" /\ handle.object = proc[p].object
        /\ handle.owner = TRUE /\ handle.failed = FALSE
        /\ handle.revision = proc[p].revision /\ handle.length = proc[p].length
    BY <1>0, <1>1 DEF ProcRecords
  <2> HIDE DEF handle
  <2>9. proc'[p] = handle
    BY <1>0, <2>7
  <2>10. objects'[proc[p].object] = new /\ Len(objects') = Len(objects)
         /\ objects'[link].by = objects[link].by
    BY <1>0, <1>1, <2>3, <2>4, <2>5, ExceptSeq DEF Owns
  <2>11. Stage(p)' /\ WillUnlink(p)'
    BY <1>0, <1>1, <2>8, <2>9, <2>10 DEF Stage, WillUnlink, At, Creating
  <2>12. Owns(p)'
    BY <1>0, <1>1, <2>1, <2>8, <2>9, <2>10 DEF Owns
  <2>13. Object(p)' = new
    BY <2>8, <2>9, <2>10 DEF Object
  <2>14. PayloadLen[old.made] = proc[p].length
    BY <1>0, <1>1, <2>4 DEF Established
  <2>15. Established(p)'
    BY <2>1, <2>4, <2>5, <2>8, <2>9, <2>13, <2>14 DEF Established, At, Creating, Handling
  <2>16. new.revision # 0 => new.missing = {}
    BY <2>1, <2>4, <2>5
  <2> QED
    BY <1>1, <2>1, <2>3, <2>4, <2>5, <2>6, <2>7, <2>11, <2>12, <2>15, <2>16, ObjectStep
<1> QED
  BY <1>2, <1>3, <1>4, <1>5

(* An opener never has the name to unlink. *)
LEMMA OpenOwns ==
  ASSUME SegmentInv, NEW p \in Procs, proc[p].at \in Opening
  PROVE  ~WillUnlink(p) /\ ~At(p, "dead")
BY Known, AfterPlaces DEF WillUnlink, Stage, Opening, At

(* The calls and checks of open. *)
LEMMA OpenSteps ==
  ASSUME SegmentInv, NEW p \in Procs,
         \/ \E r \in Revisions, n \in Lengths : Open(p, r, n)
         \/ OpenStep(p)
         \/ OpenRefused(p)
  PROVE  SegmentInv'
<1>0. /\ proc \in [Procs -> ProcRecords] /\ proc[p] \in ProcRecords
      /\ Stage(p) /\ Owns(p) /\ Established(p)
      /\ objects \in Seq(ObjectRecords) /\ Len(objects) \in Nat
      /\ link \in Nat /\ link <= Len(objects) /\ refusals \in Nat
  BY Known
<1>1. ASSUME NEW r \in Revisions, NEW n \in Lengths, Open(p, r, n)
      PROVE  SegmentInv'
  <2> DEFINE handle == Begun("stat", link, r, n)
  <2>1. /\ At(p, "none") /\ link # 0 /\ UNCHANGED <<link, objects, refusals>>
        /\ proc' = [proc EXCEPT ![p] = handle]
    BY <1>1 DEF Open, Begun
  <2>2. r \in Nat /\ n \in Nat /\ "stat" \in Places
    BY SegmentAssumption DEF Lengths, Places, Opening
  <2>3. handle \in ProcRecords
    BY <1>0, <2>2, BegunType
  <2>4. /\ handle.at = "stat" /\ handle.object = link
        /\ handle.owner = FALSE /\ handle.failed = FALSE /\ handle.revision = r
    BY <2>3 DEF Begun, Outside
  <2> HIDE DEF handle
  <2>5. proc'[p] = handle
    BY <1>0, <2>1
  <2>6. Stage(p)'
    BY <1>0, <2>1, <2>4, <2>5 DEF Stage, At
  <2>7. ~WillUnlink(p)'
    BY <2>4, <2>5, AfterPlaces DEF WillUnlink
  <2>8. Established(p)'
    BY <2>4, <2>5 DEF Established, At, Creating, Handling
  <2>9. ~WillUnlink(p) /\ ~At(p, "dead")
    BY <1>0, <2>1, AfterPlaces DEF WillUnlink, At, Stage
  <2> QED
    BY <1>0, <2>1, <2>3, <2>6, <2>7, <2>8, <2>9, HandleStep DEF Owns
<1>2. ASSUME NEW handle \in ProcRecords, proc' = [proc EXCEPT ![p] = handle],
             UNCHANGED <<link, objects>>, refusals' \in Nat,
             proc[p].at \in Opening,
             handle.at \in Opening \cup {"held"},
             handle.object = proc[p].object, handle.owner = FALSE, handle.failed = FALSE,
             handle.revision = proc[p].revision, handle.length = proc[p].length,
             handle.at = "format" => RevisionAgrees(p),
             handle.at = "held" => At(p, "format") /\ FormatAgrees(p)
      PROVE  SegmentInv'
  <2>1. proc'[p] = handle
    BY <1>0, <1>2
  <2>2. proc[p].object \in 1..Len(objects) /\ proc[p].revision \in Revisions
    BY <1>0, <1>2 DEF Stage, Opening
  <2>3. Stage(p)'
    BY <1>2, <2>1, <2>2 DEF Stage, At, Opening
  <2>4. ~WillUnlink(p)'
    BY <1>2, <2>1, AfterPlaces DEF WillUnlink, Opening
  <2>5. Object(p)' = Object(p)
    BY <1>2, <2>1 DEF Object
  <2>6. CASE handle.at = "held"
    <3> DEFINE o == proc[p].object
    <3>1. /\ objects[o].revision = proc[p].revision /\ objects[o].revision # 0
          /\ Whole(o)
      BY <1>0, <1>2, <2>2, <2>6, SegmentAssumption DEF Established, Object, SegmentInv
    <3>2. objects[o].missing = {}
      BY <3>1 DEF Whole
    <3>3. Stored(objects[o]) = PayloadLen[objects[o].made]
      BY <3>2 DEF Stored
    <3>4. Stored(objects[o]) = proc[p].length
      BY <1>2, <2>6 DEF FormatAgrees, Object
    <3>5. /\ objects'[proc'[p].object] = objects[o]
          /\ proc'[p].revision = proc[p].revision /\ proc'[p].length = proc[p].length
      BY <1>2, <2>1
    <3>6. Established(p)'
      BY <2>1, <2>6, <3>1, <3>2, <3>3, <3>4, <3>5
      DEF Established, At, Object, Creating, Handling
    <3> QED
      BY <1>2, <2>3, <2>4, <2>6, <3>6, HandleStep, OpenOwns DEF Owns
  <2>7. CASE handle.at # "held"
    <3>1. Established(p)'
      BY <1>2, <2>1, <2>5, <2>7
      DEF Established, At, Creating, Handling, Opening, RevisionAgrees
    <3> QED
      BY <1>2, <2>3, <2>4, <3>1, HandleStep, OpenOwns DEF Owns
  <2> QED
    BY <2>6, <2>7
<1>3. ASSUME NEW place \in Opening \cup {"held"}, Goes(p, place),
             UNCHANGED <<link, objects>>, refusals' \in Nat,
             proc[p].at \in Opening,
             place = "format" => RevisionAgrees(p),
             place = "held" => At(p, "format") /\ FormatAgrees(p)
      PROVE  SegmentInv'
  <2> DEFINE handle == [proc[p] EXCEPT !.at = place]
  <2>1. handle \in ProcRecords
    BY <1>0 DEF ProcRecords, Places, Handling
  <2>2. proc' = [proc EXCEPT ![p] = handle]
    BY <1>0, <1>3 DEF Goes
  <2>3. /\ handle.at = place /\ handle.object = proc[p].object
        /\ handle.owner = FALSE /\ handle.failed = FALSE
        /\ handle.revision = proc[p].revision /\ handle.length = proc[p].length
    BY <1>0, <1>3 DEF ProcRecords, Stage, Opening, At
  <2> HIDE DEF handle
  <2> QED
    BY <1>2, <1>3, <2>1, <2>2, <2>3
<1>4. CASE OpenRefused(p)
  <2>1. /\ Goes(p, "leave") /\ UNCHANGED <<link, objects>> /\ refusals' \in Nat
        /\ proc[p].at \in Opening
    BY <1>0, <1>4 DEF OpenRefused, Refuse, Opening
  <2> QED
    BY <1>3, <2>1 DEF Opening
<1>5. CASE OpenStep(p)
  <2>1. UNCHANGED <<link, objects>> /\ refusals' \in Nat
    BY <1>0, <1>5 DEF OpenStep
  <2>2. CASE At(p, "stat") /\ Goes(p, IF SizeAgrees(p) THEN "openmap" ELSE "leave")
    BY <1>3, <2>1, <2>2 DEF Opening, At
  <2>3. CASE At(p, "openmap") /\ proc' = [proc EXCEPT ![p].at = "openclose", ![p].base = TRUE]
    <3> DEFINE handle == [proc[p] EXCEPT !.at = "openclose", !.base = TRUE]
    <3>1. handle \in ProcRecords
      BY <1>0 DEF ProcRecords, Places, Opening
    <3>2. proc' = [proc EXCEPT ![p] = handle]
      BY <1>0, <2>3
    <3>3. /\ handle.at = "openclose" /\ handle.object = proc[p].object
          /\ handle.owner = FALSE /\ handle.failed = FALSE
          /\ handle.revision = proc[p].revision /\ handle.length = proc[p].length
      BY <1>0, <2>3 DEF ProcRecords, Stage, At
    <3>4. proc[p].at \in Opening /\ handle.at \in Opening
      BY <2>3, <3>3 DEF Opening, At
    <3> HIDE DEF handle
    <3> QED
      BY <1>2, <2>1, <3>1, <3>2, <3>3, <3>4
  <2>4. CASE At(p, "openclose") /\ Goes(p, "acquire")
    BY <1>3, <2>1, <2>4 DEF Opening, At
  <2>5. CASE At(p, "acquire") /\ Goes(p, IF RevisionAgrees(p) THEN "format" ELSE "leave")
    BY <1>3, <2>1, <2>5 DEF Opening, At
  <2>6. CASE At(p, "format") /\ Goes(p, IF FormatAgrees(p) THEN "held" ELSE "leave")
    BY <1>3, <2>1, <2>6 DEF Opening, At
  <2>7. CASE At(p, "leave") /\ Ends(p, Outside)
    <3>1. ~WillUnlink(p) /\ ~At(p, "dead")
      BY <2>7, OpenOwns DEF Opening, At
    <3> QED
      BY <2>1, <2>7, <3>1, EndStep
  <2> QED
    BY <1>5, <2>2, <2>3, <2>4, <2>5, <2>6, <2>7 DEF OpenStep
<1> QED
  BY <1>1, <1>4, <1>5

(* The handle: detach, retire and drop. *)
LEMMA HeldSteps ==
  ASSUME SegmentInv, NEW p \in Procs,
         \/ Detach(p) \/ DetachRefused(p) \/ Retire(p) \/ RetireUnlink(p)
         \/ RetireRefused(p) \/ Drop(p)
  PROVE  SegmentInv'
<1>0. /\ proc \in [Procs -> ProcRecords] /\ proc[p] \in ProcRecords
      /\ Stage(p) /\ Owns(p) /\ Established(p)
      /\ objects \in Seq(ObjectRecords) /\ Len(objects) \in Nat
      /\ link \in Nat /\ link <= Len(objects) /\ refusals \in Nat
  BY Known
<1>1. /\ proc[p].at \in Handling /\ ~At(p, "dead")
      /\ proc[p].object \in 1..Len(objects) /\ proc[p].revision \in Revisions
      /\ Object(p).missing = {} /\ Object(p).revision = proc[p].revision
      /\ PayloadLen[Object(p).made] = proc[p].length
  <2>1. proc[p].at \in Handling
    BY DEF Detach, DetachRefused, Retire, RetireUnlink, RetireRefused, Drop, At, Handling
  <2> QED
    BY <1>0, <2>1 DEF Stage, Established, Handling, At
(* A step that leaves the name alone: what it makes of the flags. *)
<1>2. ASSUME NEW handle \in ProcRecords, proc' = [proc EXCEPT ![p] = handle],
             UNCHANGED <<link, objects>>, refusals' \in Nat,
             handle.at \in {"held", "retire", "unlink"},
             handle.owner = proc[p].owner,
             handle.at # "held" => handle.owner,
             handle.failed => handle.at = "held",
             handle.object = proc[p].object, handle.revision = proc[p].revision,
             handle.length = proc[p].length
      PROVE  SegmentInv'
  <2>1. proc'[p] = handle
    BY <1>0, <1>2
  <2>2. Stage(p)'
    BY <1>1, <1>2, <2>1 DEF Stage, At
  <2>3. Object(p)' = Object(p)
    BY <1>2, <2>1 DEF Object
  <2>4. Established(p)'
    BY <1>1, <1>2, <2>1, <2>3 DEF Established, At, Creating, Handling
  <2>5. WillUnlink(p)' <=> WillUnlink(p)
    BY <1>1, <1>2, <2>1, AfterPlaces DEF WillUnlink, Handling
  <2>6. Owns(p)'
    BY <1>0, <1>2, <2>1, <2>5 DEF Owns
  <2> QED
    BY <1>1, <1>2, <2>2, <2>4, <2>5, <2>6, HandleStep
<1>3. CASE Detach(p)
  <2> DEFINE handle == [proc[p] EXCEPT !.base = FALSE]
  <2>1. At(p, "held") /\ UNCHANGED <<link, objects, refusals>>
    BY <1>3 DEF Detach
  <2>2. proc' = [proc EXCEPT ![p] = handle]
    BY <1>0, <1>3 DEF Detach
  <2>3. handle \in ProcRecords
    BY <1>0 DEF ProcRecords
  <2>4. /\ handle.at = "held" /\ handle.owner = proc[p].owner
        /\ handle.object = proc[p].object /\ handle.revision = proc[p].revision
        /\ handle.length = proc[p].length
    BY <1>0, <2>1 DEF ProcRecords, At
  <2> HIDE DEF handle
  <2> QED
    BY <1>0, <1>2, <2>1, <2>2, <2>3, <2>4
<1>4. CASE DetachRefused(p)
  <2> DEFINE handle == [proc[p] EXCEPT !.failed = TRUE]
  <2>1. At(p, "held") /\ UNCHANGED <<link, objects>> /\ refusals' \in Nat
    BY <1>0, <1>4 DEF DetachRefused, Refuse
  <2>2. proc' = [proc EXCEPT ![p] = handle]
    BY <1>0, <1>4 DEF DetachRefused
  <2>3. handle \in ProcRecords
    BY <1>0 DEF ProcRecords
  <2>4. /\ handle.at = "held" /\ handle.owner = proc[p].owner
        /\ handle.object = proc[p].object /\ handle.revision = proc[p].revision
        /\ handle.length = proc[p].length
    BY <1>0, <2>1 DEF ProcRecords, At
  <2> HIDE DEF handle
  <2> QED
    BY <1>2, <2>1, <2>2, <2>3, <2>4
<1>5. CASE Retire(p)
  <2> DEFINE handle == [proc[p] EXCEPT !.at = "retire", !.base = FALSE]
  <2>1. /\ UNCHANGED <<link, objects, refusals>> /\ proc[p].owner
        /\ proc[p].failed = FALSE
    BY <1>0, <1>5 DEF Retire, MayCleanUp, ProcRecords
  <2>2. proc' = [proc EXCEPT ![p] = handle]
    BY <1>0, <1>5 DEF Retire
  <2>3. handle \in ProcRecords
    BY <1>0 DEF ProcRecords, Places, Handling
  <2>4. /\ handle.at = "retire" /\ handle.owner = proc[p].owner
        /\ handle.failed = FALSE
        /\ handle.object = proc[p].object /\ handle.revision = proc[p].revision
        /\ handle.length = proc[p].length
    BY <1>0, <2>1 DEF ProcRecords
  <2> HIDE DEF handle
  <2> QED
    BY <1>0, <1>2, <2>1, <2>2, <2>3, <2>4
<1>6. CASE RetireUnlink(p)
  <2> DEFINE handle == [proc[p] EXCEPT !.at = "held", !.owner = FALSE]
  <2>1. At(p, "retire") /\ proc[p].owner /\ proc[p].failed = FALSE
    BY <1>0, <1>6 DEF RetireUnlink, Stage, At, ProcRecords
  <2>2. WillUnlink(p) /\ link # 0
    BY <1>0, <2>1 DEF WillUnlink, Owns
  <2>3. /\ proc' = [proc EXCEPT ![p].at = "held", ![p].owner = FALSE]
        /\ link' = 0 /\ UNCHANGED <<objects, refusals>>
    BY <1>6, <2>2 DEF RetireUnlink, Disowned
  <2>4. proc' = [proc EXCEPT ![p] = handle]
    BY <1>0, <2>3
  <2>5. handle \in ProcRecords
    BY <1>0 DEF ProcRecords, Places, Handling
  <2>6. /\ handle.at = "held" /\ handle.owner = FALSE /\ handle.failed = FALSE
        /\ handle.object = proc[p].object /\ handle.revision = proc[p].revision
        /\ handle.length = proc[p].length
    BY <1>0, <2>1 DEF ProcRecords
  <2> HIDE DEF handle
  <2>7. proc'[p] = handle
    BY <1>0, <2>4
  <2>8. Stage(p)'
    BY <1>1, <2>3, <2>6, <2>7 DEF Stage, At
  <2>9. ~WillUnlink(p)'
    BY <2>6, <2>7, AfterPlaces DEF WillUnlink
  <2>10. Object(p)' = Object(p)
    BY <2>3, <2>6, <2>7 DEF Object
  <2>11. Established(p)'
    BY <1>1, <2>6, <2>7, <2>10 DEF Established, At, Creating, Handling
  <2> QED
    BY <2>2, <2>3, <2>4, <2>5, <2>8, <2>9, <2>11, UnlinkStep
<1>7. CASE RetireRefused(p)
  <2> DEFINE handle == [proc[p] EXCEPT !.at = "held", !.failed = TRUE]
  <2>1. UNCHANGED <<link, objects>> /\ refusals' \in Nat
    BY <1>0, <1>7 DEF RetireRefused, Refuse
  <2>2. proc' = [proc EXCEPT ![p] = handle]
    BY <1>0, <1>7 DEF RetireRefused
  <2>3. handle \in ProcRecords
    BY <1>0 DEF ProcRecords, Places, Handling
  <2>4. /\ handle.at = "held" /\ handle.owner = proc[p].owner
        /\ handle.object = proc[p].object /\ handle.revision = proc[p].revision
        /\ handle.length = proc[p].length
    BY <1>0 DEF ProcRecords
  <2> HIDE DEF handle
  <2> QED
    BY <1>2, <2>1, <2>2, <2>3, <2>4
<1>8. CASE Drop(p)
  <2>1. At(p, "held") /\ UNCHANGED <<link, objects, refusals>>
    BY <1>8 DEF Drop
  <2>2. CASE proc[p].failed
    BY <1>0, <1>1, <1>8, <2>1, <2>2, EndStep DEF Drop
  <2>3. CASE ~proc[p].failed /\ ~proc[p].owner
    <3>1. ~WillUnlink(p)
      BY <2>1, <2>3, AfterPlaces DEF WillUnlink, At
    <3> QED
      BY <1>0, <1>1, <1>8, <2>1, <2>3, <3>1, EndStep DEF Drop
  <2>4. CASE ~proc[p].failed /\ proc[p].owner
    <3> DEFINE handle == [proc[p] EXCEPT !.at = "unlink", !.base = FALSE]
    <3>1. proc' = [proc EXCEPT ![p] = handle]
      BY <1>0, <1>8, <2>4 DEF Drop
    <3>2. handle \in ProcRecords
      BY <1>0 DEF ProcRecords, Places
    <3>3. /\ handle.at = "unlink" /\ handle.owner = proc[p].owner
          /\ handle.failed = proc[p].failed
          /\ handle.object = proc[p].object /\ handle.revision = proc[p].revision
          /\ handle.length = proc[p].length
      BY <1>0 DEF ProcRecords
    <3> HIDE DEF handle
    <3> QED
      BY <1>0, <1>2, <2>1, <2>4, <3>1, <3>2, <3>3
  <2> QED
    BY <2>2, <2>3, <2>4
<1> QED
  BY <1>3, <1>4, <1>5, <1>6, <1>7, <1>8

(* The cleanups that must not fail, and the death of a process. *)
LEMMA LastSteps ==
  ASSUME SegmentInv, NEW p \in Procs,
         \/ Unlink(p)
         \/ \E place \in {"unlink", "leave"} : AbortAt(p, place)
         \/ Crash(p)
  PROVE  SegmentInv'
<1>0. /\ proc \in [Procs -> ProcRecords] /\ Stage(p) /\ Owns(p) /\ refusals \in Nat
      /\ Outside \in ProcRecords
  BY Known
<1>1. CASE Unlink(p)
  <2>1. At(p, "unlink") /\ WillUnlink(p) /\ link # 0
    BY <1>0, <1>1 DEF Unlink, WillUnlink, At, Owns
  <2>2. /\ proc' = [proc EXCEPT ![p] = Outside]
        /\ link' = 0 /\ UNCHANGED <<objects, refusals>>
    BY <1>1, <2>1 DEF Unlink, Ends, LinkRemoved
  <2>3. proc'[p] = Outside
    BY <1>0, <2>2
  <2>4. proc'[p].at = "none" /\ proc'[p].owner = FALSE /\ proc'[p].failed = FALSE
    BY <2>3 DEF Outside
  <2>5. Stage(p)'
    BY <2>4 DEF Stage, At
  <2>6. ~WillUnlink(p)'
    BY <2>4, AfterPlaces DEF WillUnlink
  <2>7. Established(p)'
    BY <2>4 DEF Established, At, Creating, Handling
  <2> QED
    BY <1>0, <2>1, <2>2, <2>5, <2>6, <2>7, UnlinkStep
<1>2. CASE \E place \in {"unlink", "leave"} : AbortAt(p, place)
  <2>1. ~At(p, "dead") /\ Ends(p, Dead) /\ UNCHANGED <<link, objects>> /\ refusals' \in Nat
    BY <1>0, <1>2 DEF AbortAt, Refuse, At
  <2> QED
    BY <2>1, EndStep
<1>3. CASE Crash(p)
  <2>1. ~At(p, "dead") /\ Ends(p, Dead) /\ UNCHANGED <<link, objects>> /\ refusals' \in Nat
    BY <1>0, <1>3 DEF Crash, Refuse, At
  <2> QED
    BY <2>1, EndStep
<1> QED
  BY <1>1, <1>2, <1>3

-----------------------------------------------------------------------------
(* SegmentInv is inductive. *)
LEMMA SegmentInvariant == Spec => []SegmentInv
<1>1. Init => SegmentInv
  <2> SUFFICES ASSUME Init PROVE SegmentInv
    OBVIOUS
  <2>1. Outside \in ProcRecords
    BY DEF Outside, ProcRecords, Places
  <2>2. TypeOK
    BY <2>1 DEF Init, TypeOK
  <2>3. ASSUME NEW p \in Procs
        PROVE  Stage(p) /\ Owns(p) /\ Established(p)
    <3>1. proc[p].at = "none" /\ proc[p].owner = FALSE /\ proc[p].failed = FALSE
      BY DEF Init, Outside
    <3>2. ~WillUnlink(p)
      BY <3>1, AfterPlaces DEF WillUnlink
    <3>3. Stage(p) /\ Established(p)
      BY <3>1 DEF Stage, Established, At, Creating, Handling
    <3> QED
      BY <3>2, <3>3 DEF Owns
  <2>4. (\A o \in 1..Len(objects) : Whole(o)) /\ NoStaleName
    BY DEF Init, NoStaleName
  <2> QED
    BY <2>2, <2>3, <2>4 DEF SegmentInv
<1>2. SegmentInv /\ [Next]_vars => SegmentInv'
  <2> SUFFICES ASSUME SegmentInv, [Next]_vars PROVE SegmentInv'
    OBVIOUS
  <2>1. CASE Next
    <3> PICK p \in Procs :
          \/ \E r \in Revisions, d \in Payloads : CreateOpen(p, r, d)
          \/ CreateCall(p) \/ CreateRefused(p)
          \/ \E part \in Parts : Write(p, part)
          \/ Publish(p)
          \/ \E r \in Revisions, n \in Lengths : Open(p, r, n)
          \/ OpenStep(p) \/ OpenRefused(p)
          \/ Detach(p) \/ DetachRefused(p) \/ Retire(p) \/ RetireUnlink(p)
          \/ RetireRefused(p) \/ Drop(p) \/ Unlink(p)
          \/ \E place \in {"unlink", "leave"} : AbortAt(p, place)
          \/ Crash(p)
      BY <2>1 DEF Next
    <3> QED
      BY CreateOpenStep, CreateSteps, OpenSteps, HeldSteps, LastSteps
  <2>2. CASE UNCHANGED vars
    BY <2>2 DEF vars, SegmentInv, TypeOK, Stage, Owns, Established, Whole, NoStaleName,
                WillUnlink, At, Object
  <2> QED
    BY <2>1, <2>2
<1> QED
  BY <1>1, <1>2, PTL DEF Spec

(* What a process holds and maps is one whole publication, the one it      *)
(* asked for: src/src/segment.rs's open checks a revision that create      *)
(* stores last, and no later step of any process touches that object.      *)
THEOREM PublishedWholeTheorem == Spec => []PublishedWhole
<1>1. SegmentInv => PublishedWhole
  BY DEF SegmentInv, PublishedWhole, Established, At, Handling
<1> QED
  BY <1>1, SegmentInvariant, PTL

(* Whoever is to unlink the name finds its own object there: create takes  *)
(* the name exclusively, and nobody else removes it meanwhile.             *)
THEOREM UnlinksOwnTheorem == Spec => []UnlinksOwn
<1>1. SegmentInv => UnlinksOwn
  BY DEF SegmentInv, UnlinksOwn, Owns
<1> QED
  BY <1>1, SegmentInvariant, PTL

(* A name that is left behind belongs to a process that died: a failed     *)
(* create, a retire and a drop all free it.                                *)
THEOREM NoStaleNameTheorem == Spec => []NoStaleName
<1>1. SegmentInv => NoStaleName
  BY DEF SegmentInv
<1> QED
  BY <1>1, SegmentInvariant, PTL

(* A refused cleanup is neither retried nor hidden: the handle stays as it *)
(* is until drop aborts the process, or the process is killed.             *)
THEOREM FailureIsFinalTheorem == Spec => FailureIsFinal
<1>1. SegmentInv /\ [Next]_vars =>
        [\A p \in Procs : proc[p].failed => proc'[p] = proc[p] \/ proc'[p] = Dead]_vars
  <2> SUFFICES ASSUME SegmentInv, Next, NEW q \in Procs, proc[q].failed
               PROVE  proc'[q] = proc[q] \/ proc'[q] = Dead
    OBVIOUS
  <2>1. At(q, "held") /\ proc \in [Procs -> ProcRecords]
    BY Known DEF Stage
  <2>2. PICK p \in Procs :
          \/ \E r \in Revisions, d \in Payloads : CreateOpen(p, r, d)
          \/ CreateCall(p) \/ CreateRefused(p)
          \/ \E part \in Parts : Write(p, part)
          \/ Publish(p)
          \/ \E r \in Revisions, n \in Lengths : Open(p, r, n)
          \/ OpenStep(p) \/ OpenRefused(p)
          \/ Detach(p) \/ DetachRefused(p) \/ Retire(p) \/ RetireUnlink(p)
          \/ RetireRefused(p) \/ Drop(p) \/ Unlink(p)
          \/ \E place \in {"unlink", "leave"} : AbortAt(p, place)
          \/ Crash(p)
    BY DEF Next
  <2>3. CASE p # q
    BY <2>1, <2>2, <2>3
    DEF CreateOpen, CreateCall, CreateRefused, Write, Publish, Open, OpenStep, OpenRefused,
        Detach, DetachRefused, Retire, RetireUnlink, RetireRefused, Drop, Unlink, AbortAt,
        Crash, Goes, Ends
  <2>4. CASE p = q
    <3>1. Drop(q) \/ Crash(q)
      BY <2>1, <2>2, <2>4, AfterPlaces
      DEF CreateOpen, CreateCall, CreateRefused, Write, Publish, Open, OpenStep, OpenRefused,
          Detach, DetachRefused, Retire, RetireUnlink, RetireRefused, Unlink, AbortAt,
          At, MayCleanUp
    <3> QED
      BY <2>1, <3>1 DEF Drop, Crash, Ends
  <2> QED
    BY <2>3, <2>4
<1> QED
  BY <1>1, SegmentInvariant, PTL DEF Spec, FailureIsFinal
=============================================================================
