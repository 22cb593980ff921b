------------------------------ MODULE RingSetup ------------------------------
(***************************************************************************)
(* The construction and the closing of a Ring across the ranks: Ring::new  *)
(* and agree (src/src/ring.rs) with Window::allocate, close and drop       *)
(* (src/src/window.rs).  A rank goes through a fixed series of collective  *)
(* operations; between two of them it decides, from what it gathered, to   *)
(* go on or to return an error.  A collective lets a rank through when     *)
(* every rank has entered it, so a rank that returns alone leaves the      *)
(* others waiting: what matters is that the decisions are the same.        *)
(***************************************************************************)
EXTENDS Integers, Sequences

CONSTANTS
  Ranks,      (* The ranks of the communicator.                            *)
  Leader,     (* One of them.                                              *)
  Configs,    (* Sorted configurations a rank may be given.                *)
  Lanes,      (* Lanes[c]: how many lanes configuration c has.             *)
  Valid,      (* Valid[c]: c passes the checks on its lanes.               *)
  Fits,       (* Fits[c]: the ranks whose slots, as c lays them out, take  *)
              (* no more bytes than an MPI_Aint can count.                 *)
  MaxFaults   (* Bound on failures of single ranks.                        *)

ASSUME SetupAssumption ==
  /\ Leader \in Ranks
  /\ Lanes \in [Configs -> Nat] /\ Valid \in [Configs -> BOOLEAN]
  /\ Fits \in [Configs -> SUBSET Ranks] /\ MaxFaults \in Nat

VARIABLES
  config, safe, (* What each rank was asked to build.                      *)
  threaded,   (* Whether its MPI provides MPI_THREAD_MULTIPLE.             *)
  unified,    (* Whether its windows have the unified memory model.        *)
  entered,    (* How many collectives it has entered.                      *)
  status,     (* "in" the last of them, "past" it, "leaving" the epoch of  *)
              (* a window or "freeing" it, or what it ended with: "ring",  *)
              (* "error", "closed", or "unclosed" when close failed.       *)
  windows,    (* The windows it has made, in order.                        *)
  freeing,    (* The windows it is to free, in order.                      *)
  left,       (* The windows whose collective free it has entered.         *)
  kept,       (* The windows whose epoch it could not leave, or that it    *)
              (* could not free.                                           *)
  freed,      (* The windows it has freed.                                 *)
  faults      (* Failures so far.                                          *)

vars == <<config, safe, threaded, unified, entered, status, windows, freeing,
          left, kept, freed, faults>>

given == <<config, safe, threaded, unified>>

-----------------------------------------------------------------------------
(* The collectives of a construction; each but the first two and the last  *)
(* belongs to a window.                                                    *)
Making(w) == <<<<"lengths", w>>, <<"allocate", w>>, <<"barrier", w>>>>

Plan(r) ==
  <<<<"counts", "none">>, <<"rows", "none">>>> \o Making("slots")
    \o (IF safe[r] THEN Making("acks") ELSE <<>>) \o <<<<"models", "none">>>>

Where(r)  == Plan(r)[entered[r]][1]
Window(r) == Plan(r)[entered[r]][2]

(* The rank has come out of its collective of that name. *)
Past(r, name) == status[r] = "past" /\ Where(r) = name

Init ==
  /\ config \in [Ranks -> Configs] /\ safe \in [Ranks -> BOOLEAN]
  /\ threaded \in [Ranks -> BOOLEAN] /\ unified \in [Ranks -> BOOLEAN]
  /\ entered = [r \in Ranks |-> 1] /\ status = [r \in Ranks |-> "in"]
  /\ windows = [r \in Ranks |-> <<>>] /\ freeing = [r \in Ranks |-> <<>>]
  /\ left = [r \in Ranks |-> {}] /\ kept = [r \in Ranks |-> {}]
  /\ freed = [r \in Ranks |-> {}] /\ faults = 0

Through(r) ==
  /\ status[r] = "in" /\ \A q \in Ranks : entered[q] >= entered[r]
  /\ status' = [status EXCEPT ![r] = "past"]
  /\ UNCHANGED <<given, entered, windows, freeing, left, kept, freed, faults>>

(* The rank enters its next collective. *)
GoOn(r) ==
  /\ entered' = [entered EXCEPT ![r] = @ + 1]
  /\ status' = [status EXCEPT ![r] = "in"]
  /\ UNCHANGED freeing

(* The rank is to finish the given windows one after the other, or has     *)
(* none to finish and ends.                                                *)
Finish(r, ws, end) ==
  /\ freeing' = [freeing EXCEPT ![r] = ws]
  /\ status' = [status EXCEPT ![r] = IF ws = <<>> THEN end ELSE "leaving"]
  /\ UNCHANGED entered

(* Errors drop the windows made so far, the last one first. *)
Reversed(ws) == [i \in DOMAIN ws |-> ws[Len(ws) + 1 - i]]

Fails(r) == Finish(r, Reversed(windows[r]), "error")

-----------------------------------------------------------------------------
(* Ring::agree *)

CountsLikeLeader(r) == Lanes[config[Leader]] = Lanes[config[r]]

CountsAgree(r) == \A q \in Ranks : Lanes[config[q]] = Lanes[config[r]]

LanesAgree(r) == \A q \in Ranks : config[q] = config[r]

RowsAgree(r) == \A q \in Ranks : config[q] = config[r] /\ safe[q] = safe[r]

Counts(r) ==
  /\ Past(r, "counts")
  /\ IF CountsAgree(r) THEN GoOn(r) ELSE Fails(r)
  /\ UNCHANGED <<given, windows, left, kept, freed, faults>>

(* The rest of `new` up to the first allocation depends on nothing but the *)
(* configuration; the allocation begins by refusing less than              *)
(* MPI_THREAD_MULTIPLE.                                                    *)
Rows(r) ==
  /\ Past(r, "rows")
  /\ IF RowsAgree(r) /\ Valid[config[r]] /\ threaded[r] THEN GoOn(r) ELSE Fails(r)
  /\ UNCHANGED <<given, windows, left, kept, freed, faults>>

(* Window::allocate gathers the lengths of all ranks and refuses them if   *)
(* one is out of range; the counters of the acks, which are as many as the *)
(* lanes, never are.                                                       *)
LengthsFit(r) == Window(r) = "slots" => \A q \in Ranks : q \in Fits[config[q]]

Lengths(r) ==
  /\ Past(r, "lengths")
  /\ IF LengthsFit(r) THEN GoOn(r) ELSE Fails(r)
  /\ UNCHANGED <<given, windows, left, kept, freed, faults>>

(* Then it allocates, starts the epoch, and meets the others. *)
Allocate(r) ==
  /\ Past(r, "allocate")
  /\ GoOn(r)
  /\ UNCHANGED <<given, windows, left, kept, freed, faults>>

Allocated(r) ==
  /\ Past(r, "barrier")
  /\ windows' = [windows EXCEPT ![r] = Append(@, Window(r))]
  /\ GoOn(r)
  /\ UNCHANGED <<given, left, kept, freed, faults>>

(* MPI_Win_allocate fails on this rank. *)
AllocateFails(r) ==
  /\ Past(r, "allocate") /\ faults < MaxFaults
  /\ faults' = faults + 1
  /\ Fails(r)
  /\ UNCHANGED <<given, windows, left, kept, freed>>

(* init_epoch fails on this rank, which goes straight to the free of the   *)
(* window it has just been given; then it drops the others.                *)
EpochFails(r) ==
  /\ Past(r, "allocate") /\ faults < MaxFaults
  /\ faults' = faults + 1
  /\ freeing' = [freeing EXCEPT ![r] = <<Window(r)>> \o Reversed(windows[r])]
  /\ left' = [left EXCEPT ![r] = @ \cup {Window(r)}]
  /\ status' = [status EXCEPT ![r] = "freeing"]
  /\ UNCHANGED <<given, entered, windows, kept, freed>>

(* The memory models, gathered. *)
UnifiedHere(r) == unified[r]

AllUnified(r) == \A q \in Ranks : unified[q]

Models(r) ==
  /\ Past(r, "models")
  /\ IF AllUnified(r)
     THEN status' = [status EXCEPT ![r] = "ring"] /\ UNCHANGED <<entered, freeing>>
     ELSE Fails(r)
  /\ UNCHANGED <<given, windows, left, kept, freed, faults>>

(* Ring::close, and the drop of a Ring: the slots first, then the acks. *)
Close(r) ==
  /\ status[r] = "ring"
  /\ Finish(r, windows[r], "closed")
  /\ UNCHANGED <<given, windows, left, kept, freed, faults>>

(* What the rank ends with once its windows are finished: an error of its  *)
(* construction or the result of `close`, which is that of both windows.   *)
Result(r) ==
  IF Where(r) # "models" \/ ~AllUnified(r) THEN "error"
  ELSE IF kept'[r] # {} THEN "unclosed" ELSE "closed"

(* Window::finish: the epoch is left, then the window freed.               *)
Unlock(r) ==
  /\ status[r] = "leaving"
  /\ left' = [left EXCEPT ![r] = @ \cup {Head(freeing[r])}]
  /\ status' = [status EXCEPT ![r] = "freeing"]
  /\ UNCHANGED <<given, entered, windows, freeing, kept, freed, faults>>

(* Window::close marks the window closed even when one of the two fails:   *)
(* its drop, which runs next, does not try again.                          *)
TriedAgain(r) == freeing[r]

Rest(r) == Tail(freeing[r])

(* The window cannot be finished: the rank goes on with the next one. *)
Keep(r) ==
  /\ faults < MaxFaults
  /\ faults' = faults + 1
  /\ kept' = [kept EXCEPT ![r] = @ \cup {Head(freeing[r])}]
  /\ Finish(r, Rest(r), Result(r))
  /\ UNCHANGED <<given, windows, left, freed>>

(* MPI_Win_unlock_all fails, and the window is not freed. *)
UnlockFails(r) == status[r] = "leaving" /\ Keep(r)

(* MPI_Win_free is collective. *)
Freed(r) ==
  /\ status[r] = "freeing"
  /\ \A q \in Ranks : Head(freeing[r]) \in left[q]
  /\ freed' = [freed EXCEPT ![r] = @ \cup {Head(freeing[r])}]
  /\ UNCHANGED <<given, windows, left, kept, faults>>
  /\ Finish(r, Tail(freeing[r]), Result(r))

(* It fails on this rank, with or without the others. *)
FreeFails(r) == status[r] = "freeing" /\ Keep(r)

-----------------------------------------------------------------------------
Step(r) ==
  \/ Through(r)
  \/ Counts(r)
  \/ Rows(r)
  \/ Lengths(r)
  \/ Allocate(r)
  \/ Allocated(r)
  \/ Models(r)
  \/ Close(r)
  \/ Unlock(r)
  \/ Freed(r)

Fault(r) ==
  \/ AllocateFails(r)
  \/ EpochFails(r)
  \/ UnlockFails(r)
  \/ FreeFails(r)

Next == \E r \in Ranks : Step(r) \/ Fault(r)

(* Every rank goes on as soon as its collective lets it. *)
Spec == Init /\ [][Next]_vars /\ \A r \in Ranks : WF_vars(Step(r))

-----------------------------------------------------------------------------
(* Properties *)

(* Construction succeeds on every rank or on none: when one rank has its   *)
(* ring no other has been given, nor ever is, an error instead, though     *)
(* calls may fail on single ranks.                                         *)
AllOrNone ==
  \A r, q \in Ranks :
    status[r] \in {"ring", "closed", "unclosed"} => status[q] # "error"

(* A rank has a ring only when all were asked for the same one, and all    *)
(* their windows can be read locally.                                      *)
Agreed ==
  \A r \in Ranks : status[r] = "ring" =>
    /\ \A q \in Ranks : config[q] = config[r] /\ safe[q] = safe[r]
    /\ \A q \in Ranks : threaded[q] /\ unified[q]
    /\ windows[r] = IF safe[r] THEN <<"slots", "acks">> ELSE <<"slots">>

(* A rank that is told its ring is closed has freed all its windows, and   *)
(* one that is told it is not has failed to free one.  A window whose      *)
(* epoch could not be left, or whose free failed, is not tried again, and  *)
(* the caller hears of it even when the other window was freed.            *)
ClosedProperly ==
  \A r \in Ranks :
    /\ status[r] = "closed" =>
         kept[r] = {} /\ freed[r] = {windows[r][i] : i \in DOMAIN windows[r]}
    /\ status[r] = "unclosed" => kept[r] # {}
    /\ kept[r] \cap freed[r] = {}

(* MPI provides the same threading level on every rank. *)
SameThreading == \A r, q \in Ranks : threaded[r] = threaded[q]

(* Unless a call fails on a single rank, nobody is left waiting in a       *)
(* collective: every rank returns its error, or builds the ring and closes *)
(* it, whatever the ranks were asked for.                                  *)
Settles ==
  SameThreading =>
    <>(faults > 0 \/ \A r \in Ranks : status[r] \in {"error", "closed"})

=============================================================================
