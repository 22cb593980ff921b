--------------------------- MODULE RingSetupProofs ---------------------------
(***************************************************************************)
(* The construction and the closing of a Ring are sound for any number of  *)
(* ranks, any configurations and any number of failing calls: a ring is    *)
(* built by all ranks or by none, all have asked for the same one, and     *)
(* what `close` reports of the windows is true.                            *)
(***************************************************************************)
EXTENDS RingSetup, SequenceTheorems, TLAPS

-----------------------------------------------------------------------------
(* The invariant *)

(* The last collective a rank enters. *)
Size(r) == IF safe[r] THEN 9 ELSE 6

Statuses ==
  {"in", "past", "leaving", "freeing", "ring", "error", "closed", "unclosed"}

(* The series of windows a rank makes or frees. *)
Series ==
  {<<>>, <<"slots">>, <<"acks">>, <<"slots", "acks">>, <<"acks", "slots">>}

In(ws) == {ws[i] : i \in DOMAIN ws}

(* The windows a rank has made when it has entered its e-th collective. *)
Built(e) ==
  IF e < 6 THEN <<>> ELSE IF e < 9 THEN <<"slots">> ELSE <<"slots", "acks">>

TypeOK ==
  /\ config \in [Ranks -> Configs] /\ safe \in [Ranks -> BOOLEAN]
  /\ threaded \in [Ranks -> BOOLEAN] /\ unified \in [Ranks -> BOOLEAN]
  /\ entered \in [Ranks -> Nat] /\ status \in [Ranks -> Statuses]
  /\ windows \in [Ranks -> Series] /\ freeing \in [Ranks -> Series]
  /\ left \in [Ranks -> SUBSET {"slots", "acks"}]
  /\ kept \in [Ranks -> SUBSET {"slots", "acks"}]
  /\ freed \in [Ranks -> SUBSET {"slots", "acks"}]
  /\ faults \in Nat

(* The rank is in its series of collectives, and all its checks so far     *)
(* were passed.                                                            *)
Checked(r) ==
  /\ entered[r] >= 1 /\ entered[r] <= Size(r)
  /\ entered[r] >= 3 => RowsAgree(r) /\ threaded[r]
  /\ windows[r] = Built(entered[r])

(* Out of a collective, it has left nobody behind. *)
Abreast(r) == status[r] # "in" => \A q \in Ranks : entered[q] >= entered[r]

(* The construction was completed, and not refused by the memory models. *)
Succeeded(r) == entered[r] = Size(r) /\ AllUnified(r)

Told(r) ==
  /\ status[r] \in {"ring", "closed", "unclosed"} => Succeeded(r)
  /\ status[r] = "error" => ~Succeeded(r)

(* Each window is freed once, or kept. *)
Leaving(r) ==
  /\ kept[r] \cap freed[r] = {}
  /\ status[r] \in {"in", "past", "ring"} => freed[r] = {} /\ kept[r] = {}
  /\ status[r] \in {"leaving", "freeing"} =>
       freeing[r] # <<>> /\ In(freeing[r]) \cap (freed[r] \cup kept[r]) = {}
  /\ status[r] \in {"leaving", "freeing"} /\ Succeeded(r) =>
       freed[r] \cup kept[r] \cup In(freeing[r]) = In(windows[r])
  /\ status[r] = "closed" => kept[r] = {} /\ freed[r] = In(windows[r])
  /\ status[r] = "unclosed" => kept[r] # {}

SetupInv ==
  /\ TypeOK
  /\ \A r \in Ranks : Checked(r) /\ Abreast(r) /\ Told(r) /\ Leaving(r)

-----------------------------------------------------------------------------
Collectives ==
  {"counts", "rows", "lengths", "allocate", "barrier", "models"} \X {"none", "slots", "acks"}

(* The series of collectives, written out. *)
LEMMA PlanIs ==
  ASSUME NEW r \in Ranks
  PROVE  /\ Plan(r)[1] = <<"counts", "none">> /\ Plan(r)[2] = <<"rows", "none">>
         /\ Plan(r)[3] = <<"lengths", "slots">> /\ Plan(r)[4] = <<"allocate", "slots">>
         /\ Plan(r)[5] = <<"barrier", "slots">>
         /\ ~safe[r] => Plan(r)[6] = <<"models", "none">>
         /\ safe[r] => /\ Plan(r)[6] = <<"lengths", "acks">>
                       /\ Plan(r)[7] = <<"allocate", "acks">>
                       /\ Plan(r)[8] = <<"barrier", "acks">>
                       /\ Plan(r)[9] = <<"models", "none">>
<1> DEFINE first == <<<<"counts", "none">>, <<"rows", "none">>>>
           optional == IF safe[r] THEN Making("acks") ELSE <<>>
           last == <<<<"models", "none">>>>
           made == first \o Making("slots")
           all == made \o optional
<1>1. /\ first \in Seq(Collectives) /\ Len(first) = 2
      /\ first[1] = <<"counts", "none">> /\ first[2] = <<"rows", "none">>
  BY DEF Collectives
<1>2. ASSUME NEW w \in {"slots", "acks"}
      PROVE  /\ Making(w) \in Seq(Collectives) /\ Len(Making(w)) = 3
             /\ Making(w)[1] = <<"lengths", w>> /\ Making(w)[2] = <<"allocate", w>>
             /\ Making(w)[3] = <<"barrier", w>>
  BY DEF Making, Collectives
<1>3. last \in Seq(Collectives) /\ Len(last) = 1 /\ last[1] = <<"models", "none">>
  BY DEF Collectives
<1>4. /\ optional \in Seq(Collectives) /\ Len(optional) = IF safe[r] THEN 3 ELSE 0
      /\ safe[r] => optional = Making("acks")
  <2>1. CASE safe[r]
    BY <1>2, <2>1
  <2>2. CASE ~safe[r]
    <3>1. optional = <<>>
      BY <2>2
    <3> HIDE DEF optional
    <3> QED
      BY <2>2, <3>1, EmptySeq
  <2> QED
    BY <2>1, <2>2
<1>5. Plan(r) = all \o last
  BY DEF Plan
<1> DEFINE making == Making("slots")
<1>0. /\ making \in Seq(Collectives) /\ Len(making) = 3
      /\ making[1] = <<"lengths", "slots">> /\ making[2] = <<"allocate", "slots">>
      /\ making[3] = <<"barrier", "slots">>
  BY <1>2
<1> HIDE DEF first, optional, last, making
<1>6. /\ made \in Seq(Collectives) /\ Len(made) = 5
      /\ made[1] = <<"counts", "none">> /\ made[2] = <<"rows", "none">>
      /\ made[3] = <<"lengths", "slots">> /\ made[4] = <<"allocate", "slots">>
      /\ made[5] = <<"barrier", "slots">>
  <2>1. /\ made \in Seq(Collectives) /\ Len(made) = 5
        /\ \A i \in 1..5 : made[i] = IF i <= 2 THEN first[i] ELSE making[i - 2]
    <3>1. made = first \o making
      BY DEF making
    <3> HIDE DEF made
    <3>2. /\ first \o making \in Seq(Collectives)
          /\ Len(first \o making) = Len(first) + Len(making)
          /\ \A i \in 1..(Len(first) + Len(making)) :
               (first \o making)[i] = IF i <= Len(first) THEN first[i] ELSE making[i - Len(first)]
      BY <1>0, <1>1, ConcatProperties
    <3> QED
      BY <1>0, <1>1, <3>1, <3>2
  <2> HIDE DEF made
  <2> QED
    BY <1>0, <1>1, <2>1
<1> HIDE DEF made
<1>7. /\ all \in Seq(Collectives) /\ Len(all) = IF safe[r] THEN 8 ELSE 5
      /\ \A i \in 1..5 : all[i] = made[i]
      /\ safe[r] => /\ all[6] = <<"lengths", "acks">> /\ all[7] = <<"allocate", "acks">>
                    /\ all[8] = <<"barrier", "acks">>
  <2>1. /\ all \in Seq(Collectives) /\ Len(all) = 5 + Len(optional)
        /\ \A i \in 1..(5 + Len(optional)) :
             all[i] = IF i <= 5 THEN made[i] ELSE optional[i - 5]
    <3>1. Len(made) = 5 /\ made \in Seq(Collectives) /\ optional \in Seq(Collectives)
      BY <1>4, <1>6
    <3>2. /\ made \o optional \in Seq(Collectives)
          /\ Len(made \o optional) = Len(made) + Len(optional)
          /\ \A i \in 1..(Len(made) + Len(optional)) :
               (made \o optional)[i] =
                 IF i <= Len(made) THEN made[i] ELSE optional[i - Len(made)]
      BY <3>1, ConcatProperties
    <3> QED
      BY <3>1, <3>2
  <2> HIDE DEF all
  <2>2. CASE safe[r]
    BY <1>2, <1>4, <2>1, <2>2
  <2>3. CASE ~safe[r]
    BY <1>4, <2>1, <2>3
  <2> QED
    BY <2>2, <2>3
<1> HIDE DEF all
<1>8. /\ \A i \in 1..(Len(all) + 1) :
           Plan(r)[i] = IF i <= Len(all) THEN all[i] ELSE last[i - Len(all)]
  <2>1. all \in Seq(Collectives) /\ last \in Seq(Collectives) /\ Len(last) = 1
    BY <1>3, <1>7
  <2>2. \A i \in 1..(Len(all) + Len(last)) :
          (all \o last)[i] = IF i <= Len(all) THEN all[i] ELSE last[i - Len(all)]
    BY <2>1, ConcatProperties
  <2> QED
    BY <1>5, <2>1, <2>2
<1>9. CASE safe[r]
  BY <1>3, <1>6, <1>7, <1>8, <1>9
<1>10. CASE ~safe[r]
  BY <1>3, <1>6, <1>7, <1>8, <1>10
<1> QED
  BY <1>9, <1>10

(* Where each number of a collective is. *)
LEMMA Places ==
  ASSUME NEW r \in Ranks, entered[r] \in Nat, entered[r] >= 1, entered[r] <= Size(r),
         safe[r] \in BOOLEAN
  PROVE  /\ Where(r) = "counts" <=> entered[r] = 1
         /\ Where(r) = "rows" <=> entered[r] = 2
         /\ Where(r) = "lengths" => entered[r] \in {3, 6}
         /\ Where(r) = "allocate" => entered[r] \in {4, 7}
         /\ Where(r) = "barrier" => entered[r] \in {5, 8}
         /\ Where(r) = "models" <=> entered[r] = Size(r)
         /\ entered[r] \in {3, 4, 5} => Window(r) = "slots"
         /\ entered[r] \in {6, 7, 8} /\ safe[r] => Window(r) = "acks"
<1>1. CASE safe[r]
  <2>1. entered[r] \in 1..9
    BY <1>1 DEF Size
  <2> QED
    BY <1>1, <2>1, PlanIs DEF Where, Window, Size
<1>2. CASE ~safe[r]
  <2>1. entered[r] \in 1..6
    BY <1>2 DEF Size
  <2> QED
    BY <1>2, <2>1, PlanIs DEF Where, Window, Size
<1> QED
  BY <1>1, <1>2

(* What a series is made of. *)
LEMMA SeriesHave ==
  /\ In(<<>>) = {}
  /\ In(<<"slots">>) = {"slots"}
  /\ In(<<"acks">>) = {"acks"}
  /\ In(<<"slots", "acks">>) = {"slots", "acks"}
  /\ In(<<"acks", "slots">>) = {"slots", "acks"}
<1>1. In(<<>>) = {}
  BY DEF In
<1>2. In(<<"slots">>) = {"slots"}
  BY DEF In
<1>3. In(<<"acks">>) = {"acks"}
  BY DEF In
<1>4. In(<<"slots", "acks">>) = {"slots", "acks"}
  BY DEF In
<1>5. In(<<"acks", "slots">>) = {"slots", "acks"}
  BY DEF In
<1> QED
  BY <1>1, <1>2, <1>3, <1>4, <1>5

(* Taking the first window off a series. *)
LEMMA SeriesTail ==
  ASSUME NEW ws \in Series, ws # <<>>
  PROVE  /\ Tail(ws) \in Series
         /\ Head(ws) \in In(ws) /\ Head(ws) \in {"slots", "acks"}
         /\ Head(ws) \notin In(Tail(ws))
         /\ In(ws) = {Head(ws)} \cup In(Tail(ws))
<1>1. CASE ws = <<"slots">>
  <2>1. Head(ws) = "slots" /\ Tail(ws) = <<>>
    BY <1>1
  <2> QED
    BY <1>1, <2>1, SeriesHave DEF Series
<1>2. CASE ws = <<"acks">>
  <2>1. Head(ws) = "acks" /\ Tail(ws) = <<>>
    BY <1>2
  <2> QED
    BY <1>2, <2>1, SeriesHave DEF Series
<1>3. CASE ws = <<"slots", "acks">>
  <2>1. Head(ws) = "slots" /\ Tail(ws) = <<"acks">>
    BY <1>3
  <2> QED
    BY <1>3, <2>1, SeriesHave DEF Series
<1>4. CASE ws = <<"acks", "slots">>
  <2>1. Head(ws) = "acks" /\ Tail(ws) = <<"slots">>
    BY <1>4
  <2> QED
    BY <1>4, <2>1, SeriesHave DEF Series
<1> QED
  BY <1>1, <1>2, <1>3, <1>4 DEF Series

(* The reversed series an error frees. *)
LEMMA SeriesReversed ==
  /\ Reversed(<<>>) = <<>>
  /\ Reversed(<<"slots">>) = <<"slots">>
  /\ Reversed(<<"slots", "acks">>) = <<"acks", "slots">>
  /\ <<"acks">> \o <<"slots">> = <<"acks", "slots">>
  /\ <<"slots">> \o <<>> = <<"slots">>
  /\ Append(<<"slots">>, "acks") = <<"slots", "acks">>
<1>1. Reversed(<<>>) = <<>>
  BY DEF Reversed
<1>2. Reversed(<<"slots">>) = <<"slots">>
  BY DEF Reversed
<1>3. Reversed(<<"slots", "acks">>) = <<"acks", "slots">>
  BY DEF Reversed
<1>4. <<"acks">> \o <<"slots">> = <<"acks", "slots">>
  <2> DEFINE one == <<"acks">>
             two == <<"slots">>
             both == <<"acks", "slots">>
             S == {"slots", "acks"}
  <2>1. /\ one \in Seq(S) /\ two \in Seq(S) /\ both \in Seq(S)
        /\ Len(one) = 1 /\ Len(two) = 1 /\ Len(both) = 2
        /\ one[1] = "acks" /\ two[1] = "slots" /\ both[1] = "acks" /\ both[2] = "slots"
    OBVIOUS
  <2> HIDE DEF one, two, both
  <2>2. /\ one \o two \in Seq(S) /\ Len(one \o two) = 2
        /\ (one \o two)[1] = "acks" /\ (one \o two)[2] = "slots"
    BY <2>1, ConcatProperties
  <2>3. one \o two = both
    BY <2>1, <2>2, SeqEqual
  <2> QED
    BY <2>3 DEF one, two, both
<1>5. <<"slots">> \o <<>> = <<"slots">>
  OBVIOUS
<1>6. Append(<<"slots">>, "acks") = <<"slots", "acks">>
  <2> DEFINE one == <<"slots">>
             last == "acks"
             both == <<"slots", "acks">>
             S == {"slots", "acks"}
  <2>1. /\ one \in Seq(S) /\ both \in Seq(S) /\ Len(one) = 1 /\ Len(both) = 2
        /\ one[1] = "slots" /\ both[1] = "slots" /\ both[2] = last /\ last \in S
    OBVIOUS
  <2> HIDE DEF one, both, last, S
  <2>2. /\ Append(one, last) \in Seq(S) /\ Len(Append(one, last)) = Len(one) + 1
        /\ \A i \in 1..Len(one) : Append(one, last)[i] = one[i]
        /\ Append(one, last)[Len(one) + 1] = last
    <3>1. one \in Seq(S) /\ last \in S
      BY <2>1
    <3> QED
      BY <3>1, AppendProperties
  <2>3. Append(one, last) = both
    BY <2>1, <2>2, SeqEqual
  <2> QED
    BY <2>3 DEF one, both, last
<1> QED
  BY <1>1, <1>2, <1>3, <1>4, <1>5, <1>6

-----------------------------------------------------------------------------
(* A step of rank r leaves what is known of the others true: they only     *)
(* depend on what all were given and on how far r has come.                *)
LEMMA RankStep ==
  ASSUME SetupInv, NEW r \in Ranks, UNCHANGED given, TypeOK',
         \A q \in Ranks \ {r} :
           /\ entered'[q] = entered[q] /\ status'[q] = status[q]
           /\ windows'[q] = windows[q] /\ freeing'[q] = freeing[q]
           /\ freed'[q] = freed[q] /\ kept'[q] = kept[q],
         entered'[r] >= entered[r],
         Checked(r)', Abreast(r)', Told(r)', Leaving(r)'
  PROVE  SetupInv'
<1>1. ASSUME NEW q \in Ranks
      PROVE  Checked(q)' /\ Abreast(q)' /\ Told(q)' /\ Leaving(q)'
  <2>1. CASE q = r
    BY <2>1
  <2>2. CASE q # r
    <3>1. /\ entered'[q] = entered[q] /\ status'[q] = status[q]
          /\ windows'[q] = windows[q] /\ freeing'[q] = freeing[q]
          /\ freed'[q] = freed[q] /\ kept'[q] = kept[q]
      BY <2>2
    <3>2. Checked(q) /\ Abreast(q) /\ Told(q) /\ Leaving(q)
      BY DEF SetupInv
    <3>3. /\ config' = config /\ safe' = safe /\ threaded' = threaded
          /\ unified' = unified
      BY DEF given
    <3>4. Checked(q)'
      BY <3>1, <3>2, <3>3 DEF Checked, Size, RowsAgree
    <3>5. Succeeded(q)' <=> Succeeded(q)
      BY <3>1, <3>3 DEF Succeeded, Size, AllUnified
    <3>6. Abreast(q)'
      <4> SUFFICES ASSUME status[q] # "in", NEW p \in Ranks
                   PROVE  entered'[p] >= entered[q]
        BY <3>1 DEF Abreast
      <4>1. entered[p] >= entered[q] /\ entered[p] \in Nat /\ entered[q] \in Nat
        BY <3>2 DEF Abreast, SetupInv, TypeOK
      <4>2. entered'[p] \in Nat /\ entered'[p] >= entered[p]
        BY <4>1 DEF TypeOK
      <4> QED
        BY <4>1, <4>2
    <3>7. Told(q)'
      BY <3>1, <3>2, <3>5 DEF Told
    <3>8. Leaving(q)'
      BY <3>1, <3>2, <3>5 DEF Leaving
    <3> QED
      BY <3>4, <3>6, <3>7, <3>8
  <2> QED
    BY <2>1, <2>2
<1> QED
  BY <1>1 DEF SetupInv

(* What is known of a rank. *)
LEMMA Known ==
  ASSUME SetupInv, NEW r \in Ranks
  PROVE  /\ TypeOK /\ Checked(r) /\ Abreast(r) /\ Told(r) /\ Leaving(r)
         /\ entered[r] \in Nat /\ entered[r] >= 1 /\ entered[r] <= Size(r)
         /\ Size(r) \in {6, 9} /\ safe[r] \in BOOLEAN
         /\ windows[r] \in Series /\ freeing[r] \in Series
         /\ freed[r] \subseteq {"slots", "acks"} /\ kept[r] \subseteq {"slots", "acks"}
BY DEF SetupInv, TypeOK, Checked, Size

(* A rank enters its next collective, its checks passed. *)
LEMMA GoOnStep ==
  ASSUME SetupInv, NEW r \in Ranks, status[r] = "past", GoOn(r),
         UNCHANGED <<given, left, kept, freed, faults>>,
         NEW ws \in Series, windows' = [windows EXCEPT ![r] = ws],
         ws = Built(entered[r] + 1), entered[r] < Size(r),
         entered[r] = 2 => RowsAgree(r) /\ threaded[r]
  PROVE  SetupInv'
<1>1. /\ TypeOK /\ entered[r] \in Nat /\ entered[r] >= 1 /\ Size(r) \in Nat
      /\ Checked(r) /\ Leaving(r)
  BY Known
<1>2. /\ entered' = [entered EXCEPT ![r] = @ + 1] /\ status' = [status EXCEPT ![r] = "in"]
      /\ freeing' = freeing /\ left' = left /\ kept' = kept /\ freed' = freed
      /\ faults' = faults
      /\ config' = config /\ safe' = safe /\ threaded' = threaded /\ unified' = unified
  BY DEF GoOn, given
<1>3. TypeOK'
  BY <1>1, <1>2 DEF TypeOK, Statuses
<1>4. entered'[r] = entered[r] + 1 /\ status'[r] = "in" /\ windows'[r] = ws
  BY <1>1, <1>2 DEF TypeOK
<1>5. Checked(r)'
  <2>1. Size(r)' = Size(r)
    BY <1>2 DEF Size
  <2>2. (RowsAgree(r) /\ threaded[r])' <=> RowsAgree(r) /\ threaded[r]
    BY <1>2 DEF RowsAgree
  <2> QED
    BY <1>1, <1>4, <2>1, <2>2 DEF Checked
<1>6. Abreast(r)' /\ Told(r)'
  BY <1>4 DEF Abreast, Told
<1>7. Leaving(r)'
  BY <1>1, <1>2, <1>4 DEF Leaving
<1>8. ASSUME NEW q \in Ranks \ {r}
      PROVE  /\ entered'[q] = entered[q] /\ status'[q] = status[q]
             /\ windows'[q] = windows[q] /\ freeing'[q] = freeing[q]
             /\ freed'[q] = freed[q] /\ kept'[q] = kept[q]
  BY <1>1, <1>2 DEF TypeOK
<1>9. entered'[r] >= entered[r]
  BY <1>1, <1>4
<1> QED
  BY <1>3, <1>5, <1>6, <1>7, <1>8, <1>9, RankStep

(* A rank is to finish the windows of a series, or ends with what is true. *)
LEMMA FinishStep ==
  ASSUME SetupInv, NEW r \in Ranks, status[r] # "in",
         NEW ws \in Series, NEW end, Finish(r, ws, end),
         UNCHANGED <<given, windows, left>>, faults' \in Nat,
         freed' \in [Ranks -> SUBSET {"slots", "acks"}],
         kept' \in [Ranks -> SUBSET {"slots", "acks"}],
         \A q \in Ranks \ {r} : freed'[q] = freed[q] /\ kept'[q] = kept[q],
         kept'[r] \cap freed'[r] = {}, In(ws) \cap (freed'[r] \cup kept'[r]) = {},
         Succeeded(r) => freed'[r] \cup kept'[r] \cup In(ws) = In(windows[r]),
         end = IF Succeeded(r) THEN IF kept'[r] # {} THEN "unclosed" ELSE "closed"
               ELSE "error"
  PROVE  SetupInv'
<1>1. TypeOK /\ Checked(r) /\ Abreast(r) /\ entered[r] \in Nat
  BY Known
<1>2. /\ freeing' = [freeing EXCEPT ![r] = ws] /\ entered' = entered
      /\ status' = [status EXCEPT ![r] = IF ws = <<>> THEN end ELSE "leaving"]
      /\ config' = config /\ safe' = safe /\ threaded' = threaded /\ unified' = unified
      /\ windows' = windows /\ left' = left
  BY DEF Finish, given
<1>3. TypeOK'
  <2>1. end \in Statuses /\ "leaving" \in Statuses
    BY DEF Statuses
  <2>2. status' \in [Ranks -> Statuses]
    BY <1>1, <1>2, <2>1 DEF TypeOK
  <2> QED
    BY <1>1, <1>2, <2>2 DEF TypeOK
<1>4. /\ freeing'[r] = ws
      /\ status'[r] = IF ws = <<>> THEN end ELSE "leaving"
  BY <1>1, <1>2 DEF TypeOK
<1>5. Succeeded(r)' <=> Succeeded(r)
  BY <1>2 DEF Succeeded, Size, AllUnified
<1>6. Checked(r)'
  BY <1>1, <1>2 DEF Checked, Size, RowsAgree
<1>7. Abreast(r)'
  BY <1>1, <1>2 DEF Abreast
<1>8. Told(r)'
  BY <1>4, <1>5 DEF Told
<1>9. Leaving(r)'
  <2>1. CASE ws = <<>>
    <3>1. /\ status'[r] \in {"closed", "unclosed", "error"}
          /\ status'[r] = "closed" => Succeeded(r) /\ kept'[r] = {}
          /\ status'[r] = "unclosed" => kept'[r] # {}
      BY <1>4, <2>1
    <3>2. In(ws) = {}
      BY <2>1, SeriesHave
    <3>3. Succeeded(r) /\ kept'[r] = {} => freed'[r] = In(windows[r])
      BY <3>2
    <3> QED
      BY <1>2, <1>4, <3>1, <3>3 DEF Leaving
  <2>2. CASE ws # <<>>
    <3>1. status'[r] = "leaving"
      BY <1>4, <2>2
    <3>2. Succeeded(r) => freed'[r] \cup kept'[r] \cup In(ws) = In(windows[r])
      OBVIOUS
    <3>3. kept'[r] \cap freed'[r] = {} /\ In(ws) \cap (freed'[r] \cup kept'[r]) = {}
      OBVIOUS
    <3> HIDE DEF In
    <3> QED
      BY <1>2, <1>4, <1>5, <2>2, <3>1, <3>2, <3>3 DEF Leaving
  <2> QED
    BY <2>1, <2>2
<1>10. ASSUME NEW q \in Ranks \ {r}
       PROVE  /\ entered'[q] = entered[q] /\ status'[q] = status[q]
             /\ windows'[q] = windows[q] /\ freeing'[q] = freeing[q]
             /\ freed'[q] = freed[q] /\ kept'[q] = kept[q]
  BY <1>1, <1>2 DEF TypeOK
<1>11. entered'[r] >= entered[r]
  BY <1>1, <1>2
<1> QED
  BY <1>3, <1>6, <1>7, <1>8, <1>9, <1>10, <1>11, RankStep DEF given

(* A rank gives its construction up, with the windows made so far. *)
LEMMA FailStep ==
  ASSUME SetupInv, NEW r \in Ranks, status[r] = "past", Fails(r), ~Succeeded(r),
         UNCHANGED <<given, windows, left, kept, freed>>, faults' \in Nat
  PROVE  SetupInv'
<1> DEFINE ws == Reversed(windows[r])
<1>1. freed[r] = {} /\ kept[r] = {} /\ TypeOK /\ windows[r] = Built(entered[r])
  BY Known DEF Leaving, Checked
<1>2. ws \in Series
  BY <1>1, SeriesReversed DEF Built, Series
<1>3. /\ freed' = freed /\ kept' = kept /\ freed'[r] = {} /\ kept'[r] = {}
      /\ freed \in [Ranks -> SUBSET {"slots", "acks"}]
      /\ kept \in [Ranks -> SUBSET {"slots", "acks"}]
  BY <1>1 DEF TypeOK
<1>4. Finish(r, ws, "error") /\ status[r] # "in" /\ UNCHANGED <<given, windows, left>>
  BY DEF Fails
<1> HIDE DEF ws
<1>5. kept'[r] \cap freed'[r] = {} /\ In(ws) \cap (freed'[r] \cup kept'[r]) = {}
  BY <1>3
<1> QED
  BY <1>2, <1>3, <1>4, <1>5, FinishStep

(* The steps of a construction. *)
LEMMA MakingSteps ==
  ASSUME SetupInv, NEW r \in Ranks,
         \/ Through(r) \/ Counts(r) \/ Rows(r) \/ Lengths(r) \/ Allocate(r) \/ Allocated(r)
         \/ Models(r) \/ AllocateFails(r) \/ EpochFails(r)
  PROVE  SetupInv'
<1>0. /\ TypeOK /\ Checked(r) /\ Abreast(r) /\ Told(r) /\ Leaving(r)
      /\ entered[r] \in Nat /\ entered[r] >= 1 /\ entered[r] <= Size(r)
      /\ Size(r) \in {6, 9} /\ safe[r] \in BOOLEAN
      /\ windows[r] \in Series /\ windows = [windows EXCEPT ![r] = windows[r]]
      /\ windows[r] = Built(entered[r])
  BY Known DEF Checked, TypeOK
<1>1. CASE Through(r)
  <2>1. /\ \A q \in Ranks : entered[q] >= entered[r]
        /\ status[r] = "in" /\ status' = [status EXCEPT ![r] = "past"]
        /\ UNCHANGED <<given, entered, windows, freeing, left, kept, freed, faults>>
    BY <1>1 DEF Through
  <2>2. TypeOK' /\ status'[r] = "past"
    BY <1>0, <2>1 DEF TypeOK, given, Statuses
  <2>3. Checked(r)' /\ Abreast(r)' /\ Told(r)'
    BY <1>0, <2>1, <2>2 DEF Checked, Abreast, Told, given, Size, RowsAgree
  <2>4. Leaving(r)'
    BY <1>0, <2>1, <2>2 DEF Leaving
  <2>5. ASSUME NEW q \in Ranks \ {r}
        PROVE  status'[q] = status[q]
    BY <1>0, <2>1 DEF TypeOK
  <2>6. entered'[r] >= entered[r]
    BY <1>0, <2>1
  <2> QED
    BY <2>1, <2>2, <2>3, <2>4, <2>5, <2>6, RankStep
<1>2. CASE Counts(r)
  <2>1. status[r] = "past" /\ entered[r] = 1 /\ ~Succeeded(r)
    BY <1>0, <1>2, Places DEF Counts, Past, Succeeded
  <2>2. UNCHANGED <<given, windows, left, kept, freed, faults>> /\ faults' \in Nat
    BY <1>0, <1>2 DEF Counts, TypeOK
  <2>3. CASE GoOn(r)
    <3>1. windows[r] = Built(entered[r] + 1) /\ entered[r] < Size(r)
      BY <1>0, <2>1 DEF Built
    <3> QED
      BY <1>0, <2>1, <2>2, <2>3, <3>1, GoOnStep
  <2>4. CASE Fails(r)
    BY <2>1, <2>2, <2>4, FailStep
  <2> QED
    BY <1>2, <2>3, <2>4 DEF Counts
<1>3. CASE Rows(r)
  <2>1. status[r] = "past" /\ entered[r] = 2 /\ ~Succeeded(r)
    BY <1>0, <1>3, Places DEF Rows, Past, Succeeded
  <2>2. UNCHANGED <<given, windows, left, kept, freed, faults>> /\ faults' \in Nat
    BY <1>0, <1>3 DEF Rows, TypeOK
  <2>3. CASE RowsAgree(r) /\ threaded[r] /\ GoOn(r)
    <3>1. windows[r] = Built(entered[r] + 1) /\ entered[r] < Size(r)
      BY <1>0, <2>1 DEF Built
    <3> QED
      BY <1>0, <2>1, <2>2, <2>3, <3>1, GoOnStep
  <2>4. CASE Fails(r)
    BY <2>1, <2>2, <2>4, FailStep
  <2> QED
    BY <1>3, <2>3, <2>4 DEF Rows
<1>4. CASE Allocate(r)
  <2>1. status[r] = "past" /\ entered[r] \in {4, 7} /\ entered[r] # Size(r)
    BY <1>0, <1>4, Places DEF Allocate, Past
  <2>2. UNCHANGED <<given, windows, left, kept, freed, faults>> /\ GoOn(r)
    BY <1>4 DEF Allocate
  <2>3. /\ windows[r] = Built(entered[r] + 1) /\ entered[r] < Size(r)
        /\ entered[r] # 2
    BY <1>0, <2>1 DEF Built
  <2> QED
    BY <1>0, <2>1, <2>2, <2>3, GoOnStep
<1>5. CASE Allocated(r)
  <2> DEFINE ws == Append(windows[r], Window(r))
  <2>1. status[r] = "past" /\ entered[r] \in {5, 8} /\ entered[r] # Size(r)
    BY <1>0, <1>5, Places DEF Allocated, Past
  <2>2. ws = Built(entered[r] + 1) /\ ws \in Series
    <3>1. CASE entered[r] = 5
      <4>1. Window(r) = "slots" /\ windows[r] = <<>>
        BY <1>0, <3>1, Places DEF Built
      <4>2. ws = <<"slots">>
        BY <4>1
      <4> HIDE DEF ws
      <4> QED
        BY <3>1, <4>2 DEF Built, Series
    <3>2. CASE entered[r] = 8
      <4>1. Window(r) = "acks" /\ windows[r] = <<"slots">>
        BY <1>0, <3>2, Places DEF Built, Size
      <4>2. ws = <<"slots", "acks">>
        BY <4>1, SeriesReversed
      <4> HIDE DEF ws
      <4> QED
        BY <3>2, <4>2 DEF Built, Series
    <3> QED
      BY <2>1, <3>1, <3>2
  <2>3. /\ UNCHANGED <<given, left, kept, freed, faults>> /\ GoOn(r)
        /\ windows' = [windows EXCEPT ![r] = ws]
    BY <1>0, <1>5 DEF Allocated, TypeOK
  <2>4. entered[r] < Size(r) /\ entered[r] # 2
    BY <1>0, <2>1
  <2> HIDE DEF ws
  <2> QED
    BY <2>1, <2>2, <2>3, <2>4, GoOnStep
<1>6. CASE Models(r)
  <2>1. status[r] = "past" /\ entered[r] = Size(r)
    BY <1>0, <1>6, Places DEF Models, Past
  <2>2. UNCHANGED <<given, windows, left, kept, freed, faults>> /\ faults' \in Nat
    BY <1>0, <1>6 DEF Models, TypeOK
  <2>3. CASE AllUnified(r) /\ status' = [status EXCEPT ![r] = "ring"]
             /\ UNCHANGED <<entered, freeing>>
    <3>1. TypeOK' /\ status'[r] = "ring"
      BY <1>0, <2>2, <2>3 DEF TypeOK, given, Statuses
    <3>2. Checked(r)' /\ Abreast(r)'
      BY <1>0, <2>1, <2>2, <2>3 DEF Checked, Abreast, given, Size, RowsAgree
    <3>3. Told(r)'
      BY <2>1, <2>2, <2>3, <3>1 DEF Told, Succeeded, Size, AllUnified, given
    <3>4. Leaving(r)'
      BY <1>0, <2>1, <2>2, <2>3, <3>1 DEF Leaving
    <3>5. ASSUME NEW q \in Ranks \ {r}
          PROVE  status'[q] = status[q]
      BY <1>0, <2>3 DEF TypeOK
    <3>6. entered'[r] >= entered[r]
      BY <1>0, <2>3
    <3> QED
      BY <2>2, <2>3, <3>1, <3>2, <3>3, <3>4, <3>5, <3>6, RankStep
  <2>4. CASE ~AllUnified(r) /\ Fails(r)
    BY <2>1, <2>2, <2>4, FailStep DEF Succeeded
  <2> QED
    BY <1>6, <2>3, <2>4 DEF Models
<1>7. CASE AllocateFails(r)
  <2>1. status[r] = "past" /\ entered[r] \in {4, 7} /\ ~Succeeded(r)
    BY <1>0, <1>7, Places DEF AllocateFails, Past, Succeeded
  <2>2. UNCHANGED <<given, windows, left, kept, freed>> /\ faults' \in Nat /\ Fails(r)
    BY <1>0, <1>7 DEF AllocateFails, TypeOK
  <2> QED
    BY <2>1, <2>2, FailStep
<1>8. CASE EpochFails(r)
  <2> DEFINE ws == <<Window(r)>> \o Reversed(windows[r])
  <2>1. status[r] = "past" /\ entered[r] \in {4, 7} /\ ~Succeeded(r)
    BY <1>0, <1>8, Places DEF EpochFails, Past, Succeeded
  <2>2. ws \in Series /\ ws # <<>> /\ Window(r) \in {"slots", "acks"}
    <3>1. CASE entered[r] = 4
      <4>1. Window(r) = "slots" /\ windows[r] = <<>>
        BY <1>0, <3>1, Places DEF Built
      <4>2. ws = <<"slots">>
        BY <4>1, SeriesReversed
      <4> QED
        BY <4>1, <4>2 DEF Series
    <3>2. CASE entered[r] = 7
      <4>1. Window(r) = "acks" /\ windows[r] = <<"slots">>
        BY <1>0, <3>2, Places DEF Built, Size
      <4>2. ws = <<"acks", "slots">>
        BY <4>1, SeriesReversed
      <4> QED
        BY <4>1, <4>2 DEF Series
    <3> QED
      BY <2>1, <3>1, <3>2
  <2>3. /\ UNCHANGED <<given, entered, windows, kept, freed>> /\ faults' \in Nat
        /\ freeing' = [freeing EXCEPT ![r] = ws]
        /\ left' = [left EXCEPT ![r] = @ \cup {Window(r)}]
        /\ status' = [status EXCEPT ![r] = "freeing"]
    BY <1>0, <1>8 DEF EpochFails, TypeOK
  <2> HIDE DEF ws
  <2>4. TypeOK' /\ freeing'[r] = ws /\ status'[r] = "freeing"
    BY <1>0, <2>2, <2>3 DEF TypeOK, given, Statuses
  <2>5. Checked(r)' /\ Abreast(r)' /\ Told(r)' /\ ~Succeeded(r)'
    BY <1>0, <2>1, <2>3, <2>4
    DEF Checked, Abreast, Told, Succeeded, AllUnified, given, Size, RowsAgree
  <2>6. Leaving(r)'
    <3>1. freed[r] = {} /\ kept[r] = {}
      BY <1>0, <2>1 DEF Leaving
    <3> QED
      BY <2>2, <2>3, <2>4, <2>5, <3>1 DEF Leaving
  <2>7. ASSUME NEW q \in Ranks \ {r}
        PROVE  status'[q] = status[q] /\ freeing'[q] = freeing[q]
    BY <1>0, <2>3 DEF TypeOK
  <2>8. entered'[r] >= entered[r]
    BY <1>0, <2>3
  <2> QED
    BY <2>3, <2>4, <2>5, <2>6, <2>7, <2>8, RankStep
<1>9. CASE Lengths(r)
  <2>1. status[r] = "past" /\ entered[r] \in {3, 6} /\ entered[r] # Size(r) /\ ~Succeeded(r)
    BY <1>0, <1>9, Places DEF Lengths, Past, Succeeded
  <2>2. UNCHANGED <<given, windows, left, kept, freed, faults>> /\ faults' \in Nat
    BY <1>0, <1>9 DEF Lengths, TypeOK
  <2>3. CASE GoOn(r)
    <3>1. /\ windows[r] = Built(entered[r] + 1) /\ entered[r] < Size(r)
          /\ entered[r] # 2
      BY <1>0, <2>1 DEF Built
    <3> QED
      BY <1>0, <2>1, <2>2, <2>3, <3>1, GoOnStep
  <2>4. CASE Fails(r)
    BY <2>1, <2>2, <2>4, FailStep
  <2> QED
    BY <1>9, <2>3, <2>4 DEF Lengths
<1> QED
  BY <1>1, <1>2, <1>3, <1>4, <1>5, <1>6, <1>7, <1>8, <1>9

(* The steps that finish the windows. *)
LEMMA ClosingSteps ==
  ASSUME SetupInv, NEW r \in Ranks,
         Close(r) \/ Unlock(r) \/ UnlockFails(r) \/ Freed(r) \/ FreeFails(r)
  PROVE  SetupInv'
<1>0. /\ TypeOK /\ Checked(r) /\ Abreast(r) /\ Told(r) /\ Leaving(r)
      /\ entered[r] \in Nat /\ entered[r] >= 1 /\ entered[r] <= Size(r)
      /\ Size(r) \in {6, 9} /\ safe[r] \in BOOLEAN
      /\ windows[r] \in Series /\ freeing[r] \in Series
      /\ freed[r] \subseteq {"slots", "acks"} /\ kept[r] \subseteq {"slots", "acks"}
  BY Known
<1> DEFINE first == Head(freeing[r])
           rest == Tail(freeing[r])
<1>1. CASE Close(r)
  <2>1. /\ status[r] = "ring" /\ Succeeded(r) /\ freed[r] = {} /\ kept[r] = {}
        /\ Finish(r, windows[r], "closed")
        /\ UNCHANGED <<given, windows, left, kept, freed, faults>> /\ faults' \in Nat
    BY <1>0, <1>1 DEF Close, Told, Leaving, TypeOK
  <2>2. /\ freed' = freed /\ kept' = kept /\ freed'[r] = {} /\ kept'[r] = {}
        /\ freed \in [Ranks -> SUBSET {"slots", "acks"}]
        /\ kept \in [Ranks -> SUBSET {"slots", "acks"}]
    BY <1>0, <2>1 DEF TypeOK
  <2>3. /\ kept'[r] \cap freed'[r] = {}
        /\ In(windows[r]) \cap (freed'[r] \cup kept'[r]) = {}
        /\ freed'[r] \cup kept'[r] \cup In(windows[r]) = In(windows[r])
    BY <2>2
  <2> QED
    BY <1>0, <2>1, <2>2, <2>3, FinishStep
<1>2. CASE Unlock(r)
  <2>1. /\ status[r] = "leaving" /\ freeing[r] # <<>>
        /\ left' = [left EXCEPT ![r] = @ \cup {first}]
        /\ status' = [status EXCEPT ![r] = "freeing"]
        /\ UNCHANGED <<given, entered, windows, freeing, kept, freed, faults>>
    BY <1>0, <1>2 DEF Unlock, Leaving
  <2>2. first \in {"slots", "acks"}
    BY <1>0, <2>1, SeriesTail
  <2>3. TypeOK' /\ status'[r] = "freeing"
    BY <1>0, <2>1, <2>2 DEF TypeOK, given, Statuses
  <2>4. Succeeded(r)' <=> Succeeded(r)
    BY <2>1 DEF Succeeded, Size, AllUnified, given
  <2>5. Checked(r)' /\ Abreast(r)' /\ Told(r)'
    BY <1>0, <2>1, <2>3 DEF Checked, Abreast, Told, given, Size, RowsAgree
  <2>6. Leaving(r)'
    BY <1>0, <2>1, <2>3, <2>4 DEF Leaving
  <2>7. ASSUME NEW q \in Ranks \ {r}
        PROVE  status'[q] = status[q]
    BY <1>0, <2>1 DEF TypeOK
  <2>8. entered'[r] >= entered[r]
    BY <1>0, <2>1
  <2> QED
    BY <2>1, <2>3, <2>5, <2>6, <2>7, <2>8, RankStep
<1>3. CASE UnlockFails(r) \/ FreeFails(r) \/ Freed(r)
  <2>1. /\ status[r] \in {"leaving", "freeing"} /\ freeing[r] # <<>>
        /\ Finish(r, rest, Result(r))
        /\ UNCHANGED <<given, windows, left>> /\ faults' \in Nat
    BY <1>0, <1>3 DEF UnlockFails, FreeFails, Keep, Freed, Leaving, Rest, TypeOK
  <2>2. /\ first \in {"slots", "acks"} /\ first \in In(freeing[r]) /\ rest \in Series
        /\ first \notin In(rest) /\ In(freeing[r]) = {first} \cup In(rest)
    BY <1>0, <2>1, SeriesTail
  <2>3. /\ In(freeing[r]) \cap (freed[r] \cup kept[r]) = {} /\ kept[r] \cap freed[r] = {}
        /\ Succeeded(r) => freed[r] \cup kept[r] \cup In(freeing[r]) = In(windows[r])
    BY <1>0, <2>1 DEF Leaving
  <2>4. \/ /\ kept' = [kept EXCEPT ![r] = @ \cup {first}]
           /\ freed' = freed
        \/ /\ freed' = [freed EXCEPT ![r] = @ \cup {first}]
           /\ kept' = kept
    BY <1>3 DEF UnlockFails, FreeFails, Keep, Freed
  <2> HIDE DEF first, rest, In
  <2>5. /\ freed' \in [Ranks -> SUBSET {"slots", "acks"}]
        /\ kept' \in [Ranks -> SUBSET {"slots", "acks"}]
        /\ \A q \in Ranks \ {r} : freed'[q] = freed[q] /\ kept'[q] = kept[q]
        /\ \/ kept'[r] = kept[r] \cup {first} /\ freed'[r] = freed[r]
           \/ freed'[r] = freed[r] \cup {first} /\ kept'[r] = kept[r]
    BY <1>0, <2>2, <2>4 DEF TypeOK
  <2>6. /\ kept'[r] \cap freed'[r] = {} /\ In(rest) \cap (freed'[r] \cup kept'[r]) = {}
        /\ Succeeded(r) => freed'[r] \cup kept'[r] \cup In(rest) = In(windows[r])
    BY <2>2, <2>3, <2>5
  <2>7. Result(r) = IF Succeeded(r) THEN IF kept'[r] # {} THEN "unclosed" ELSE "closed"
                    ELSE "error"
    BY <1>0, Places DEF Result, Succeeded
  <2>8. status[r] # "in"
    BY <2>1
  <2> QED
    BY <2>1, <2>2, <2>5, <2>6, <2>7, <2>8, FinishStep
<1> QED
  BY <1>1, <1>2, <1>3

-----------------------------------------------------------------------------
(* SetupInv is inductive. *)
LEMMA SetupInvariant == Spec => []SetupInv
<1>1. Init => SetupInv
  <2> SUFFICES ASSUME Init PROVE SetupInv
    OBVIOUS
  <2>1. TypeOK
    BY SetupAssumption DEF Init, TypeOK, Statuses, Series
  <2>2. ASSUME NEW r \in Ranks
        PROVE  Checked(r) /\ Abreast(r) /\ Told(r) /\ Leaving(r)
    BY <2>1, <2>2 DEF Init, Checked, Abreast, Told, Leaving, Size, Built
  <2> QED
    BY <2>1, <2>2 DEF SetupInv
<1>2. SetupInv /\ [Next]_vars => SetupInv'
  <2> SUFFICES ASSUME SetupInv, [Next]_vars PROVE SetupInv'
    OBVIOUS
  <2>1. CASE Next
    BY <2>1, MakingSteps, ClosingSteps DEF Next, Step, Fault
  <2>2. CASE UNCHANGED vars
    BY <2>2 DEF vars, SetupInv, TypeOK, Checked, Abreast, Told, Leaving, Succeeded,
                AllUnified, Size, RowsAgree
  <2> QED
    BY <2>1, <2>2
<1> QED
  BY <1>1, <1>2, PTL DEF Spec

(* A ring is built by every rank or by none: whoever has one came out of   *)
(* the last collective of src/src/ring.rs's new, which all entered with    *)
(* every check passed, and the gathered memory models decide alike.        *)
THEOREM AllOrNoneTheorem == Spec => []AllOrNone
<1>1. SetupInv => AllOrNone
  <2> SUFFICES ASSUME SetupInv, NEW r \in Ranks, NEW q \in Ranks,
                      status[r] \in {"ring", "closed", "unclosed"}, status[q] = "error"
               PROVE  FALSE
    BY DEF AllOrNone
  <2>1. entered[r] = Size(r) /\ AllUnified(r) /\ Size(r) \in {6, 9}
    BY Known DEF Told, Succeeded
  <2>2. entered[q] >= entered[r] /\ entered[q] <= Size(q) /\ entered[q] \in Nat
        /\ Size(q) \in {6, 9}
    BY Known DEF Abreast
  <2>3. safe[q] = safe[r]
    BY <2>1, Known DEF Checked, RowsAgree
  <2>4. Succeeded(q)
    BY <2>1, <2>2, <2>3 DEF Succeeded, Size, AllUnified
  <2> QED
    BY <2>4, Known DEF Told
<1> QED
  BY <1>1, SetupInvariant, PTL

(* Whoever has a ring has the one that all were asked for: agree compares  *)
(* the configurations before anything is allocated.                        *)
THEOREM AgreedTheorem == Spec => []Agreed
<1>1. SetupInv => Agreed
  <2> SUFFICES ASSUME SetupInv, NEW r \in Ranks, status[r] = "ring"
               PROVE  /\ \A q \in Ranks : config[q] = config[r] /\ safe[q] = safe[r]
                      /\ \A q \in Ranks : threaded[q] /\ unified[q]
                      /\ windows[r] = IF safe[r] THEN <<"slots", "acks">> ELSE <<"slots">>
    BY DEF Agreed
  <2>1. entered[r] = Size(r) /\ AllUnified(r) /\ Size(r) \in {6, 9}
    BY Known DEF Told, Succeeded
  <2>2. \A q \in Ranks : entered[q] >= entered[r] /\ entered[q] \in Nat
    BY Known DEF Abreast
  <2>3. ASSUME NEW q \in Ranks
        PROVE  config[q] = config[r] /\ safe[q] = safe[r] /\ threaded[q] /\ unified[q]
    <3>1. entered[q] >= 3 /\ entered[r] >= 3
      BY <2>1, <2>2
    <3>2. Checked(r) /\ Checked(q)
      BY Known
    <3> QED
      BY <2>1, <3>1, <3>2 DEF Checked, RowsAgree, AllUnified
  <2>4. windows[r] = Built(Size(r))
    BY <2>1, Known DEF Checked
  <2> QED
    BY <2>3, <2>4 DEF Built, Size
<1> QED
  BY <1>1, SetupInvariant, PTL

(* Told its ring is closed, a rank has freed all its windows; one it could *)
(* not leave or free is never tried again, and is reported.                *)
THEOREM ClosedProperlyTheorem == Spec => []ClosedProperly
<1>1. SetupInv => ClosedProperly
  BY Known DEF ClosedProperly, Leaving, In
<1> QED
  BY <1>1, SetupInvariant, PTL
=============================================================================
