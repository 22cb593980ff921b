---------------------------- MODULE MCLaneFaults ----------------------------
EXTENDS LaneFaults

CONSTANTS short, long

MCData == {short, long}
MCLength == [d \in MCData |-> IF d = short THEN 1 ELSE 2]

MCOne == {short}
MCOneLength == [d \in MCOne |-> 1]

(* Only sequence 1 is sent with either payload, and retried with the      *)
(* other; acknowledgements fail on lanes of one payload; and of a lane     *)
(* that a check has reported at most one acknowledgement fails.            *)
MCFewPayloadsAndReports ==
  /\ \A s \in SeqNums \ {1} : log[s] # long
  /\ long \in {log[1], slots[0].payload, copy.payload} => "ack" \notin errors
  /\ errors \cap Reports # {} => "ack again" \notin errors

=============================================================================
