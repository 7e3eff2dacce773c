------------------------------- MODULE LogSpec -------------------------------
(***************************************************************************)
(* The write-ahead log as the engine uses it: the table its replay yields, *)
(* whether a torn frame hides whatever is appended from now on, and the    *)
(* keys whose records are not on stable storage yet.                       *)
(***************************************************************************)
CONSTANTS Keys, Entries, NotFound

VARIABLES wal, torn, unsure

Init == wal = [k \in Keys |-> NotFound] /\ torn = FALSE /\ unsure = {}

\* A record is appended; behind a torn frame it goes unseen.
Add(k, x) ==
  /\ wal' = IF torn THEN wal ELSE [wal EXCEPT ![k] = x]
  /\ unsure' \subseteq unsure \cup {k}
  /\ UNCHANGED torn
Tear == torn' = TRUE /\ UNCHANGED <<wal, unsure>>
Truncate == wal' = [k \in Keys |-> NotFound] /\ torn' = FALSE /\ unsure' = {}

\* A power failure takes back records of the unsure keys only.
Lose ==
  /\ \A k \in Keys \ unsure : wal'[k] = wal[k]
  /\ wal' \in [Keys -> Entries \cup {NotFound}]
  /\ torn' \in BOOLEAN /\ unsure' \subseteq unsure

Next == (\E k \in Keys, x \in Entries : Add(k, x)) \/ Tear \/ Truncate \/ Lose

Spec == Init /\ [][Next]_<<wal, torn, unsure>>
==============================================================================
