------------------------------- MODULE KVStore -------------------------------
(***************************************************************************)
(* What the engine promises to the one thread that writes and reads it: a  *)
(* map from keys to values that survives crashes.                          *)
(*                                                                         *)
(* The promise has two faces.  store is what Get and Scan answer now;      *)
(* durable is what they would answer after a crash at this instant.  The   *)
(* two may differ only on a key whose last write was logged and not (yet)  *)
(* acknowledged: acknowledging a write makes both faces show it.           *)
(*                                                                         *)
(* The promise has one exception.  Once a log write has been cut short the *)
(* store is lossy: it acknowledges writes that a crash may take back, until*)
(* everything it shows is durable by other means.                          *)
(***************************************************************************)
CONSTANTS Keys, Values, Absent

VARIABLES
  store,    \* what a read returns
  durable,  \* what a read would return after a crash
  op,       \* the logged write yet to be applied: {} or {<<key, value or Absent>>}
  lossy     \* a log write was cut short

vars == <<store, durable, op, lossy>>

Init ==
  /\ store = [k \in Keys |-> Absent]
  /\ durable = [k \in Keys |-> Absent]
  /\ op = {}
  /\ lossy = FALSE

\* What logging a write makes durable: the write, or nothing in a lossy store.
Logged(k, x) ==
  \/ durable' = [durable EXCEPT ![k] = x]
  \/ lossy /\ UNCHANGED durable

\* Put(k, x), or Delete(k) when x = Absent: durable first ...
Log(k, x) ==
  /\ op = {}
  /\ Logged(k, x)
  /\ op' = {<<k, x>>}
  /\ UNCHANGED <<store, lossy>>

\* ... then visible.  From here on the write is both.
Apply ==
  \E c \in op :
    /\ durable[c[1]] = c[2] \/ lossy
    /\ store' = [store EXCEPT ![c[1]] = c[2]]
    /\ op' = {}
    /\ UNCHANGED <<durable, lossy>>

\* The call returns an error: it is not visible, and a crash may show it.  Its
\* log write may have been cut short.
Fail(k, x) ==
  /\ op = {}
  /\ \/ Logged(k, x) /\ UNCHANGED lossy
     \/ lossy' = TRUE /\ UNCHANGED durable
  /\ UNCHANGED <<store, op>>

\* The engine forgets writes that were never acknowledged.  A lossy store may
\* in between show any state after a crash; it is sound again once it is
\* durable in full.
Settle ==
  /\ UNCHANGED <<op, store>>
  /\ durable' \in [Keys -> Values \cup {Absent}]
  /\ lossy \/ \A k \in Keys : durable'[k] \in {durable[k], store[k]}
  /\ UNCHANGED lossy \/ (lossy' = FALSE /\ durable' = store)

\* A crash, possibly in the middle of a call.
Crash ==
  /\ \/ UNCHANGED <<durable, lossy>>
     \/ /\ op = {}
        /\ \E k \in Keys, x \in Values \cup {Absent} : Logged(k, x)
        /\ UNCHANGED lossy
     \/ op = {} /\ lossy' = TRUE /\ UNCHANGED durable
  /\ store' = durable'
  /\ op' = {}

Next ==
  \/ Settle
  \/ \E k \in Keys, x \in Values \cup {Absent} : Log(k, x) \/ Fail(k, x)
  \/ Apply
  \/ Crash

Spec == Init /\ [][Next]_vars
==============================================================================
