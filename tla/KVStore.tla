------------------------------ MODULE KVStore ------------------------------
(***************************************************************************)
(* What CREAM_Client/include/hashmap.h promises of the map, as long as     *)
(* there is room for every key: put stores a value under a key, get        *)
(* answers with the value stored last, delete and clear_map remove.  Once  *)
(* the store is closed, by invalidate_map, answers are unspecified.        *)
(*                                                                         *)
(* A get is asked and answered later: in between, once, it looks.          *)
(***************************************************************************)
CONSTANTS Threads, Keys, NoKey, Values, Missing

VARIABLES
  store,   \* the value of each key
  asked,   \* the key each thread asked for, until it is answered
  answer,  \* the answer each thread got last
  closed

kvars == <<store, asked, answer, closed>>

Init ==
  /\ store = [k \in Keys |-> Missing]
  /\ asked = [t \in Threads |-> NoKey]
  /\ answer = [t \in Threads |-> Missing]
  /\ closed = FALSE

Put(k, v) ==
  /\ ~closed
  /\ store' = [store EXCEPT ![k] = v]
  /\ UNCHANGED <<asked, answer, closed>>

Delete(k) ==
  /\ ~closed
  /\ store' = [store EXCEPT ![k] = Missing]
  /\ UNCHANGED <<asked, answer, closed>>

Clear ==
  /\ ~closed
  /\ store' = [k \in Keys |-> Missing]
  /\ closed' \in BOOLEAN
  /\ UNCHANGED <<asked, answer>>

Ask(t, k) ==
  /\ ~closed
  /\ asked' = [asked EXCEPT ![t] = k]
  /\ UNCHANGED <<store, answer, closed>>

Get(t) ==
  /\ asked[t] \in Keys
  /\ IF closed THEN \E v \in Values \cup {Missing} : answer' = [answer EXCEPT ![t] = v]
               ELSE answer' = [answer EXCEPT ![t] = store[asked[t]]]
  /\ asked' = [asked EXCEPT ![t] = NoKey]
  /\ UNCHANGED <<store, closed>>

Next ==
  \/ \E k \in Keys, v \in Values : Put(k, v)
  \/ \E k \in Keys : Delete(k)
  \/ Clear
  \/ \E t \in Threads : Get(t) \/ \E k \in Keys : Ask(t, k)

Spec == Init /\ [][Next]_kvars
=============================================================================
