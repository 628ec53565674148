-------------------------- MODULE ReliableEvents ---------------------------
(***************************************************************************)
(* What the server promises an application about its events, without       *)
(* mutexes, buffers, connections or crashes:                               *)
(*   - events carry increasing cursors and wait until they are confirmed;  *)
(*   - a pending event may arrive any number of times;                     *)
(*   - confirming a cursor confirms every pending event up to it, and this *)
(*     happens only once all of them have arrived;                         *)
(*   - a pending event may be revoked with the access it stems from, and   *)
(*     all of them disappear with the application.                         *)
(***************************************************************************)
EXTENDS Naturals

CONSTANTS Apps, MaxId

VARIABLES
  pending,    \* pending[a]: cursors of events not yet confirmed
  confirmed,  \* confirmed[a]: highest confirmed cursor
  arrived,    \* arrived[a]: cursors the application has received
  lastCursor  \* last cursor that was allocated, over all applications

vars == <<pending, confirmed, arrived, lastCursor>>

Init ==
  /\ pending = [a \in Apps |-> {}]
  /\ confirmed = [a \in Apps |-> 0]
  /\ arrived = [a \in Apps |-> {}]
  /\ lastCursor = 0

\* Cursors are allocated, in increasing order; a transaction that rolls back
\* leaves its cursors unused.
Allocate ==
  /\ \E n \in 1..MaxId : n > lastCursor /\ lastCursor' = n
  /\ UNCHANGED <<pending, confirmed, arrived>>

\* One transaction makes its events pending, above everything any of the
\* applications has seen or confirmed.
Publish ==
  \E new \in [Apps -> SUBSET (1..lastCursor)] :
    /\ \A a \in Apps : \A i \in new[a] :
         i > confirmed[a] /\ \A j \in pending[a] \cup arrived[a] : i > j
    /\ pending' = [a \in Apps |-> pending[a] \cup new[a]]
    /\ UNCHANGED <<confirmed, arrived, lastCursor>>

\* An event that is, or was, pending reaches the application.
Arrive(a) ==
  /\ \E i \in 1..lastCursor : arrived' = [arrived EXCEPT ![a] = @ \cup {i}]
  /\ \A i \in pending[a] : \A j \in arrived'[a] : i < j => i \in arrived'[a]
  /\ UNCHANGED <<pending, confirmed, lastCursor>>

Confirm(a) ==
  /\ \E k \in arrived[a] :
       /\ {i \in pending[a] : i <= k} \subseteq arrived[a]
       /\ pending' = [pending EXCEPT ![a] = {i \in @ : i > k}]
       /\ confirmed' = [confirmed EXCEPT ![a] = IF @ < k THEN k ELSE @]
  /\ UNCHANGED <<arrived, lastCursor>>

Revoke(a) ==
  /\ \E gone \in SUBSET pending[a] : pending' = [pending EXCEPT ![a] = @ \ gone]
  /\ UNCHANGED <<confirmed, arrived, lastCursor>>

Remove(a) ==
  /\ pending' = [pending EXCEPT ![a] = {}]
  /\ confirmed' = [confirmed EXCEPT ![a] = 0]
  /\ UNCHANGED <<arrived, lastCursor>>

Next ==
  \/ Allocate
  \/ Publish
  \/ \E a \in Apps : Arrive(a) \/ Confirm(a) \/ Revoke(a) \/ Remove(a)

Spec == Init /\ [][Next]_vars
=============================================================================
