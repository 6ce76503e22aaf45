------------------------------- MODULE KeyedLock -------------------------------
(***************************************************************************)
(* createKeyedLock (studio-service/keyedLock.js): a map keeps, per key,    *)
(* the promise of the last call; a call awaits the promise it found there  *)
(* and leaves its own, which it resolves when it is done.  The calls of    *)
(* acquire are numbered in the order in which they run up to their await.  *)
(*                                                                         *)
(* A definition X_Wrong is X with a plausible mistake; no behaviour uses   *)
(* it.                                                                     *)
(***************************************************************************)
EXTENDS Naturals, Sequences

CONSTANTS
  Keys,        \* the users whose data is locked
  MaxCalls     \* bound: calls of acquire

ASSUME CallsAssumption == MaxCalls \in Nat

VARIABLES
  calls,       \* the calls of acquire so far, in order
  tails        \* the map: the call that was last in line, 0 when deleted

vars == << calls, tails >>

CallRecords ==
  [ key      : Keys,
    previous : Nat,      \* the call whose promise it awaits, 0 for none
    pc       : {"waiting", "holding", "released"} ]

TypeOK ==
  /\ calls \in Seq(CallRecords)
  /\ tails \in [Keys -> 0 .. Len(calls)]

Init ==
  /\ calls = << >>
  /\ tails = [k \in Keys |-> 0]

Acquire_Wrong(k) ==
  /\ Len(calls) < MaxCalls
  /\ calls' = Append(calls, [ key |-> k, previous |-> tails[k], pc |-> "waiting" ])
  /\ tails' = IF tails[k] = 0 THEN [tails EXCEPT ![k] = Len(calls) + 1] ELSE tails
Acquire(k) ==
  /\ Len(calls) < MaxCalls
  /\ calls' = Append(calls, [ key |-> k, previous |-> tails[k], pc |-> "waiting" ])
  /\ tails' = [tails EXCEPT ![k] = Len(calls) + 1]

(* The promise that the call awaits is resolved. *)
Enter_Wrong(t) ==
  /\ calls[t].pc = "waiting"
  /\ calls' = [calls EXCEPT ![t].pc = "holding"]
  /\ UNCHANGED tails
Enter(t) ==
  /\ calls[t].pc = "waiting"
  /\ calls[t].previous # 0 => calls[calls[t].previous].pc = "released"
  /\ calls' = [calls EXCEPT ![t].pc = "holding"]
  /\ UNCHANGED tails

Release_Wrong(t) ==
  /\ calls[t].pc = "holding"
  /\ calls' = [calls EXCEPT ![t].pc = "released"]
  /\ tails' = [tails EXCEPT ![calls[t].key] = 0]

(* The entry of the map is deleted only by the last in line.  A second     *)
(* call of the release function returns at once.                           *)
Release(t) ==
  /\ calls[t].pc = "holding"
  /\ calls' = [calls EXCEPT ![t].pc = "released"]
  /\ tails' = IF tails[calls[t].key] = t
              THEN [tails EXCEPT ![calls[t].key] = 0] ELSE tails

Next ==
  \/ \E k \in Keys : Acquire(k)
  \/ \E t \in DOMAIN calls : Enter(t) \/ Release(t)

Spec == Init /\ [][Next]_vars

-------------------------------------------------------------------------------
(* Properties. *)

Line(k) == { t \in DOMAIN calls : calls[t].key = k /\ calls[t].pc # "released" }

Fifo == INSTANCE FifoLock
          WITH line <- [k \in Keys |-> Line(k)], arrived <- Len(calls)

(* The chain of promises is a first come, first served lock per key: a     *)
(* call is done only when all that came before it are (acquire, run).      *)
Implements == Fifo!Spec

(* At most one call per key is between its acquire and its release, and it *)
(* is the first of those that are not done.                                *)
Exclusive ==
  \A t, u \in DOMAIN calls :
    ( /\ calls[t].key = calls[u].key
      /\ t < u
      /\ calls[u].pc # "waiting" ) => calls[t].pc = "released"

(* What makes the chain work: a call that is not done is no later than the *)
(* promise that a later call of its key awaits, nor than the one in the    *)
(* map.                                                                    *)
Chained ==
  /\ \A t \in DOMAIN calls : calls[t].previous < t
  /\ \A t \in DOMAIN calls : calls[t].previous # 0
       => calls[calls[t].previous].key = calls[t].key
  /\ \A t, u \in DOMAIN calls :
       (calls[u].key = calls[t].key /\ u < t)
         => calls[u].pc = "released" \/ u <= calls[t].previous
  /\ \A k \in Keys, t \in DOMAIN calls :
       calls[t].key = k => calls[t].pc = "released" \/ t <= tails[k]
  /\ \A k \in Keys : tails[k] # 0
       => calls[tails[k]].key = k /\ calls[tails[k]].pc # "released"

IInv == TypeOK /\ Chained /\ Exclusive

(* The map holds an entry for a key exactly while a call on the key is not *)
(* done, so that it neither forgets a holder nor grows with the users seen *)
(* (the delete in the release function).                                   *)
MapIsLive == \A k \in Keys : tails[k] # 0 <=> Line(k) # {}
===============================================================================
