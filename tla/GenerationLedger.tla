--------------------------- MODULE GenerationLedger ---------------------------
(***************************************************************************)
(* The part of the billing database that belongs to one generation job:    *)
(* the `generation_charge' row, the metadata kept in it, and the           *)
(* `generation_refund' row (scripts/studio-service/standaloneBilling.js).  *)
(* Every operator is one synchronous SQLite call: it maps the entry of a   *)
(* job before the call to the entry after it.  The state machines that     *)
(* call them are in the modules that extend this one.  A definition        *)
(* X_Wrong is X with a plausible mistake; no behaviour uses it.            *)
(***************************************************************************)
EXTENDS Integers, FiniteSets

CONSTANTS
  Jobs,        \* the job identifiers a client may submit
  Source,      \* Source[j]: whose provider key pays for job j
  Count,       \* Count[j]: the number of outputs ordered (1 for a video)
  Unit         \* Unit[j]: the price of one output, in credits

Sources == {"platform", "legacy-env", "user"}

ASSUME LedgerAssumption ==
  /\ Source \in [Jobs -> Sources]
  /\ Count \in [Jobs -> Nat \ {0}]
  /\ Unit \in [Jobs -> Nat]

(* calculateJobCost: the price is fixed when the job is submitted.         *)
Amount(j) == Unit[j] * Count[j]

Billed(j) == Source[j] \in {"platform", "legacy-env"}

(***************************************************************************)
(* The entry of a job.  task is 0 while no upstream task is attached;      *)
(* delivered is the set of stored outputs, by their index, and back the    *)
(* amount of the refund row.                                               *)
(***************************************************************************)
Entries ==
  [ open : BOOLEAN, task : Nat, delivered : SUBSET Nat, settled : BOOLEAN,
    refunded : BOOLEAN, back : Nat ]

NoEntry ==
  [ open |-> FALSE, task |-> 0, delivered |-> {}, settled |-> FALSE,
    refunded |-> FALSE, back |-> 0 ]

(* reserveCredits writes a row for an amount of zero only when the caller  *)
(* asks for it (recordZero: the platform jobs).                            *)
Recorded(j) == Amount(j) > 0 \/ Source[j] = "platform"

Reserved(j) == [NoEntry EXCEPT !.open = Recorded(j)]

(* The test shared by attachGenerationTask and recordGenerationOutput.     *)
Chargeable(j, e) ==
  /\ e.open
  /\ ~e.refunded
  /\ Source[j] = "platform"
  /\ ~e.settled

CanAttach(j, e, t) == Chargeable(j, e) /\ e.task \in {0, t}

Attached(e, t) == [e EXCEPT !.task = t]

(* Outputs are kept in a set: recording one twice changes nothing.         *)
CanRecord(j, e, o) ==
  Chargeable(j, e) /\ Cardinality(e.delivered \cup {o}) <= Count[j]

RecordedOutput(e, o) == [e EXCEPT !.delivered = @ \cup {o}]

SettledEntry(j, e) ==
  IF e.open /\ Source[j] = "platform" THEN [e EXCEPT !.settled = TRUE] ELSE e

(* refundCredits: what a refund gives back.  The amount the caller passes  *)
(* is ignored; the original charge row decides.                            *)
Refundable_Wrong(j, e) == IF e.open /\ ~e.settled THEN Amount(j) ELSE 0
Refundable(j, e) ==
  CASE ~e.open                                  -> 0
    [] e.open /\ Source[j] # "platform"         -> Amount(j)
    [] e.open /\ Source[j] = "platform" /\ e.settled -> 0
    [] OTHER ->
         LET kept == Cardinality(e.delivered) * Unit[j]
         IN  IF kept < Amount(j) THEN Amount(j) - kept ELSE 0

(* A second refund finds the refund row and pays nothing.                  *)
RefundPaid(j, e) == IF e.refunded THEN 0 ELSE Refundable(j, e)

RefundedEntry(j, e) ==
  IF RefundPaid(j, e) > 0
  THEN [e EXCEPT !.refunded = TRUE, !.back = RefundPaid(j, e)]
  ELSE e

-------------------------------------------------------------------------------
(* What every call preserves: the outputs never exceed the order, money    *)
(* goes back only with a refund row, and the refund of a platform job      *)
(* leaves the price of its delivered outputs.                              *)
EntryOK(j, e) ==
  /\ IsFiniteSet(e.delivered)
  /\ Cardinality(e.delivered) <= Count[j]
  /\ ~e.refunded => e.back = 0
  /\ Source[j] = "platform" /\ e.refunded
       => e.back + Cardinality(e.delivered) * Unit[j] <= Amount(j)
===============================================================================
