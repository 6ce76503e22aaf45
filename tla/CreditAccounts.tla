---------------------------- MODULE CreditAccounts ----------------------------
(***************************************************************************)
(* The credit accounts of the Node service (standaloneBilling.js): the     *)
(* balances, the rows of transactions behind them, the codes that are      *)
(* redeemed for credits, and the settings.  Every operator is one          *)
(* synchronous call, a SQLite transaction: the actions of this module      *)
(* cannot overlap or be cut in two, and it is their order that is free.    *)
(* A row is known by its reference, whose first element is its kind.       *)
(***************************************************************************)
EXTENDS Integers, FiniteSets, Functions

CONSTANTS
  Users,
  Codes,          \* Codes: the credit codes
  Adjustments,    \* references of an administrator's adjustments
  Orders,         \* generation jobs with the provider of the platform
  Quantity,       \* outputs that a job orders
  Worth           \* the credits of a code, a bonus or an adjustment

ASSUME CreditAssumption ==
  /\ Quantity \in Nat \ {0} /\ Worth \in Nat \ {0}
  /\ Users \cap {"none", "active", "disabled"} = {}

VARIABLES
  accounts,       \* user -> balance, lifetime earned and spent
  rows,           \* user -> (reference -> delta)
  charges,        \* job -> the metadata of its charge row, or NoCharge
  codes,          \* code -> "none", "active", "disabled" or its redeemer
  open            \* settings: credits are enabled

creditVars == << accounts, rows, charges, codes, open >>

NoCharge == [ connection |-> << >>, unit |-> 0, task |-> FALSE,
              delivered |-> {}, settled |-> FALSE ]

CreditInit ==
  /\ accounts = [u \in Users |-> [ balance |-> 0, earned |-> 0, spent |-> 0 ]]
  /\ rows = [u \in Users |-> << >>]
  /\ charges = [j \in Orders |-> NoCharge]
  /\ codes = [c \in Codes |-> "none"]
  /\ open = TRUE

Charge(j) == << "generation", j >>
Refund(j) == << "generation-refund", j >>

Earned(ref, delta) ==
  IF ref[1] \in {"registration", "credit-code"} \/ (ref[1] = "admin" /\ delta > 0)
  THEN delta ELSE 0

Spent_Wrong(ref, delta) == IF ref[1] = "generation" THEN -delta ELSE 0
Spent(ref, delta) ==
  IF ref[1] \in {"generation", "generation-refund"} THEN -delta ELSE 0

Has(u, ref) == ref \in DOMAIN rows[u]

Logged(log, ref, delta) ==
  [r \in DOMAIN log \cup {ref} |-> IF r = ref THEN delta ELSE log[r]]

(* applyDelta: a row whose reference is known is not written again; a       *)
(* balance that would fall below zero ends the call with an error.          *)
Post(u, ref, delta) ==
  LET spent == accounts[u].spent + Spent(ref, delta)
  IN  /\ accounts[u].balance + delta >= 0
      /\ accounts' = [accounts EXCEPT ![u] =
           [ balance |-> @.balance + delta,
             earned  |-> @.earned + Earned(ref, delta),
             spent   |-> IF spent < 0 THEN 0 ELSE spent ]]
      /\ rows' = [rows EXCEPT ![u] = Logged(rows[u], ref, delta)]

ApplyDelta(u, ref, delta) ==
  IF Has(u, ref) THEN UNCHANGED << accounts, rows >> ELSE Post(u, ref, delta)

-------------------------------------------------------------------------------
(* Once, when the account is new (register); an interruption may skip it.  *)
GrantRegistrationBonus(u) ==
  /\ rows[u] = << >>
  /\ IF open THEN ApplyDelta(u, << "registration" >>, Worth)
     ELSE UNCHANGED << accounts, rows >>
  /\ UNCHANGED << charges, codes, open >>

AdjustCredits(u, n, delta) ==
  /\ ApplyDelta(u, << "admin", n >>, delta)
  /\ UNCHANGED << charges, codes, open >>

UpdateSettings ==
  /\ open' = ~open
  /\ UNCHANGED << accounts, rows, charges, codes >>

CreateCreditCode(c) ==
  /\ codes[c] = "none"
  /\ codes' = [codes EXCEPT ![c] = "active"]
  /\ UNCHANGED << accounts, rows, charges, open >>

(* A code that was redeemed is not found; a disabled one may be disabled   *)
(* again.                                                                  *)
DisableCreditCode(c) ==
  /\ codes[c] \in {"active", "disabled"}
  /\ codes' = [codes EXCEPT ![c] = "disabled"]
  /\ UNCHANGED << accounts, rows, charges, open >>

(* The balance, the row and the code change in one transaction.            *)
RedeemCreditCode(u, c) ==
  /\ open /\ codes[c] = "active"
  /\ Post(u, << "credit-code", c >>, Worth)
  /\ codes' = [codes EXCEPT ![c] = u]
  /\ UNCHANGED << charges, open >>

(* reserveCredits, for the platform: a row is written even for an amount   *)
(* of zero, and a second reservation of the job is refused.                *)
ReserveCredits(u, j, unit, connection) ==
  /\ ~Has(u, Charge(j))
  /\ Post(u, Charge(j), -unit * Quantity)
  /\ charges' = [charges EXCEPT ![j] =
       [NoCharge EXCEPT !.unit = unit, !.connection = connection]]
  /\ UNCHANGED << codes, open >>

Chargeable(u, j) == Has(u, Charge(j)) /\ ~Has(u, Refund(j)) /\ ~charges[j].settled

AttachGenerationTask(u, j) ==
  /\ Chargeable(u, j)
  /\ charges' = [charges EXCEPT ![j].task = TRUE]
  /\ UNCHANGED << accounts, rows, codes, open >>

RecordGenerationOutput(u, j, output) ==
  /\ Chargeable(u, j)
  /\ Cardinality(charges[j].delivered \cup {output}) <= Quantity
  /\ charges' = [charges EXCEPT ![j].delivered = @ \cup {output}]
  /\ UNCHANGED << accounts, rows, codes, open >>

SettleGenerationCharge(u, j) ==
  /\ Has(u, Charge(j))
  /\ charges' = [charges EXCEPT ![j].settled = TRUE]
  /\ UNCHANGED << accounts, rows, codes, open >>

(* refundCredits: what the charge row leaves to give back. *)
Refundable(u, j) ==
  IF ~Has(u, Charge(j)) \/ charges[j].settled THEN 0
  ELSE charges[j].unit * (Quantity - Cardinality(charges[j].delivered))

RefundCredits(u, j) ==
  /\ IF Refundable(u, j) = 0 THEN UNCHANGED << accounts, rows >>
     ELSE ApplyDelta(u, Refund(j), Refundable(u, j))
  /\ UNCHANGED << charges, codes, open >>

(* The calls of an administrator and of a user outside of a generation.    *)
CreditNext ==
  \/ \E u \in Users : GrantRegistrationBonus(u)
  \/ \E u \in Users, n \in Adjustments, delta \in {-Worth, Worth} :
       AdjustCredits(u, n, delta)
  \/ UpdateSettings
  \/ \E c \in Codes : CreateCreditCode(c) \/ DisableCreditCode(c)
  \/ \E u \in Users, c \in Codes : RedeemCreditCode(u, c)

-------------------------------------------------------------------------------
(* Properties. *)

(* The account of a user is what its rows add up to, for the balance and   *)
(* for what was earned and spent, whatever the order of the calls: no      *)
(* refund exceeds its charge, no credit is counted without its row, and a  *)
(* code was paid to its redeemer, once (applyDelta, redeemCreditCode).     *)
BooksBalance ==
  \A u \in Users :
    LET Total(f(_, _)) == SumFunction([ref \in DOMAIN rows[u] |-> f(ref, rows[u][ref])])
        Delta(ref, delta) == delta
        Sold(ref, delta) == IF ref[1] \in {"generation", "generation-refund"}
                            THEN -delta ELSE 0
    IN  /\ accounts[u].balance = Total(Delta)
        /\ accounts[u].earned = Total(Earned)
        /\ accounts[u].spent = Total(Sold)
        /\ \A c \in Codes : Has(u, << "credit-code", c >>) <=> codes[c] = u
===============================================================================
