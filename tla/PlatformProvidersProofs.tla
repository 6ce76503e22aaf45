------------------------ MODULE PlatformProvidersProofs ------------------------
(***************************************************************************)
(* Theorems about PlatformProviders, for any models, discoveries, jobs and *)
(* bounds: what is offered was reported by the connection that is saved    *)
(* and is what the administrator chose, a job runs on the connection it    *)
(* was charged for, and the accounts are what their rows add up to.        *)
(***************************************************************************)
EXTENDS PlatformProviders, FiniteSetTheorems, TLAPS

-------------------------------------------------------------------------------
(* Jobs.                                                                   *)

IsCharge(c) ==
  c \in [ connection : {c.connection}, unit : {c.unit}, task : {c.task},
          delivered : {c.delivered}, settled : {c.settled} ]

IsJob(job) ==
  job \in [ status : {job.status}, owner : {job.owner}, model : {job.model},
            runtime : {job.runtime} ]

(* RunsAsCharged, over charges and jobs that are records. *)
JobsInv ==
  /\ DOMAIN charges = Orders /\ DOMAIN jobs = Orders
  /\ \A j \in Orders : IsCharge(charges[j]) /\ IsJob(jobs[j])
  /\ RunsAsCharged

LEMMA JobsInit == PlatformInit => JobsInv
<1> SUFFICES ASSUME PlatformInit
             PROVE  JobsInv
  OBVIOUS
<1> DEFINE job == [ status |-> "none", owner |-> "nobody", model |-> "none",
                    runtime |-> NoRuntime ]
<1>1. IsCharge(NoCharge) /\ IsJob(job)
  BY DEF IsCharge, IsJob, NoCharge
<1>2. charges = [j \in Orders |-> NoCharge] /\ jobs = [j \in Orders |-> job]
  BY DEF PlatformInit, CreditInit
<1>3. job.runtime = NoRuntime
  OBVIOUS
<1> HIDE DEF job
<1> QED  BY <1>1, <1>2, <1>3 DEF JobsInv, RunsAsCharged, InMemory

(* The charge of a job changes, but for the connection it names.           *)
LEMMA ChargeKeepsJobs ==
  ASSUME JobsInv, NEW j \in Orders, NEW c, IsCharge(c),
         c.connection = charges[j].connection, charges' = [charges EXCEPT ![j] = c],
         \/ UNCHANGED jobs
         \/ \E status : jobs' = [jobs EXCEPT ![j].status = status]
         \/ \E status : End(j, status)
  PROVE  JobsInv'
  BY DEF JobsInv, IsJob, RunsAsCharged, InMemory, End, NoRuntime

LEMMA JobsStep == JobsInv /\ [PlatformNext]_allVars => JobsInv'
<1> SUFFICES ASSUME JobsInv, [PlatformNext]_allVars
             PROVE  JobsInv'
  OBVIOUS
<1>1. CASE UNCHANGED << charges, jobs >>
  BY <1>1 DEF JobsInv, IsCharge, IsJob, RunsAsCharged, InMemory
<1>2. ASSUME NEW u \in Users, NEW j \in Orders, NEW m \in Models, Submit(u, j, m)
      PROVE  JobsInv'
  <2> DEFINE c == [NoCharge EXCEPT !.unit = provider.models[m].price,
                                   !.connection = Connection(provider)]
             job == [ status |-> "running", owner |-> u, model |-> m,
                      runtime |-> Connection(provider) ]
  <2>1. IsCharge(c) /\ c.connection = Connection(provider)
    BY DEF IsCharge, NoCharge
  <2>2. IsJob(job) /\ job.runtime = Connection(provider)
    BY DEF IsJob
  <2>3. charges' = [charges EXCEPT ![j] = c] /\ jobs' = [jobs EXCEPT ![j] = job]
    BY <1>2 DEF Submit, ReserveCredits
  <2> HIDE DEF c, job
  <2> QED  BY <2>1, <2>2, <2>3 DEF JobsInv, RunsAsCharged, InMemory
<1>3. ASSUME NEW j \in Orders, Attach(j)
      PROVE  JobsInv'
  <2> DEFINE c == [charges[j] EXCEPT !.task = TRUE]
  <2>1. IsCharge(c) /\ c.connection = charges[j].connection
    BY DEF JobsInv, IsCharge
  <2>2. /\ charges' = [charges EXCEPT ![j] = c]
        /\ \E status : jobs' = [jobs EXCEPT ![j].status = status]
    BY <1>3 DEF Attach, AttachGenerationTask
  <2> QED  BY <2>1, <2>2, ChargeKeepsJobs
<1>4. ASSUME NEW j \in Orders, NEW output \in 1 .. Quantity, Deliver(j, output)
      PROVE  JobsInv'
  <2> DEFINE c == [charges[j] EXCEPT !.delivered = @ \cup {output}]
  <2>1. IsCharge(c) /\ c.connection = charges[j].connection
    BY DEF JobsInv, IsCharge
  <2>2. charges' = [charges EXCEPT ![j] = c] /\ UNCHANGED jobs
    BY <1>4 DEF Deliver, RecordGenerationOutput, platformVars
  <2> QED  BY <2>1, <2>2, ChargeKeepsJobs
<1>5. ASSUME NEW j \in Orders, Complete(j)
      PROVE  JobsInv'
  <2> DEFINE c == [charges[j] EXCEPT !.settled = TRUE]
  <2>1. IsCharge(c) /\ c.connection = charges[j].connection
    BY DEF JobsInv, IsCharge
  <2>2. charges' = [charges EXCEPT ![j] = c] /\ \E status : End(j, status)
    BY <1>5 DEF Complete, SettleGenerationCharge
  <2> QED  BY <2>1, <2>2, ChargeKeepsJobs
<1>6. ASSUME NEW j \in Orders, UNCHANGED charges, \E status : End(j, status)
      PROVE  JobsInv'
  BY <1>6 DEF End, JobsInv, IsCharge, IsJob, RunsAsCharged, InMemory, NoRuntime
<1>7. ASSUME NEW j \in Orders, Recover(j)
      PROVE  JobsInv'
  <2>1. UNCHANGED charges
    BY <1>7 DEF Recover, creditVars
  <2>2. CASE \E status : End(j, status)
    BY <1>6, <2>1, <2>2
  <2>3. CASE /\ SameConnection(j)
             /\ jobs' = [jobs EXCEPT ![j].runtime = Connection(provider)]
    BY <2>1, <2>3 DEF SameConnection, JobsInv, IsCharge, IsJob, RunsAsCharged, InMemory
  <2> QED  BY <1>7, <2>2, <2>3 DEF Recover
<1>8. CASE Crash
  BY <1>8 DEF Crash, creditVars, JobsInv, IsCharge, IsJob, RunsAsCharged, InMemory, NoRuntime
<1>9. CASE CreditNext /\ UNCHANGED platformVars
  BY <1>1, <1>9
     DEF CreditNext, platformVars, GrantRegistrationBonus, AdjustCredits, UpdateSettings,
         CreateCreditCode, DisableCreditCode, RedeemCreditCode
<1>10. ASSUME NEW url \in Urls, NEW key \in {"keep", "new", "clear"},
              NEW choice \in [Models -> Choices], NEW enabled \in BOOLEAN,
              Save(url, key, choice, enabled)
       PROVE  UNCHANGED << charges, jobs >>
  BY <1>10 DEF Save, creditVars
<1>11. ASSUME NEW s \in Syncs,
              BeginSync(s) \/ FailSync(s) \/ \E found \in SUBSET Models : FinishSync(s, found)
       PROVE  UNCHANGED << charges, jobs >>
  BY <1>11 DEF BeginSync, FailSync, FinishSync, creditVars
<1>12. CASE Remove \/ UNCHANGED allVars
  BY <1>1, <1>12 DEF Remove, creditVars, platformVars, allVars
<1>13. ASSUME NEW j \in Orders, Fail(j)
       PROVE  JobsInv'
  BY <1>6, <1>13 DEF Fail, RefundCredits
<1> QED
  BY <1>1, <1>2, <1>3, <1>4, <1>5, <1>7, <1>8, <1>9, <1>10, <1>11, <1>12, <1>13
     DEF PlatformNext

(* A restart in any state, a changed or removed provider: whatever runs a  *)
(* paid job uses the connection its charge names.                          *)
THEOREM PaidForRuns == PlatformSpec => []RunsAsCharged
<1>1. JobsInv => RunsAsCharged
  BY DEF JobsInv
<1> QED  BY <1>1, JobsInit, JobsStep, PTL DEF PlatformSpec

-------------------------------------------------------------------------------
(* The provider and its discoveries.                                       *)

Model == [ listed : BOOLEAN, enabled : BOOLEAN, available : BOOLEAN,
           price : Prices \cup {Unpriced} ]
Row(r) ==
  r \in [ url : {r.url}, secret : Nat, enabled : BOOLEAN, revision : Nat \ {0},
          models : [Models -> Model] ]

(* A discovery that is under way read a row that was saved: the present    *)
(* one, unless that has another revision.                                  *)
ProviderInv ==
  /\ revision \in Nat
  /\ Exists => Row(provider) /\ provider.revision <= revision
  /\ chosen \in [Models -> Model]
  /\ DOMAIN syncs = Syncs
  /\ \A s \in Syncs :
       syncs[s] # NoProvider =>
         /\ Row(syncs[s]) /\ syncs[s].revision <= revision
         /\ Unchanged(syncs[s]) => provider = syncs[s]
  /\ OffersReported
  /\ ChoicesStand

LEMMA ChoiceFields ==
  ASSUME NEW model \in Model
  PROVE  /\ Choice(model) \in Model /\ Choice(model).available = FALSE
         /\ Choice(model).listed = model.listed /\ Choice(model).enabled = model.enabled
         /\ Choice(model).price = model.price
  BY DEF Model, Choice

LEMMA DiscoveredFields ==
  ASSUME NEW models \in [Models -> Model], NEW found \in SUBSET Models
  PROVE  /\ Discovered(models, found) \in [Models -> Model]
         /\ \A m \in Models :
              /\ Discovered(models, found)[m].available = (m \in found)
              /\ Discovered(models, found)[m].listed = (models[m].listed \/ m \in found)
              /\ Discovered(models, found)[m].enabled = models[m].enabled
              /\ Discovered(models, found)[m].price = models[m].price
  BY DEF Discovered, Model

LEMMA RowIsProvider == \A r : Row(r) => r # NoProvider /\ r.revision > 0
<1> SUFFICES ASSUME NEW r, Row(r)
             PROVE  r # NoProvider /\ r.revision > 0
  OBVIOUS
<1>1. r.revision \in Nat \ {0}
  BY DEF Row
<1>2. NoProvider.revision = 0
  BY DEF NoProvider
<1> QED  BY <1>1, <1>2

LEMMA ProviderInit == PlatformInit => ProviderInv
<1> SUFFICES ASSUME PlatformInit
             PROVE  ProviderInv
  OBVIOUS
<1>1. revision = 1 /\ DOMAIN syncs = Syncs /\ \A s \in Syncs : syncs[s] = NoProvider
  BY DEF PlatformInit
<1>2. CASE provider = NoProvider /\ chosen = [m \in Models |-> NoModel]
  <2>1. NoModel \in Model
    BY DEF NoModel, Model, Unpriced
  <2>2. chosen \in [Models -> Model]
    BY <1>2, <2>1
  <2>3. OffersReported /\ ChoicesStand
    BY <1>2 DEF OffersReported, ChoicesStand, Exists
  <2> QED  BY <1>1, <1>2, <2>2, <2>3 DEF ProviderInv, Exists
<1>3. ASSUME NEW url \in Urls, NEW price \in Prices, provider = Serving(url, price),
             reported = Models, chosen = [m \in Models |-> Choice(provider.models[m])]
      PROVE  ProviderInv
  <2>1. Row(provider) /\ provider.revision = 1
    BY <1>3, PriceAssumption DEF Row, Serving, Model, PriceAssumption
  <2>2. \A m \in Models : Choice(provider.models[m]) \in Model
    BY <2>1, ChoiceFields DEF Row
  <2>3. OffersReported /\ ChoicesStand
    BY <1>3, <2>1, ChoiceFields DEF OffersReported, ChoicesStand, Settings, Row
  <2>4. chosen \in [Models -> Model]
    BY <1>3, <2>2
  <2> QED  BY <1>1, <2>1, <2>3, <2>4 DEF ProviderInv
<1>4. \/ provider = NoProvider /\ chosen = [m \in Models |-> NoModel]
      \/ \E url \in Urls, price \in Prices :
           /\ provider = Serving(url, price) /\ reported = Models
           /\ chosen = [m \in Models |-> Choice(provider.models[m])]
  BY Zenon DEF PlatformInit
<1> QED  BY <1>2, <1>3, <1>4, Zenon

(* A row is written under a new revision: no discovery under way has it.   *)
LEMMA WriteKeepsProvider ==
  ASSUME ProviderInv, NEW url, NEW secret \in Nat, NEW enabled \in BOOLEAN,
         NEW models \in [Models -> Model], Write(url, secret, enabled, models),
         chosen' \in [Models -> Model],
         \A m \in Models : /\ models[m].available => m \in reported'
                           /\ Settings(models[m]) = Settings(chosen'[m]),
         UNCHANGED syncs \/ \E s \in Syncs : syncs' = [syncs EXCEPT ![s] = NoProvider]
  PROVE  ProviderInv'
<1>1. /\ revision' = revision + 1 /\ revision \in Nat
      /\ provider'.revision = revision + 1 /\ provider'.models = models /\ Row(provider')
  BY DEF Write, ProviderInv, Row
<1>2. OffersReported' /\ ChoicesStand'
  BY <1>1 DEF OffersReported, ChoicesStand
<1>3. ASSUME NEW s \in Syncs, syncs'[s] # NoProvider
      PROVE  /\ Row(syncs'[s]) /\ syncs'[s].revision <= revision'
             /\ ~Unchanged(syncs[s])' /\ syncs'[s] = syncs[s]
  <2>1. /\ syncs'[s] = syncs[s] /\ Row(syncs[s]) /\ syncs[s].revision <= revision
        /\ syncs[s].revision \in Nat
    BY <1>3 DEF ProviderInv, Row
  <2> QED  BY <1>1, <2>1 DEF Unchanged
<1> QED  BY <1>1, <1>2, <1>3 DEF ProviderInv, Unchanged

LEMMA SaveKeepsProvider ==
  ASSUME ProviderInv, NEW url \in Urls, NEW key \in {"keep", "new", "clear"},
         NEW choice \in [Models -> Choices], NEW enabled \in BOOLEAN,
         Save(url, key, choice, enabled)
  PROVE  ProviderInv'
<1> DEFINE secret  == CASE key = "new" -> revision + 1
                        [] key = "clear" -> 0
                        [] OTHER -> Old.secret
           changed == Exists /\ (url # Old.url \/ secret # Old.secret)
           kept    == Normalized(choice, Old.models)
           models  == IF changed THEN Unavailable(kept) ELSE kept
<1>1. /\ Write(url, secret, enabled, models) /\ UNCHANGED syncs
      /\ chosen' = [m \in Models |-> Choice(models[m])]
      /\ reported' = IF changed THEN {} ELSE reported
  BY DEF Save
<1>2. revision \in Nat /\ Old.secret \in Nat /\ Old.models \in [Models -> Model]
  BY DEF ProviderInv, Old, Row, NoModel, Model, Unpriced
<1>3. /\ kept \in [Models -> Model]
      /\ \A m \in Models : kept[m].available => Old.models[m].available
  <2>1. Choices \subseteq Model
    <3>1. ASSUME NEW enable \in BOOLEAN, NEW price \in Prices \cup {Unpriced}
          PROVE  [ listed |-> TRUE, enabled |-> enable, available |-> FALSE,
                   price |-> price ] \in Model
      BY PriceAssumption DEF PriceAssumption, Model, Unpriced
    <3>3. NoModel \in Model
      BY DEF NoModel, Model, Unpriced
    <3> QED  BY <3>1, <3>3 DEF Choices
  <2>2. ASSUME NEW m \in Models
        PROVE  kept[m] \in Model /\ (kept[m].available => Old.models[m].available)
    <3>1. choice[m] \in Model /\ Old.models[m] \in Model
      BY <1>2, <2>1
    <3>2. kept[m] = [choice[m] EXCEPT !.available =
                       choice[m].listed /\ Old.models[m].available]
      BY DEF Normalized
    <3> QED  BY <3>1, <3>2 DEF Model
  <2>3. kept \in [Models -> Model]
    BY <2>2 DEF Normalized
  <2> QED  BY <2>2, <2>3
<1>4. /\ models \in [Models -> Model]
      /\ \A m \in Models : models[m].available => ~changed /\ Old.models[m].available
  BY <1>3 DEF Unavailable, Model
<1>5. \A m \in Models : Old.models[m].available => m \in reported
  BY DEF Old, NoModel, ProviderInv, OffersReported
<1>6. /\ chosen' \in [Models -> Model]
      /\ \A m \in Models : Settings(models[m]) = Settings(chosen'[m])
  BY <1>1, <1>4, ChoiceFields DEF Settings
<1>7. secret \in Nat
  BY <1>2
<1> HIDE DEF secret, models, changed, kept
<1>9. \A m \in Models : models[m].available => m \in reported'
  BY <1>1, <1>4, <1>5
<1> QED  BY <1>1, <1>4, <1>6, <1>7, <1>9, WriteKeepsProvider

LEMMA FinishKeepsProvider ==
  ASSUME ProviderInv, NEW s \in Syncs, NEW found \in SUBSET Models, FinishSync(s, found)
  PROVE  ProviderInv'
<1> DEFINE models == Discovered(provider.models, found)
<1>1. /\ Write(provider.url, provider.secret, provider.enabled, models)
      /\ syncs' = [syncs EXCEPT ![s] = NoProvider]
      /\ syncs[s] = provider /\ Row(provider) /\ Exists
      /\ reported' = reported \cup found
      /\ chosen' = [m \in Models |-> IF m \in found THEN [chosen[m] EXCEPT !.listed = TRUE]
                                     ELSE chosen[m]]
  BY DEF FinishSync, ProviderInv, Unchanged
<1>2. /\ revision \in Nat /\ chosen \in [Models -> Model]
      /\ provider.models \in [Models -> Model]
  BY <1>1 DEF ProviderInv, Row
<1>3. models \in [Models -> Model]
      /\ provider.secret \in Nat /\ provider.enabled \in BOOLEAN
  BY <1>1, <1>2, DiscoveredFields DEF Row
<1>4. chosen' \in [Models -> Model]
  <2>1. ASSUME NEW m \in Models
        PROVE  chosen[m] \in Model /\ [chosen[m] EXCEPT !.listed = TRUE] \in Model
    <3>1. chosen[m] \in Model
      BY <1>2
    <3> QED  BY <3>1 DEF Model
  <2> QED  BY <1>1, <2>1
<1>5. ASSUME NEW m \in Models
      PROVE  /\ models[m].available => m \in reported'
             /\ Settings(models[m]) = Settings(chosen'[m])
  <2>1. Settings(provider.models[m]) = Settings(chosen[m])
    BY <1>1 DEF ProviderInv, ChoicesStand
  <2>2. models[m].available = (m \in found)
    BY <1>2, <1>3, DiscoveredFields
  <2>3. /\ provider.models[m].listed = chosen[m].listed
        /\ provider.models[m].enabled = chosen[m].enabled
        /\ provider.models[m].price = chosen[m].price
    BY <2>1 DEF Settings
  <2>4. /\ models[m].listed = (provider.models[m].listed \/ m \in found)
        /\ models[m].enabled = provider.models[m].enabled
        /\ models[m].price = provider.models[m].price
    BY <1>2, <1>3, DiscoveredFields
  <2>5. provider.models[m] \in Model /\ chosen[m] \in Model
    BY <1>2
  <2>6. /\ chosen'[m].listed = (chosen[m].listed \/ m \in found)
        /\ chosen'[m].enabled = chosen[m].enabled
        /\ chosen'[m].price = chosen[m].price
    BY <1>1, <2>5 DEF Model
  <2>7. Settings(models[m]) = Settings(chosen'[m])
    BY <2>3, <2>4, <2>6 DEF Settings
  <2> QED  BY <1>1, <2>2, <2>7
<1>6. /\ Write(provider.url, provider.secret, provider.enabled, models)
      /\ UNCHANGED syncs \/ \E t \in Syncs : syncs' = [syncs EXCEPT ![t] = NoProvider]
  BY <1>1
<1> HIDE DEF models
<1> QED  BY <1>3, <1>4, <1>5, <1>6, WriteKeepsProvider

LEMMA ProviderStep == ProviderInv /\ [PlatformNext]_allVars => ProviderInv'
<1> SUFFICES ASSUME ProviderInv, [PlatformNext]_allVars
             PROVE  ProviderInv'
  OBVIOUS
<1>1. CASE UNCHANGED << provider, revision, syncs, reported, chosen >>
  BY <1>1 DEF ProviderInv, Exists, Unchanged, OffersReported, ChoicesStand
<1>2. CASE Remove
  BY <1>2 DEF Remove, ProviderInv, Exists, Unchanged, OffersReported, ChoicesStand,
              NoModel, Model, Unpriced
<1>3. ASSUME NEW s \in Syncs, BeginSync(s)
      PROVE  ProviderInv'
  BY <1>3 DEF BeginSync, ProviderInv, Exists, Unchanged, OffersReported, ChoicesStand
<1>4. ASSUME NEW s \in Syncs, FailSync(s)
      PROVE  ProviderInv'
  BY <1>4 DEF FailSync, ProviderInv, Exists, Unchanged, OffersReported, ChoicesStand
<1>5. CASE Crash
  BY <1>5 DEF Crash, ProviderInv, Exists, Unchanged, OffersReported, ChoicesStand
<1>6. ASSUME NEW u \in Users, NEW j \in Orders, NEW m \in Models, Submit(u, j, m)
      PROVE  ProviderInv'
  BY <1>1, <1>6 DEF Submit
<1>7. ASSUME NEW j \in Orders, Attach(j) \/ Complete(j) \/ Fail(j) \/ Recover(j)
      PROVE  ProviderInv'
  BY <1>1, <1>7 DEF Attach, Complete, Fail, Recover
<1>8. ASSUME NEW j \in Orders, NEW output \in 1 .. Quantity, Deliver(j, output)
      PROVE  ProviderInv'
  BY <1>1, <1>8 DEF Deliver, platformVars
<1>9. CASE (CreditNext /\ UNCHANGED platformVars) \/ UNCHANGED allVars
  BY <1>1, <1>9 DEF platformVars, allVars
<1> QED
  BY <1>2, <1>3, <1>4, <1>5, <1>6, <1>7, <1>8, <1>9, SaveKeepsProvider, FinishKeepsProvider
     DEF PlatformNext

(* What is available was reported by the connection that is saved now,     *)
(* whatever overlaps a discovery.                                          *)
THEOREM OffersAreReported == PlatformSpec => []OffersReported
<1>1. ProviderInv => OffersReported
  BY DEF ProviderInv
<1> QED  BY <1>1, ProviderInit, ProviderStep, PTL DEF PlatformSpec

(* The administrator's choices outlive every discovery.                    *)
THEOREM ChoicesAreKept == PlatformSpec => []ChoicesStand
<1>1. ProviderInv => ChoicesStand
  BY DEF ProviderInv
<1> QED  BY <1>1, ProviderInit, ProviderStep, PTL DEF PlatformSpec

-------------------------------------------------------------------------------
(* The sum over a finite set, as the fold computes it. Induction is by the *)
(* smallest subset for which a claim would fail, so that no theorem with a *)
(* predicate as its parameter is needed.                                   *)

(* A function that sums f over the subsets of T, as the fold defines it.   *)
Any(s) == CHOOSE x \in s : TRUE
Sums(f, T, g) ==
  g = [s \in SUBSET T |-> IF s = {} THEN 0 ELSE f[Any(s)] + g[s \ {Any(s)}]]
SumOf(f, S) == FoldFunctionOnSet(+, 0, f, S)

(* Induction over a finite set: among some of its subsets, one has no      *)
(* other within.                                                           *)
LEMMA SmallestSubset ==
  ASSUME NEW S, IsFiniteSet(S), NEW T, T \subseteq SUBSET S, T # {}
  PROVE  \E x \in T : \A y \in T : y \subseteq x => y = x
<1>1. IsWellFoundedOn(StrictSubsetOrdering(S), SUBSET S)
  BY FS_StrictSubsetOrderingWellFounded, FS_FiniteSubsetsOfFinite
<1>2. PICK x \in T : \A y \in T : << y, x >> \notin StrictSubsetOrdering(S)
  BY <1>1, WFMin
<1> QED  BY <1>2 DEF StrictSubsetOrdering

LEMMA AnyIsOne ==
  ASSUME NEW s, s # {}
  PROVE  Any(s) \in s
BY DEF Any

LEMMA SumsAt ==
  ASSUME NEW f, NEW T, NEW g, Sums(f, T, g), NEW s \in SUBSET T
  PROVE  g[s] = IF s = {} THEN 0 ELSE f[Any(s)] + g[s \ {Any(s)}]
BY DEF Sums

(* There is at most one such function,                                     *)
LEMMA SumsUnique ==
  ASSUME NEW f, NEW S, IsFiniteSet(S), NEW g, NEW h, Sums(f, S, g), Sums(f, S, h)
  PROVE  g = h
<1> DEFINE Bad == { s \in SUBSET S : g[s] # h[s] }
<1>1. Bad = {}
  <2> SUFFICES ASSUME Bad # {} PROVE FALSE
    OBVIOUS
  <2>1. PICK s \in Bad : \A y \in Bad : y \subseteq s => y = s
    <3>1. Bad \subseteq SUBSET S
      OBVIOUS
    <3> HIDE DEF Bad
    <3> QED  BY <3>1, SmallestSubset
  <2>2. s \in SUBSET S /\ g[s] # h[s]
    BY <2>1
  <2>3. s # {}
    BY <2>2, SumsAt
  <2>4. s \ {Any(s)} \in SUBSET S /\ s \ {Any(s)} # s
    BY <2>2, <2>3, AnyIsOne
  <2>5. g[s \ {Any(s)}] = h[s \ {Any(s)}]
    BY <2>1, <2>4
  <2> QED  BY <2>2, <2>3, <2>5, SumsAt
<1>2. \A s \in SUBSET S : g[s] = h[s]
  BY <1>1
<1>3. g = [s \in SUBSET S |-> g[s]] /\ h = [s \in SUBSET S |-> h[s]]
  BY DEF Sums
<1> QED  BY <1>2, <1>3

(* which sums over fewer sets just as well,                                *)
LEMMA SumsRestrict ==
  ASSUME NEW f, NEW S, NEW g, Sums(f, S, g), NEW T \in SUBSET S
  PROVE  Sums(f, T, [s \in SUBSET T |-> g[s]])
<1> DEFINE h == [s \in SUBSET T |-> g[s]]
<1>1. \A s \in SUBSET T : h[s] = IF s = {} THEN 0 ELSE f[Any(s)] + h[s \ {Any(s)}]
  <2> TAKE s \in SUBSET T
  <2>1. h[s] = g[s] /\ h[s \ {Any(s)}] = g[s \ {Any(s)}]
    OBVIOUS
  <2> HIDE DEF h
  <2> QED  BY <2>1, SumsAt
<1>2. h = [s \in SUBSET T |-> h[s]]
  OBVIOUS
<1> HIDE DEF h
<1>3. h = [s \in SUBSET T |-> IF s = {} THEN 0 ELSE f[Any(s)] + h[s \ {Any(s)}]]
  BY <1>1, <1>2
<1>4. Sums(f, T, h)
  BY <1>3 DEF Sums
<1> QED  BY <1>4 DEF h

(* and there is one: the smallest set without it would be built from the   *)
(* functions of its subsets.                                               *)
LEMMA SumsExist ==
  ASSUME NEW f, NEW S, IsFiniteSet(S)
  PROVE  \E g : Sums(f, S, g)
<1> DEFINE Bad == { T \in SUBSET S : ~ \E g : Sums(f, T, g) }
           Part(s) == CHOOSE g : Sums(f, s, g)
<1> SUFFICES ASSUME Bad # {} PROVE FALSE
  OBVIOUS
<1>1. PICK T \in Bad : \A y \in Bad : y \subseteq T => y = T
  <2>1. Bad \subseteq SUBSET S
    OBVIOUS
  <2> HIDE DEF Bad
  <2> QED  BY <2>1, SmallestSubset
<1>2. T \in SUBSET S /\ IsFiniteSet(T) /\ ~ \E g : Sums(f, T, g)
  BY <1>1, FS_Subset
<1>3. \A s \in SUBSET T : s # T => Sums(f, s, Part(s))
  BY <1>1, <1>2
<1>4. ASSUME NEW r \in SUBSET T, r # T, NEW q \in SUBSET r
      PROVE  Part(r)[q] = Part(q)[q]
  <2>1. Sums(f, q, [s \in SUBSET q |-> Part(r)[s]])
    BY <1>3, <1>4, SumsRestrict
  <2>2. Sums(f, q, Part(q)) /\ IsFiniteSet(q)
    BY <1>2, <1>3, <1>4, FS_Subset
  <2>3. [s \in SUBSET q |-> Part(r)[s]] = Part(q)
    <3> HIDE DEF Part
    <3> QED  BY <2>1, <2>2, SumsUnique
  <2>4. [s \in SUBSET q |-> Part(r)[s]][q] = Part(r)[q]
    OBVIOUS
  <2> QED  BY <2>3, <2>4
<1> DEFINE g == [s \in SUBSET T |->
                  IF s = {} THEN 0 ELSE f[Any(s)] + Part(s \ {Any(s)})[s \ {Any(s)}]]
<1>5. ASSUME NEW s \in SUBSET T, s # {}
      PROVE  g[s \ {Any(s)}] = Part(s \ {Any(s)})[s \ {Any(s)}]
  <2> DEFINE r == s \ {Any(s)}
             q == r \ {Any(r)}
  <2>1. r \in SUBSET T /\ r # T /\ q \in SUBSET r
    BY <1>5, AnyIsOne
  <2>2. Part(r)[r] = IF r = {} THEN 0 ELSE f[Any(r)] + Part(r)[q]
    <3> HIDE DEF r, Part
    <3> QED  BY <1>3, <2>1, SumsAt
  <2>3. Part(r)[q] = Part(q)[q]
    BY <1>4, <2>1
  <2>4. g[r] = IF r = {} THEN 0 ELSE f[Any(r)] + Part(q)[q]
    BY <2>1
  <2> HIDE DEF g, Part, q
  <2> QED  BY <2>2, <2>3, <2>4
<1>6. \A s \in SUBSET T : g[s] = IF s = {} THEN 0 ELSE f[Any(s)] + g[s \ {Any(s)}]
  <2> TAKE s \in SUBSET T
  <2>1. g[s] = IF s = {} THEN 0 ELSE f[Any(s)] + Part(s \ {Any(s)})[s \ {Any(s)}]
    OBVIOUS
  <2> HIDE DEF g, Part
  <2> QED  BY <1>5, <2>1
<1>7. g = [s \in SUBSET T |-> g[s]]
  OBVIOUS
<1> HIDE DEF g
<1>8. g = [s \in SUBSET T |-> IF s = {} THEN 0 ELSE f[Any(s)] + g[s \ {Any(s)}]]
  BY <1>6, <1>7
<1> QED  BY <1>2, <1>8 DEF Sums

(* So the sum over a finite set is that function's.                        *)
LEMMA SumIs ==
  ASSUME NEW f, NEW S, IsFiniteSet(S), NEW g, Sums(f, S, g), NEW T \in SUBSET S
  PROVE  SumOf(f, T) = g[T]
<1> DEFINE h == [s \in SUBSET T |-> g[s]]
<1>1. Sums(f, T, h)
  BY SumsRestrict
<1>2. IsFiniteSet(T) /\ h[T] = g[T]
  BY FS_Subset
<1> HIDE DEF h
<1>3. \A k : Sums(f, T, k) => k = h
  BY <1>2, <1>1, SumsUnique
<1>4. SumOf(f, T) = (CHOOSE k : Sums(f, T, k))[T]
  BY DEF SumOf, FoldFunctionOnSet, MapThenFoldSet, Sums, Any
<1> QED  BY <1>1, <1>2, <1>3, <1>4

LEMMA SumStep ==
  ASSUME NEW f, NEW S, IsFiniteSet(S)
  PROVE  SumOf(f, S) = IF S = {} THEN 0 ELSE f[Any(S)] + SumOf(f, S \ {Any(S)})
<1>1. PICK g : Sums(f, S, g)
  BY SumsExist
<1> QED  BY <1>1, SumIs, SumsAt

LEMMA SumIsInt ==
  ASSUME NEW f, NEW S, IsFiniteSet(S), \A x \in S : f[x] \in Int
  PROVE  SumOf(f, S) \in Int
<1> DEFINE Bad == { T \in SUBSET S : SumOf(f, T) \notin Int }
<1> SUFFICES ASSUME Bad # {} PROVE FALSE
  OBVIOUS
<1>1. PICK T \in Bad : \A y \in Bad : y \subseteq T => y = T
  <2>1. Bad \subseteq SUBSET S
    OBVIOUS
  <2> HIDE DEF Bad
  <2> QED  BY <2>1, SmallestSubset
<1>2. T \in SUBSET S /\ IsFiniteSet(T) /\ SumOf(f, T) \notin Int
  BY <1>1, FS_Subset
<1>3. SumOf(f, T) = IF T = {} THEN 0 ELSE f[Any(T)] + SumOf(f, T \ {Any(T)})
  BY <1>2, SumStep
<1>4. T # {} /\ Any(T) \in T
  BY <1>2, <1>3, AnyIsOne
<1>5. SumOf(f, T \ {Any(T)}) \in Int
  BY <1>1, <1>2, <1>4
<1> QED  BY <1>2, <1>3, <1>4, <1>5

(* Any element may be counted first.                                       *)
LEMMA SumSplit ==
  ASSUME NEW f, NEW S, IsFiniteSet(S), \A x \in S : f[x] \in Int, NEW z \in S
  PROVE  SumOf(f, S) = f[z] + SumOf(f, S \ {z})
<1> DEFINE Bad == { T \in SUBSET S : \E x \in T : SumOf(f, T) # f[x] + SumOf(f, T \ {x}) }
<1> SUFFICES ASSUME Bad # {} PROVE FALSE
  OBVIOUS
<1>1. PICK T \in Bad : \A y \in Bad : y \subseteq T => y = T
  <2>1. Bad \subseteq SUBSET S
    OBVIOUS
  <2> HIDE DEF Bad
  <2> QED  BY <2>1, SmallestSubset
<1>2. PICK x \in T : SumOf(f, T) # f[x] + SumOf(f, T \ {x})
  BY <1>1
<1> DEFINE c == Any(T)
<1>3. T \in SUBSET S /\ IsFiniteSet(T) /\ c \in T /\ IsFiniteSet(T \ {c}) /\ IsFiniteSet(T \ {x})
  BY <1>1, <1>2, AnyIsOne, FS_Subset
<1>4. SumOf(f, T) = f[c] + SumOf(f, T \ {c})
  BY <1>2, <1>3, SumStep
<1> HIDE DEF c
<1>5. x # c
  BY <1>2, <1>4
<1>6. T \ {c} \notin Bad /\ T \ {x} \notin Bad
  BY <1>1, <1>3
<1>7. SumOf(f, T \ {c}) = f[x] + SumOf(f, (T \ {c}) \ {x})
  BY <1>3, <1>5, <1>6
<1>8. SumOf(f, T \ {x}) = f[c] + SumOf(f, (T \ {x}) \ {c})
  BY <1>3, <1>5, <1>6
<1>9. (T \ {c}) \ {x} = (T \ {x}) \ {c} /\ IsFiniteSet((T \ {c}) \ {x})
  BY <1>3, FS_Subset
<1>10. f[x] \in Int /\ f[c] \in Int /\ SumOf(f, (T \ {c}) \ {x}) \in Int
  BY <1>2, <1>3, <1>9, SumIsInt
<1> QED  BY <1>2, <1>4, <1>7, <1>8, <1>9, <1>10

(* The sum depends on no more than what is summed.                         *)
LEMMA SumAlike ==
  ASSUME NEW f, NEW g, NEW S, IsFiniteSet(S), \A x \in S : f[x] = g[x]
  PROVE  SumOf(f, S) = SumOf(g, S)
<1> DEFINE Bad == { T \in SUBSET S : SumOf(f, T) # SumOf(g, T) }
<1> SUFFICES ASSUME Bad # {} PROVE FALSE
  OBVIOUS
<1>1. PICK T \in Bad : \A y \in Bad : y \subseteq T => y = T
  <2>1. Bad \subseteq SUBSET S
    OBVIOUS
  <2> HIDE DEF Bad
  <2> QED  BY <2>1, SmallestSubset
<1>2. T \in SUBSET S /\ IsFiniteSet(T) /\ SumOf(f, T) # SumOf(g, T)
  BY <1>1, FS_Subset
<1>3. /\ SumOf(f, T) = IF T = {} THEN 0 ELSE f[Any(T)] + SumOf(f, T \ {Any(T)})
      /\ SumOf(g, T) = IF T = {} THEN 0 ELSE g[Any(T)] + SumOf(g, T \ {Any(T)})
  BY <1>2, SumStep
<1>4. T # {} /\ Any(T) \in T
  BY <1>2, <1>3, AnyIsOne
<1>5. SumOf(f, T \ {Any(T)}) = SumOf(g, T \ {Any(T)})
  BY <1>1, <1>2, <1>4
<1> QED  BY <1>2, <1>3, <1>4, <1>5

(* One summand is added to the others.                                     *)
LEMMA SumAdd ==
  ASSUME NEW f, NEW g, NEW S, IsFiniteSet(S), NEW z, z \notin S,
         \A x \in S : f[x] \in Int /\ g[x] = f[x], g[z] \in Int
  PROVE  SumOf(g, S \cup {z}) = SumOf(f, S) + g[z]
<1>1. IsFiniteSet(S \cup {z}) /\ (S \cup {z}) \ {z} = S
  BY FS_AddElement
<1>2. SumOf(g, S \cup {z}) = g[z] + SumOf(g, S)
  BY <1>1, SumSplit
<1>3. SumOf(g, S) = SumOf(f, S) /\ SumOf(f, S) \in Int
  BY SumAlike, SumIsInt
<1> QED  BY <1>2, <1>3

(* One summand changes, and another one is added.                          *)
LEMMA SumMoves ==
  ASSUME NEW f, NEW g, NEW S, IsFiniteSet(S), NEW z, z \notin S, NEW y \in S,
         \A x \in S : f[x] \in Int /\ g[x] \in Int, g[z] \in Int,
         \A x \in S \ {y} : g[x] = f[x]
  PROVE  SumOf(g, S \cup {z}) = SumOf(f, S) - f[y] + g[y] + g[z]
<1>1. SumOf(g, S \cup {z}) = SumOf(g, S) + g[z]
  BY SumAdd
<1>2. SumOf(f, S) = f[y] + SumOf(f, S \ {y}) /\ SumOf(g, S) = g[y] + SumOf(g, S \ {y})
  BY SumSplit
<1>3. SumOf(f, S \ {y}) = SumOf(g, S \ {y}) /\ SumOf(f, S \ {y}) \in Int
  BY SumAlike, SumIsInt, FS_Subset
<1> QED  BY <1>1, <1>2, <1>3

(* No summand exceeds the sum of natural numbers.                          *)
LEMMA SumBounds ==
  ASSUME NEW f, NEW S, IsFiniteSet(S), \A x \in S : f[x] \in Nat
  PROVE  SumOf(f, S) \in Nat /\ \A x \in S : f[x] <= SumOf(f, S)
<1> DEFINE Bad == { T \in SUBSET S : SumOf(f, T) \notin Nat }
<1>1. Bad = {}
  <2> SUFFICES ASSUME Bad # {} PROVE FALSE
    OBVIOUS
  <2>1. PICK T \in Bad : \A y \in Bad : y \subseteq T => y = T
    <3>1. Bad \subseteq SUBSET S
      OBVIOUS
    <3> HIDE DEF Bad
    <3> QED  BY <3>1, SmallestSubset
  <2>2. T \in SUBSET S /\ IsFiniteSet(T) /\ SumOf(f, T) \notin Nat
    BY <2>1, FS_Subset
  <2>3. SumOf(f, T) = IF T = {} THEN 0 ELSE f[Any(T)] + SumOf(f, T \ {Any(T)})
    BY <2>2, SumStep
  <2>4. T # {} /\ Any(T) \in T
    BY <2>2, <2>3, AnyIsOne
  <2>5. SumOf(f, T \ {Any(T)}) \in Nat
    BY <2>1, <2>2, <2>4
  <2> QED  BY <2>2, <2>3, <2>4, <2>5
<1>2. ASSUME NEW x \in S
      PROVE  f[x] <= SumOf(f, S)
  <2>1. SumOf(f, S) = f[x] + SumOf(f, S \ {x})
    BY SumSplit
  <2>2. SumOf(f, S \ {x}) \in Nat
    BY <1>1
  <2> QED  BY <2>1, <2>2
<1> QED  BY <1>1, <1>2

-------------------------------------------------------------------------------
(* The rows of an account.                                                 *)

IsLog(log) == IsFiniteSet(DOMAIN log) /\ \A ref \in DOMAIN log : log[ref] \in Int

Deltas(log) == [ref \in DOMAIN log |-> log[ref]]
Earnings(log) == [ref \in DOMAIN log |-> Earned(ref, log[ref])]
Spendings(log) == [ref \in DOMAIN log |-> Spent(ref, log[ref])]

(* What a charge cost in the end: that is counted at the charge, and       *)
(* nothing at its refund.                                                  *)
Net(log, j) ==
  -log[Charge(j)] - (IF Refund(j) \in DOMAIN log THEN log[Refund(j)] ELSE 0)
Costs(log) ==
  [ref \in DOMAIN log |-> IF ref[1] = "generation" THEN Net(log, ref[2]) ELSE 0]

(* The rows of jobs: a refund has its charge, which covers it.             *)
AreOrders(log) ==
  /\ \A ref \in DOMAIN log :
       /\ ref[1] = "generation" => \E j \in Orders : ref = Charge(j)
       /\ ref[1] = "generation-refund" => \E j \in Orders : ref = Refund(j)
  /\ \A j \in Orders :
       /\ Refund(j) \in DOMAIN log => Charge(j) \in DOMAIN log
       /\ Charge(j) \in DOMAIN log => Net(log, j) \in Nat

(* An account and the rows that it sums up.                                *)
Account == [ balance : Nat, earned : Int, spent : Nat ]
Sum(f) == SumOf(f, DOMAIN f)
IsBook(account, log) ==
  /\ IsLog(log) /\ AreOrders(log)
  /\ account \in Account
  /\ account.balance = Sum(Deltas(log))
  /\ account.earned = Sum(Earnings(log))
  /\ account.spent = Sum(Spendings(log))
  /\ account.spent = Sum(Costs(log))

(* A row is added. *)
Grows(log, new, ref, delta) ==
  IsLog(log) /\ ref \notin DOMAIN log /\ delta \in Int /\ new = Logged(log, ref, delta)

Grown(log, new, ref, delta) ==
  /\ IsLog(new) /\ DOMAIN new = DOMAIN log \cup {ref}
  /\ new[ref] = delta
  /\ \A r \in DOMAIN log : r # ref /\ new[r] = log[r]

LEMMA LogGrows ==
  ASSUME NEW log, NEW new, NEW ref, NEW delta, Grows(log, new, ref, delta)
  PROVE  Grown(log, new, ref, delta)
<1>1. /\ DOMAIN new = DOMAIN log \cup {ref}
      /\ new[ref] = delta
      /\ \A r \in DOMAIN log : r # ref /\ new[r] = log[r]
  BY DEF Grows, Logged
<1>2. IsFiniteSet(DOMAIN new)
  BY <1>1, FS_AddElement DEF Grows, IsLog
<1>3. IsLog(new)
  BY <1>1, <1>2 DEF Grows, IsLog
<1> QED  BY <1>1, <1>3 DEF Grown

LEMMA EarnedSpentInt ==
  ASSUME NEW ref, NEW delta \in Int
  PROVE  Earned(ref, delta) \in Int /\ Spent(ref, delta) \in Int
BY DEF Earned, Spent

LEMMA NetIsInt ==
  ASSUME NEW log, IsLog(log), NEW j, Charge(j) \in DOMAIN log
  PROVE  Net(log, j) \in Int
BY DEF Net, IsLog

(* A row that is added counts for what it is worth.                        *)
LEMMA SumsGrow ==
  ASSUME NEW log, NEW new, NEW ref, NEW delta, Grows(log, new, ref, delta)
  PROVE  /\ Sum(Deltas(new)) = Sum(Deltas(log)) + delta
         /\ Sum(Earnings(new)) = Sum(Earnings(log)) + Earned(ref, delta)
         /\ Sum(Spendings(new)) = Sum(Spendings(log)) + Spent(ref, delta)
<1>1. /\ IsLog(new) /\ DOMAIN new = DOMAIN log \cup {ref}
      /\ new[ref] = delta
      /\ \A r \in DOMAIN log : r # ref /\ new[r] = log[r]
  <2>1. Grown(log, new, ref, delta)
    BY LogGrows
  <2> QED  BY <2>1 DEF Grown
<1>2. /\ IsFiniteSet(DOMAIN log) /\ \A r \in DOMAIN log : log[r] \in Int
      /\ delta \in Int /\ ref \notin DOMAIN log
  BY DEF Grows, IsLog
<1>3. Sum(Deltas(new)) = Sum(Deltas(log)) + delta
  <2> DEFINE f == Deltas(log)
             g == Deltas(new)
  <2>1. /\ DOMAIN f = DOMAIN log /\ DOMAIN g = DOMAIN log \cup {ref} /\ g[ref] = delta
        /\ \A r \in DOMAIN log : f[r] \in Int /\ g[r] = f[r]
    BY <1>1, <1>2 DEF Deltas
  <2> HIDE DEF f, g
  <2>2. SumOf(g, DOMAIN log \cup {ref}) = SumOf(f, DOMAIN log) + g[ref]
    BY <1>2, <2>1, SumAdd
  <2> QED  BY <2>1, <2>2 DEF f, g, Sum
<1>4. Sum(Earnings(new)) = Sum(Earnings(log)) + Earned(ref, delta)
  <2> DEFINE f == Earnings(log)
             g == Earnings(new)
  <2>1. /\ DOMAIN f = DOMAIN log /\ DOMAIN g = DOMAIN log \cup {ref}
        /\ g[ref] = Earned(ref, delta) /\ g[ref] \in Int
        /\ \A r \in DOMAIN log : f[r] \in Int /\ g[r] = f[r]
    BY <1>1, <1>2, EarnedSpentInt DEF Earnings
  <2> HIDE DEF f, g
  <2>2. SumOf(g, DOMAIN log \cup {ref}) = SumOf(f, DOMAIN log) + g[ref]
    BY <1>2, <2>1, SumAdd
  <2> QED  BY <2>1, <2>2 DEF f, g, Sum
<1>5. Sum(Spendings(new)) = Sum(Spendings(log)) + Spent(ref, delta)
  <2> DEFINE f == Spendings(log)
             g == Spendings(new)
  <2>1. /\ DOMAIN f = DOMAIN log /\ DOMAIN g = DOMAIN log \cup {ref}
        /\ g[ref] = Spent(ref, delta) /\ g[ref] \in Int
        /\ \A r \in DOMAIN log : f[r] \in Int /\ g[r] = f[r]
    BY <1>1, <1>2, EarnedSpentInt DEF Spendings
  <2> HIDE DEF f, g
  <2>2. SumOf(g, DOMAIN log \cup {ref}) = SumOf(f, DOMAIN log) + g[ref]
    BY <1>2, <2>1, SumAdd
  <2> QED  BY <2>1, <2>2 DEF f, g, Sum
<1> QED  BY <1>3, <1>4, <1>5

(* Costs are natural numbers, and so is what they add up to: the spent     *)
(* credits of an account are never cut off at zero.                        *)
LEMMA CostsAreNat ==
  ASSUME NEW log, IsLog(log), AreOrders(log)
  PROVE  Sum(Costs(log)) \in Nat
<1> DEFINE f == Costs(log)
<1>1. ASSUME NEW ref \in DOMAIN log
      PROVE  f[ref] \in Nat
  <2>1. CASE ref[1] = "generation"
    <3>1. PICK j \in Orders : ref = Charge(j)
      BY <2>1 DEF AreOrders
    <3>2. ref[2] = j /\ Net(log, j) \in Nat
      BY <3>1 DEF AreOrders, Charge
    <3> QED  BY <2>1, <3>2 DEF Costs
  <2>2. CASE ref[1] # "generation"
    BY <2>2 DEF Costs
  <2> QED  BY <2>1, <2>2
<1>2. DOMAIN f = DOMAIN log /\ IsFiniteSet(DOMAIN log)
  BY DEF Costs, IsLog
<1> HIDE DEF f
<1> QED  BY <1>1, <1>2, SumBounds DEF f, Sum

LEMMA BookGrows ==
  ASSUME NEW account, NEW log, NEW new, NEW ref, NEW delta,
         IsBook(account, log), Grows(log, new, ref, delta), AreOrders(new),
         Sum(Costs(new)) = Sum(Costs(log)) + Spent(ref, delta),
         account.balance + delta >= 0,
         NEW spent, spent = account.spent + Spent(ref, delta)
  PROVE  IsBook([ balance |-> account.balance + delta,
                  earned  |-> account.earned + Earned(ref, delta),
                  spent   |-> IF spent < 0 THEN 0 ELSE spent ], new)
<1>1. IsLog(new)
  <2>1. Grown(log, new, ref, delta)
    BY LogGrows
  <2> QED  BY <2>1 DEF Grown
<1>2. /\ Sum(Deltas(new)) = Sum(Deltas(log)) + delta
      /\ Sum(Earnings(new)) = Sum(Earnings(log)) + Earned(ref, delta)
      /\ Sum(Spendings(new)) = Sum(Spendings(log)) + Spent(ref, delta)
  BY SumsGrow
<1>3. /\ account.balance \in Nat /\ account.earned \in Int /\ account.spent \in Nat
      /\ account.balance = Sum(Deltas(log)) /\ account.earned = Sum(Earnings(log))
      /\ account.spent = Sum(Spendings(log)) /\ account.spent = Sum(Costs(log))
      /\ delta \in Int
  BY DEF IsBook, Account, Grows
<1>4. spent = Sum(Costs(new)) /\ spent \in Nat /\ spent = Sum(Spendings(new))
  BY <1>1, <1>2, <1>3, CostsAreNat
<1>5. ~(spent < 0)
  BY <1>4
<1> DEFINE next == [ balance |-> account.balance + delta,
                     earned  |-> account.earned + Earned(ref, delta),
                     spent   |-> IF spent < 0 THEN 0 ELSE spent ]
<1>6. /\ next.balance = account.balance + delta
      /\ next.earned = account.earned + Earned(ref, delta)
      /\ next.spent = spent
  BY <1>5
<1>7. account.balance + delta \in Nat /\ account.earned + Earned(ref, delta) \in Int
  BY <1>3, EarnedSpentInt
<1>8. next \in Account
  BY <1>4, <1>5, <1>7 DEF Account
<1> HIDE DEF next
<1>9. IsBook(next, new)
  BY <1>1, <1>2, <1>3, <1>4, <1>6, <1>8 DEF IsBook
<1> QED  BY <1>9 DEF next

(* A row that no job has.                                                  *)
LEMMA PlainRow ==
  ASSUME NEW log, NEW new, NEW ref, NEW delta, Grows(log, new, ref, delta),
         AreOrders(log), ref[1] # "generation", ref[1] # "generation-refund"
  PROVE  AreOrders(new) /\ Sum(Costs(new)) = Sum(Costs(log)) + Spent(ref, delta)
<1>1. /\ IsLog(new) /\ DOMAIN new = DOMAIN log \cup {ref} /\ new[ref] = delta
      /\ \A r \in DOMAIN log : r # ref /\ new[r] = log[r]
  <2>1. Grown(log, new, ref, delta)
    BY LogGrows
  <2> QED  BY <2>1 DEF Grown
<1>2. \A j : Charge(j) # ref /\ Refund(j) # ref
  BY DEF Charge, Refund
<1>3. \A j : Charge(j) \in DOMAIN log => Net(new, j) = Net(log, j)
  BY <1>1, <1>2 DEF Net
<1>4. AreOrders(new)
  BY <1>1, <1>2, <1>3 DEF AreOrders
<1> DEFINE f == Costs(log)
           g == Costs(new)
<1>5. /\ DOMAIN f = DOMAIN log /\ DOMAIN g = DOMAIN log \cup {ref} /\ g[ref] = 0
      /\ IsFiniteSet(DOMAIN log) /\ ref \notin DOMAIN log
  BY <1>1 DEF Costs, Grows, IsLog
<1>6. ASSUME NEW r \in DOMAIN log
      PROVE  f[r] \in Int /\ g[r] = f[r]
  <2>1. CASE r[1] = "generation"
    <3>1. PICK j \in Orders : r = Charge(j)
      BY <2>1 DEF AreOrders
    <3>2. r[2] = j /\ Net(log, j) \in Nat /\ Net(new, j) = Net(log, j)
      BY <1>3, <3>1 DEF AreOrders, Charge
    <3> QED  BY <1>1, <2>1, <3>2 DEF Costs
  <2>2. CASE r[1] # "generation"
    BY <1>1, <2>2 DEF Costs
  <2> QED  BY <2>1, <2>2
<1>7. Spent(ref, delta) = 0
  BY DEF Spent
<1> HIDE DEF f, g
<1>8. SumOf(g, DOMAIN log \cup {ref}) = SumOf(f, DOMAIN log) + g[ref]
  BY <1>5, <1>6, SumAdd
<1> QED  BY <1>4, <1>5, <1>7, <1>8 DEF f, g, Sum

(* The charge of a job.                                                    *)
LEMMA ChargeRow ==
  ASSUME NEW log, NEW new, NEW j \in Orders, NEW price \in Nat,
         Grows(log, new, Charge(j), -price), AreOrders(log)
  PROVE  AreOrders(new) /\ Sum(Costs(new)) = Sum(Costs(log)) + Spent(Charge(j), -price)
<1> DEFINE ref == Charge(j)
<1>1. /\ IsLog(new) /\ DOMAIN new = DOMAIN log \cup {ref} /\ new[ref] = -price
      /\ \A r \in DOMAIN log : r # ref /\ new[r] = log[r]
  <2>1. Grown(log, new, ref, -price)
    BY LogGrows
  <2> QED  BY <2>1 DEF Grown
<1>2. /\ \A k : Refund(k) # ref
      /\ \A k : k # j => Charge(k) # ref
      /\ ref[1] = "generation" /\ ref[2] = j
  BY DEF Charge, Refund
<1>3. \A k : Charge(k) \in DOMAIN log => Net(new, k) = Net(log, k)
  BY <1>1, <1>2 DEF Net
<1>4. Refund(j) \notin DOMAIN new
  BY <1>1, <1>2 DEF AreOrders
<1>5. Net(new, j) = price
  BY <1>1, <1>4 DEF Net
<1> HIDE DEF ref
<1>6. AreOrders(new)
  <2>1. ASSUME NEW r \in DOMAIN new
        PROVE  /\ r[1] = "generation" => \E k \in Orders : r = Charge(k)
               /\ r[1] = "generation-refund" => \E k \in Orders : r = Refund(k)
    BY <1>1, <1>2 DEF AreOrders, ref
  <2>2. ASSUME NEW k \in Orders
        PROVE  /\ Refund(k) \in DOMAIN new => Charge(k) \in DOMAIN new
               /\ Charge(k) \in DOMAIN new => Net(new, k) \in Nat
    <3>1. CASE k = j
      BY <1>4, <1>5, <3>1
    <3>2. CASE k # j
      BY <1>1, <1>2, <1>3, <3>2 DEF AreOrders
    <3> QED  BY <3>1, <3>2
  <2> QED  BY <2>1, <2>2 DEF AreOrders
<1> DEFINE f == Costs(log)
           g == Costs(new)
<1>7. /\ DOMAIN f = DOMAIN log /\ DOMAIN g = DOMAIN log \cup {ref} /\ g[ref] = price
      /\ IsFiniteSet(DOMAIN log) /\ ref \notin DOMAIN log
  BY <1>1, <1>2, <1>5 DEF Costs, Grows, IsLog
<1>8. ASSUME NEW r \in DOMAIN log
      PROVE  f[r] \in Int /\ g[r] = f[r]
  <2>1. CASE r[1] = "generation"
    <3>1. PICK k \in Orders : r = Charge(k)
      BY <2>1 DEF AreOrders
    <3>2. r[2] = k /\ Net(log, k) \in Nat /\ Net(new, k) = Net(log, k)
      BY <1>3, <3>1 DEF AreOrders, Charge
    <3> QED  BY <1>1, <2>1, <3>2 DEF Costs
  <2>2. CASE r[1] # "generation"
    BY <1>1, <2>2 DEF Costs
  <2> QED  BY <2>1, <2>2
<1>9. Spent(ref, -price) = price
  BY <1>2 DEF Spent
<1> HIDE DEF f, g
<1>10. SumOf(g, DOMAIN log \cup {ref}) = SumOf(f, DOMAIN log) + g[ref]
  BY <1>1, <1>7, <1>8, SumAdd
<1> QED  BY <1>6, <1>7, <1>9, <1>10 DEF f, g, Sum, ref

(* The refund of a job, of no more than its charge.                        *)
LEMMA RefundRow ==
  ASSUME NEW log, NEW new, NEW j \in Orders, NEW delta \in Nat,
         Grows(log, new, Refund(j), delta), AreOrders(log),
         Charge(j) \in DOMAIN log, delta <= -log[Charge(j)]
  PROVE  AreOrders(new) /\ Sum(Costs(new)) = Sum(Costs(log)) + Spent(Refund(j), delta)
<1> DEFINE ref == Refund(j)
<1>1. /\ IsLog(new) /\ DOMAIN new = DOMAIN log \cup {ref} /\ new[ref] = delta
      /\ \A r \in DOMAIN log : r # ref /\ new[r] = log[r]
      /\ ref \notin DOMAIN log
  <2>1. Grown(log, new, ref, delta)
    BY LogGrows
  <2> QED  BY <2>1 DEF Grown, Grows
<1>2. /\ \A k : Charge(k) # ref
      /\ \A k : k # j => Refund(k) # ref /\ Charge(k) # Charge(j)
      /\ ref[1] = "generation-refund" /\ Charge(j)[1] = "generation" /\ Charge(j)[2] = j
  BY DEF Charge, Refund
<1>3. \A k : k # j /\ Charge(k) \in DOMAIN log => Net(new, k) = Net(log, k)
  BY <1>1, <1>2 DEF Net
<1>4. IsLog(log) /\ log[Charge(j)] \in Int
  BY DEF Grows, IsLog
<1>5. Net(new, j) = Net(log, j) - delta /\ Net(new, j) \in Nat /\ Net(log, j) \in Nat
  BY <1>1, <1>2, <1>4 DEF Net
<1> HIDE DEF ref
<1>6. AreOrders(new)
  <2>1. ASSUME NEW r \in DOMAIN new
        PROVE  /\ r[1] = "generation" => \E k \in Orders : r = Charge(k)
               /\ r[1] = "generation-refund" => \E k \in Orders : r = Refund(k)
    BY <1>1, <1>2 DEF AreOrders, ref
  <2>2. ASSUME NEW k \in Orders
        PROVE  /\ Refund(k) \in DOMAIN new => Charge(k) \in DOMAIN new
               /\ Charge(k) \in DOMAIN new => Net(new, k) \in Nat
    <3>1. CASE k = j
      BY <1>1, <1>5, <3>1
    <3>2. CASE k # j
      BY <1>1, <1>2, <1>3, <3>2 DEF AreOrders
    <3> QED  BY <3>1, <3>2
  <2> QED  BY <2>1, <2>2 DEF AreOrders
<1> DEFINE f == Costs(log)
           g == Costs(new)
<1>7. /\ DOMAIN f = DOMAIN log /\ DOMAIN g = DOMAIN log \cup {ref} /\ g[ref] = 0
      /\ f[Charge(j)] = Net(log, j) /\ g[Charge(j)] = Net(log, j) - delta
      /\ IsFiniteSet(DOMAIN log)
  BY <1>1, <1>2, <1>4, <1>5 DEF Costs, IsLog
<1>8. ASSUME NEW r \in DOMAIN log
      PROVE  f[r] \in Int /\ g[r] \in Int /\ (r # Charge(j) => g[r] = f[r])
  <2>1. CASE r[1] = "generation"
    <3>1. PICK k \in Orders : r = Charge(k)
      BY <2>1 DEF AreOrders
    <3>2. r[2] = k /\ Net(log, k) \in Nat
      BY <3>1 DEF AreOrders, Charge
    <3>3. CASE k = j
      BY <1>5, <1>7, <3>1, <3>3
    <3>4. CASE k # j
      BY <1>1, <1>3, <2>1, <3>1, <3>2, <3>4 DEF Costs
    <3> QED  BY <3>3, <3>4
  <2>2. CASE r[1] # "generation"
    BY <1>1, <2>2 DEF Costs
  <2> QED  BY <2>1, <2>2
<1>9. Spent(ref, delta) = -delta
  BY <1>2 DEF Spent
<1> HIDE DEF f, g
<1>10. SumOf(g, DOMAIN log \cup {ref})
         = SumOf(f, DOMAIN log) - f[Charge(j)] + g[Charge(j)] + g[ref]
  BY <1>1, <1>7, <1>8, SumMoves
<1>11. SumOf(f, DOMAIN log) \in Int
  BY <1>7, <1>8, SumIsInt
<1>12. SumOf(g, DOMAIN log \cup {ref}) = SumOf(f, DOMAIN log) + Spent(ref, delta)
  BY <1>5, <1>7, <1>9, <1>10, <1>11
<1> QED  BY <1>6, <1>7, <1>12 DEF f, g, Sum, ref

-------------------------------------------------------------------------------
(* The accounts.                                                           *)

Books ==
  /\ DOMAIN accounts = Users /\ DOMAIN rows = Users
  /\ \A u \in Users : IsBook(accounts[u], rows[u])

CodesPaid ==
  /\ DOMAIN codes = Codes
  /\ \A u \in Users, c \in Codes : Has(u, << "credit-code", c >>) <=> codes[c] = u

(* A job is submitted once, by one user; what is delivered of it is no     *)
(* more than was ordered, and its charge is the price of the order.        *)
OrdersCharged ==
  /\ \A j \in Orders :
       /\ charges[j].unit \in Nat
       /\ IsFiniteSet(charges[j].delivered)
       /\ Cardinality(charges[j].delivered) <= Quantity
  /\ \A u \in Users, j \in Orders :
       Has(u, Charge(j)) =>
         /\ jobs[j].status # "none"
         /\ rows[u][Charge(j)] = -(charges[j].unit * Quantity)

CreditInv == Books /\ CodesPaid /\ OrdersCharged

LEMMA SumOfNone == \A f : DOMAIN f = {} => Sum(f) = 0
BY SumStep, FS_EmptySet DEF Sum

LEMMA BooksInit == CreditInit => Books
<1> SUFFICES ASSUME CreditInit, NEW u \in Users
             PROVE  IsBook(accounts[u], rows[u])
  BY DEF CreditInit, Books
<1>1. accounts[u] = [ balance |-> 0, earned |-> 0, spent |-> 0 ] /\ rows[u] = << >>
  BY DEF CreditInit
<1>2. DOMAIN rows[u] = {}
  BY <1>1
<1>3. IsLog(rows[u]) /\ AreOrders(rows[u])
  BY <1>2, FS_EmptySet DEF IsLog, AreOrders
<1>4. /\ Sum(Deltas(rows[u])) = 0 /\ Sum(Earnings(rows[u])) = 0
      /\ Sum(Spendings(rows[u])) = 0 /\ Sum(Costs(rows[u])) = 0
  <2>1. /\ DOMAIN Deltas(rows[u]) = {} /\ DOMAIN Earnings(rows[u]) = {}
        /\ DOMAIN Spendings(rows[u]) = {} /\ DOMAIN Costs(rows[u]) = {}
    BY <1>2 DEF Deltas, Earnings, Spendings, Costs
  <2> QED  BY <2>1, SumOfNone
<1>5. accounts[u] \in Account /\ accounts[u].balance = 0
      /\ accounts[u].earned = 0 /\ accounts[u].spent = 0
  BY <1>1 DEF Account
<1> QED  BY <1>3, <1>4, <1>5 DEF IsBook

LEMMA CreditsInit == PlatformInit => CreditInv
<1> SUFFICES ASSUME PlatformInit
             PROVE  CreditInv
  OBVIOUS
<1>1. CreditInit
  BY DEF PlatformInit
<1>2. \A u \in Users : DOMAIN rows[u] = {}
  BY <1>1 DEF CreditInit
<1>3. CodesPaid
  BY <1>1, <1>2, CreditAssumption DEF CreditInit, CreditAssumption, CodesPaid, Has
<1>4. \A j \in Orders : charges[j].unit = 0 /\ charges[j].delivered = {}
  BY <1>1 DEF CreditInit, NoCharge
<1>5. IsFiniteSet({}) /\ Cardinality({}) = 0 /\ 0 <= Quantity
  BY FS_EmptySet, CreditAssumption DEF CreditAssumption
<1>6. \A u \in Users, j \in Orders : ~Has(u, Charge(j))
  BY <1>2 DEF Has
<1>7. OrdersCharged
  <2>1. ASSUME NEW j \in Orders
        PROVE  /\ charges[j].unit \in Nat
               /\ IsFiniteSet(charges[j].delivered)
               /\ Cardinality(charges[j].delivered) <= Quantity
    <3>1. charges[j].delivered = {} /\ charges[j].unit \in Nat
      BY <1>4
    <3> QED  BY <1>5, <3>1, Zenon
  <2> QED  BY <1>6, <2>1 DEF OrdersCharged
<1> QED  BY <1>1, <1>3, <1>7, BooksInit DEF CreditInv

(* A posted row is a new one of its user, and the others stay.             *)
LEMMA RowsGrow ==
  ASSUME Books, NEW u \in Users, NEW ref, NEW delta \in Int, ~Has(u, ref),
         Post(u, ref, delta)
  PROVE  /\ Grows(rows[u], rows'[u], ref, delta) /\ DOMAIN rows' = Users
         /\ \A r : \A v \in Users : Has(v, r)' <=> Has(v, r) \/ (v = u /\ r = ref)
         /\ \A r : \A v \in Users : Has(v, r) => rows'[v][r] = rows[v][r]
         /\ rows'[u][ref] = delta
<1>1. rows' = [rows EXCEPT ![u] = Logged(rows[u], ref, delta)]
  BY DEF Post
<1>2. rows'[u] = Logged(rows[u], ref, delta) /\ DOMAIN rows' = Users
      /\ \A v \in Users : v # u => rows'[v] = rows[v]
  BY <1>1 DEF Books
<1>3. Grows(rows[u], rows'[u], ref, delta)
  BY <1>2 DEF Books, IsBook, Grows, Has
<1>4. /\ DOMAIN rows'[u] = DOMAIN rows[u] \cup {ref} /\ rows'[u][ref] = delta
      /\ \A r \in DOMAIN rows[u] : r # ref /\ rows'[u][r] = rows[u][r]
  <2>1. Grown(rows[u], rows'[u], ref, delta)
    BY <1>3, LogGrows
  <2> QED  BY <2>1 DEF Grown
<1> QED  BY <1>2, <1>3, <1>4 DEF Has

LEMMA PostKeepsBooks ==
  ASSUME Books, NEW u \in Users, NEW ref, NEW delta \in Int, ~Has(u, ref),
         Post(u, ref, delta), AreOrders(rows'[u]),
         Sum(Costs(rows'[u])) = Sum(Costs(rows[u])) + Spent(ref, delta)
  PROVE  Books'
<1>1. Grows(rows[u], rows'[u], ref, delta) /\ DOMAIN rows' = Users
  BY RowsGrow
<1>2. IsBook(accounts[u], rows[u]) /\ DOMAIN accounts = Users
  BY DEF Books
<1> DEFINE spent == accounts[u].spent + Spent(ref, delta)
           next == [ balance |-> accounts[u].balance + delta,
                     earned  |-> accounts[u].earned + Earned(ref, delta),
                     spent   |-> IF spent < 0 THEN 0 ELSE spent ]
<1>3. accounts' = [accounts EXCEPT ![u] = next] /\ accounts[u].balance + delta >= 0
  BY DEF Post
<1>4. IsBook(next, rows'[u])
  BY <1>1, <1>2, <1>3, BookGrows
<1> HIDE DEF next
<1>5. accounts'[u] = next /\ DOMAIN accounts' = Users
      /\ \A v \in Users : v # u => accounts'[v] = accounts[v] /\ rows'[v] = rows[v]
  BY <1>2, <1>3 DEF Post, Books
<1>6. \A v \in Users : IsBook(accounts'[v], rows'[v])
  BY <1>4, <1>5 DEF Books
<1> QED  BY <1>1, <1>5, <1>6 DEF Books

(* The calls of a user and of an administrator.                            *)
LEMMA PlainPostKeeps ==
  ASSUME CreditInv, NEW u \in Users, NEW ref, NEW delta \in Int, ~Has(u, ref),
         Post(u, ref, delta), ref[1] # "generation", ref[1] # "generation-refund",
         UNCHANGED << charges, jobs >>
  PROVE  Books' /\ OrdersCharged'
<1>1. /\ Grows(rows[u], rows'[u], ref, delta)
      /\ \A r : \A v \in Users : Has(v, r)' <=> Has(v, r) \/ (v = u /\ r = ref)
      /\ \A r : \A v \in Users : Has(v, r) => rows'[v][r] = rows[v][r]
  BY RowsGrow DEF CreditInv
<1>2. AreOrders(rows[u])
  BY DEF CreditInv, Books, IsBook
<1>3. AreOrders(rows'[u]) /\ Sum(Costs(rows'[u])) = Sum(Costs(rows[u])) + Spent(ref, delta)
  BY <1>1, <1>2, PlainRow
<1>4. \A j : Charge(j) # ref
  BY DEF Charge
<1>5. OrdersCharged'
  BY <1>1, <1>4 DEF CreditInv, OrdersCharged
<1> QED  BY <1>3, <1>5, PostKeepsBooks DEF CreditInv

LEMMA CreditCallKeeps ==
  ASSUME CreditInv, CreditNext, UNCHANGED platformVars
  PROVE  CreditInv'
<1>0. UNCHANGED jobs /\ Worth \in Nat /\ Worth > 0
  BY CreditAssumption DEF CreditAssumption, platformVars
<1>1. ASSUME UNCHANGED << accounts, rows, charges >>, CodesPaid'
      PROVE  CreditInv'
  BY <1>0, <1>1 DEF CreditInv, Books, OrdersCharged, Has
<1>2. ASSUME UNCHANGED << accounts, rows, charges, codes >>
      PROVE  CreditInv'
  BY <1>1, <1>2 DEF CreditInv, CodesPaid, Has
<1>3. ASSUME NEW u \in Users, NEW ref, NEW delta \in Int, ~Has(u, ref), Post(u, ref, delta),
             ref[1] \in {"registration", "admin"}, UNCHANGED << charges, codes >>
      PROVE  CreditInv'
  <2>1. \A r : \A v \in Users : Has(v, r)' <=> Has(v, r) \/ (v = u /\ r = ref)
    BY <1>3, RowsGrow DEF CreditInv
  <2>2. \A c : << "credit-code", c >> # ref
    BY <1>3
  <2>3. CodesPaid'
    BY <1>3, <2>1, <2>2 DEF CreditInv, CodesPaid
  <2>4. Books' /\ OrdersCharged'
    BY <1>0, <1>3, PlainPostKeeps
  <2> QED  BY <2>3, <2>4 DEF CreditInv
<1>4. ASSUME NEW u \in Users, GrantRegistrationBonus(u)
      PROVE  CreditInv'
  BY <1>0, <1>2, <1>3, <1>4 DEF GrantRegistrationBonus, ApplyDelta
<1>5. ASSUME NEW u \in Users, NEW n \in Adjustments, NEW delta \in {-Worth, Worth},
             AdjustCredits(u, n, delta)
      PROVE  CreditInv'
  BY <1>0, <1>2, <1>3, <1>5 DEF AdjustCredits, ApplyDelta
<1>6. CASE UpdateSettings
  BY <1>2, <1>6 DEF UpdateSettings
<1>7. ASSUME NEW c \in Codes, CreateCreditCode(c) \/ DisableCreditCode(c)
      PROVE  CreditInv'
  <2>1. /\ codes[c] \in {"none", "active", "disabled"}
        /\ \E status \in {"none", "active", "disabled"} : codes' = [codes EXCEPT ![c] = status]
        /\ UNCHANGED << accounts, rows, charges >>
    BY <1>7 DEF CreateCreditCode, DisableCreditCode
  <2>2. CodesPaid'
    BY <2>1, CreditAssumption DEF CreditAssumption, CreditInv, CodesPaid, Has
  <2> QED  BY <1>1, <2>1, <2>2
<1>8. ASSUME NEW u \in Users, NEW c \in Codes, RedeemCreditCode(u, c)
      PROVE  CreditInv'
  <2> DEFINE ref == << "credit-code", c >>
  <2>1. /\ Post(u, ref, Worth) /\ codes[c] = "active"
        /\ codes' = [codes EXCEPT ![c] = u] /\ UNCHANGED charges
    BY <1>8 DEF RedeemCreditCode
  <2>2. \A v \in Users : ~Has(v, ref)
    BY <2>1, CreditAssumption DEF CreditAssumption, CreditInv, CodesPaid
  <2>3. \A d : << "credit-code", d >> = ref => d = c
    OBVIOUS
  <2>4. ref[1] = "credit-code"
    OBVIOUS
  <2> HIDE DEF ref
  <2>5. Books' /\ OrdersCharged'
    BY <1>0, <2>1, <2>2, <2>4, PlainPostKeeps
  <2>6. \A r : \A v \in Users : Has(v, r)' <=> Has(v, r) \/ (v = u /\ r = ref)
    BY <1>0, <2>1, <2>2, RowsGrow DEF CreditInv
  <2>7. CodesPaid'
    <3>1. DOMAIN codes' = Codes
      BY <2>1 DEF CreditInv, CodesPaid
    <3>2. ASSUME NEW v \in Users, NEW d \in Codes
          PROVE  Has(v, << "credit-code", d >>)' <=> codes'[d] = v
      <4>1. CASE d = c
        BY <2>1, <2>2, <2>6, <4>1 DEF CreditInv, CodesPaid, ref
      <4>2. CASE d # c
        BY <2>1, <2>3, <2>6, <4>2 DEF CreditInv, CodesPaid
      <4> QED  BY <4>1, <4>2
    <3> QED  BY <3>1, <3>2 DEF CodesPaid
  <2> QED  BY <2>5, <2>7 DEF CreditInv
<1> QED  BY <1>4, <1>5, <1>6, <1>7, <1>8 DEF CreditNext

(* The calls of a job.                                                     *)
LEMMA ProductIsNat ==
  ASSUME NEW unit \in Nat, NEW count \in Nat, count <= Quantity
  PROVE  /\ unit * Quantity \in Nat
         /\ unit * (Quantity - count) \in Nat
         /\ unit * (Quantity - count) <= unit * Quantity
<1>1. Quantity \in Nat
  BY CreditAssumption DEF CreditAssumption
<1>2. PICK rest \in Nat : rest = Quantity - count
  BY <1>1
<1>3. Quantity = count + rest
  BY <1>1, <1>2
<1>4. unit * rest \in Nat /\ unit * count \in Nat
  OBVIOUS
<1>5. unit * (count + rest) = unit * count + unit * rest
  OBVIOUS
<1> QED  BY <1>2, <1>3, <1>4, <1>5

LEMMA SubmitKeepsCredits ==
  ASSUME JobsInv, ProviderInv, CreditInv, NEW u \in Users, NEW j \in Orders,
         NEW m \in Models, Submit(u, j, m)
  PROVE  CreditInv'
<1> DEFINE unit == provider.models[m].price
           price == unit * Quantity
<1>1. unit \in Nat
  <2>1. Exists /\ Usable(provider.models[m])
    BY DEF Submit, Offered
  <2>2. provider.models \in [Models -> Model]
    BY <2>1 DEF ProviderInv, Row
  <2> QED  BY <2>1, <2>2, PriceAssumption DEF PriceAssumption, Usable, Model
<1>2. /\ jobs[j].status = "none" /\ jobs'[j].status = "running"
      /\ \A k \in Orders : k # j => jobs'[k] = jobs[k]
  BY DEF Submit, JobsInv
<1>3. /\ charges'[j].unit = unit /\ charges'[j].delivered = {}
      /\ \A k \in Orders : k # j => charges'[k] = charges[k]
  BY DEF Submit, ReserveCredits, JobsInv, NoCharge
<1> HIDE DEF unit
<1>4. price \in Nat /\ -price \in Int
  BY <1>1, ProductIsNat, CreditAssumption DEF CreditAssumption
<1>5. ~Has(u, Charge(j)) /\ Post(u, Charge(j), -price) /\ UNCHANGED codes
  BY DEF Submit, ReserveCredits, unit
<1> HIDE DEF price
<1>6. \A v \in Users : ~Has(v, Charge(j))
  BY <1>2 DEF CreditInv, OrdersCharged
<1>7. /\ Grows(rows[u], rows'[u], Charge(j), -price)
      /\ \A r : \A v \in Users : Has(v, r)' <=> Has(v, r) \/ (v = u /\ r = Charge(j))
      /\ \A r : \A v \in Users : Has(v, r) => rows'[v][r] = rows[v][r]
      /\ rows'[u][Charge(j)] = -price
  BY <1>4, <1>5, RowsGrow DEF CreditInv
<1>8. AreOrders(rows[u])
  BY DEF CreditInv, Books, IsBook
<1>9. /\ AreOrders(rows'[u])
      /\ Sum(Costs(rows'[u])) = Sum(Costs(rows[u])) + Spent(Charge(j), -price)
  BY <1>4, <1>7, <1>8, ChargeRow
<1>10. Books'
  BY <1>4, <1>5, <1>9, PostKeepsBooks DEF CreditInv
<1>11. CodesPaid'
  <2>1. \A c : << "credit-code", c >> # Charge(j)
    BY DEF Charge
  <2> QED  BY <1>5, <1>7, <2>1 DEF CreditInv, CodesPaid
<1>12. OrdersCharged'
  <2>1. IsFiniteSet({}) /\ Cardinality({}) = 0 /\ 0 <= Quantity
    BY FS_EmptySet, CreditAssumption DEF CreditAssumption
  <2>2. ASSUME NEW k \in Orders
        PROVE  /\ charges'[k].unit \in Nat
               /\ IsFiniteSet(charges'[k].delivered)
               /\ Cardinality(charges'[k].delivered) <= Quantity
    <3>1. CASE k = j
      BY <1>1, <1>3, <2>1, <3>1, Zenon
    <3>2. CASE k # j
      BY <1>3, <3>2, Zenon DEF CreditInv, OrdersCharged
    <3> QED  BY <3>1, <3>2
  <2>3. ASSUME NEW v \in Users, NEW k \in Orders, Has(v, Charge(k))'
        PROVE  /\ jobs'[k].status # "none"
               /\ rows'[v][Charge(k)] = -(charges'[k].unit * Quantity)
    <3>1. CASE k = j
      <4>1. v = u
        BY <1>6, <1>7, <2>3, <3>1
      <4> QED  BY <1>2, <1>3, <1>7, <3>1, <4>1 DEF price
    <3>2. CASE k # j
      <4>1. Charge(k) # Charge(j)
        BY <3>2 DEF Charge
      <4>2. Has(v, Charge(k))
        BY <1>7, <2>3, <4>1
      <4> QED  BY <1>2, <1>3, <1>7, <3>2, <4>2 DEF CreditInv, OrdersCharged
    <3> QED  BY <3>1, <3>2
  <2> QED  BY <2>2, <2>3 DEF OrdersCharged
<1> QED  BY <1>10, <1>11, <1>12 DEF CreditInv

(* No job that was submitted becomes a new one.                            *)
StaySubmitted ==
  \A j \in Orders : jobs[j].status # "none" => jobs'[j].status # "none"

LEMMA ChargeKeepsCredits ==
  ASSUME CreditInv, StaySubmitted, UNCHANGED << accounts, rows, codes >>,
         \A j \in Orders :
           /\ charges'[j].unit = charges[j].unit
           /\ IsFiniteSet(charges'[j].delivered)
           /\ Cardinality(charges'[j].delivered) <= Quantity
  PROVE  CreditInv'
<1>1. Books' /\ CodesPaid'
  BY DEF CreditInv, Books, CodesPaid, Has
<1>2. OrdersCharged'
  BY DEF CreditInv, OrdersCharged, StaySubmitted, Has
<1> QED  BY <1>1, <1>2 DEF CreditInv

LEMMA JobsStaySubmitted ==
  ASSUME JobsInv, NEW j \in Orders,
         \/ UNCHANGED jobs
         \/ Attach(j) \/ Complete(j) \/ Fail(j) \/ Recover(j) \/ Crash
  PROVE  StaySubmitted
<1>1. CASE UNCHANGED jobs \/ Attach(j)
  BY <1>1 DEF Attach, JobsInv, IsJob, StaySubmitted
<1>2. ASSUME NEW status \in {"completed", "failed", "unknown"}, End(j, status)
      PROVE  StaySubmitted
  BY <1>2 DEF End, JobsInv, IsJob, StaySubmitted
<1>3. CASE Crash
  BY <1>3 DEF Crash, JobsInv, IsJob, StaySubmitted
<1>4. CASE jobs' = [jobs EXCEPT ![j].runtime = Connection(provider)]
  BY <1>4 DEF JobsInv, IsJob, StaySubmitted
<1> QED  BY <1>1, <1>2, <1>3, <1>4 DEF Complete, Fail, Recover

LEMMA RefundKeepsCredits ==
  ASSUME JobsInv, CreditInv, NEW j \in Orders, jobs[j].owner \in Users, StaySubmitted,
         RefundCredits(jobs[j].owner, j)
  PROVE  CreditInv'
<1> DEFINE u == jobs[j].owner
           amount == Refundable(u, j)
<1>1. UNCHANGED << charges, codes >>
  BY DEF RefundCredits
<1>2. \A k \in Orders :
        /\ charges'[k].unit = charges[k].unit
        /\ IsFiniteSet(charges'[k].delivered)
        /\ Cardinality(charges'[k].delivered) <= Quantity
  BY <1>1 DEF CreditInv, OrdersCharged
<1>3. CASE UNCHANGED << accounts, rows >>
  BY <1>1, <1>2, <1>3, ChargeKeepsCredits
<1>4. CASE ~Has(u, Refund(j)) /\ Post(u, Refund(j), amount) /\ amount # 0
  <2>1. /\ Has(u, Charge(j))
        /\ amount = charges[j].unit * (Quantity - Cardinality(charges[j].delivered))
    BY <1>4 DEF Refundable
  <2>2. /\ charges[j].unit \in Nat /\ Cardinality(charges[j].delivered) \in Nat
        /\ Cardinality(charges[j].delivered) <= Quantity
        /\ rows[u][Charge(j)] = -(charges[j].unit * Quantity)
    BY <2>1, FS_CardinalityType DEF CreditInv, OrdersCharged
  <2>3. /\ amount \in Nat /\ charges[j].unit * Quantity \in Nat
        /\ amount <= charges[j].unit * Quantity
    BY <2>1, <2>2, ProductIsNat
  <2> HIDE DEF amount
  <2>4. amount <= -rows[u][Charge(j)]
    BY <2>2, <2>3
  <2>5. /\ Grows(rows[u], rows'[u], Refund(j), amount)
        /\ \A r : \A v \in Users : Has(v, r)' <=> Has(v, r) \/ (v = u /\ r = Refund(j))
        /\ \A r : \A v \in Users : Has(v, r) => rows'[v][r] = rows[v][r]
    BY <1>4, <2>3, RowsGrow DEF CreditInv
  <2>6. AreOrders(rows[u]) /\ Charge(j) \in DOMAIN rows[u]
    BY <2>1 DEF CreditInv, Books, IsBook, Has
  <2>7. /\ AreOrders(rows'[u])
        /\ Sum(Costs(rows'[u])) = Sum(Costs(rows[u])) + Spent(Refund(j), amount)
    BY <2>3, <2>4, <2>5, <2>6, RefundRow
  <2>8. Books'
    BY <1>4, <2>3, <2>7, PostKeepsBooks DEF CreditInv
  <2>9. \A k : Charge(k) # Refund(j) /\ << "credit-code", k >> # Refund(j)
    BY DEF Charge, Refund
  <2>10. CodesPaid'
    BY <1>1, <2>5, <2>9 DEF CreditInv, CodesPaid
  <2>11. OrdersCharged'
    BY <1>1, <2>5, <2>9 DEF CreditInv, OrdersCharged, StaySubmitted
  <2> QED  BY <2>8, <2>10, <2>11 DEF CreditInv
<1> QED  BY <1>3, <1>4 DEF RefundCredits, ApplyDelta

(* Whoever submitted a job owns it.                                        *)
Owned == \A j \in Orders : jobs[j].status # "none" \/ InMemory(j) => jobs[j].owner \in Users

LEMMA OwnedInit == PlatformInit => Owned
BY DEF PlatformInit, Owned, InMemory

LEMMA OwnedStep == JobsInv /\ Owned /\ [PlatformNext]_allVars => Owned'
<1> SUFFICES ASSUME JobsInv, Owned, [PlatformNext]_allVars
             PROVE  Owned'
  OBVIOUS
<1>1. CASE UNCHANGED jobs
  BY <1>1 DEF Owned, InMemory
<1>2. ASSUME NEW u \in Users, NEW j \in Orders, NEW m \in Models, Submit(u, j, m)
      PROVE  Owned'
  BY <1>2 DEF Submit, JobsInv, Owned, InMemory
<1>3. ASSUME NEW j \in Orders, NEW status, End(j, status), jobs[j].status # "none" \/ InMemory(j)
      PROVE  Owned'
  BY <1>3 DEF End, JobsInv, IsJob, Owned, InMemory
<1>4. ASSUME NEW j \in Orders, Attach(j)
      PROVE  Owned'
  BY <1>4 DEF Attach, JobsInv, IsJob, Owned, InMemory
<1>5. ASSUME NEW j \in Orders, Complete(j) \/ Fail(j)
      PROVE  Owned'
  BY <1>3, <1>5 DEF Complete, Fail
<1>6. ASSUME NEW j \in Orders, Recover(j)
      PROVE  Owned'
  <2>1. CASE jobs' = [jobs EXCEPT ![j].runtime = Connection(provider)]
    BY <1>6, <2>1 DEF Recover, JobsInv, IsJob, Owned, InMemory
  <2> QED  BY <1>3, <1>6, <2>1 DEF Recover
<1>7. CASE Crash
  BY <1>7 DEF Crash, JobsInv, IsJob, Owned, InMemory, NoRuntime
<1>8. ASSUME \/ Remove
             \/ \E url \in Urls, key \in {"keep", "new", "clear"},
                   choice \in [Models -> Choices], enabled \in BOOLEAN :
                  Save(url, key, choice, enabled)
             \/ \E s \in Syncs : BeginSync(s) \/ FailSync(s)
             \/ \E s \in Syncs, found \in SUBSET Models : FinishSync(s, found)
             \/ \E j \in Orders, output \in 1 .. Quantity : Deliver(j, output)
             \/ CreditNext /\ UNCHANGED platformVars
             \/ UNCHANGED allVars
      PROVE  UNCHANGED jobs
  BY <1>8 DEF Remove, Save, BeginSync, FailSync, FinishSync, Deliver, platformVars, allVars
<1> QED
  BY <1>1, <1>2, <1>4, <1>5, <1>6, <1>7, <1>8 DEF PlatformNext

LEMMA CreditsStep ==
  JobsInv /\ ProviderInv /\ Owned /\ CreditInv /\ [PlatformNext]_allVars => CreditInv'
<1> SUFFICES ASSUME JobsInv, ProviderInv, Owned, CreditInv, [PlatformNext]_allVars
             PROVE  CreditInv'
  OBVIOUS
<1>1. ASSUME UNCHANGED creditVars, StaySubmitted
      PROVE  CreditInv'
  <2>1. UNCHANGED << accounts, rows, codes, charges >>
    BY <1>1 DEF creditVars
  <2> QED  BY <1>1, <2>1, ChargeKeepsCredits DEF CreditInv, OrdersCharged
<1>2. ASSUME NEW j \in Orders, NEW c, charges' = [charges EXCEPT ![j] = c],
             c.unit = charges[j].unit, IsFiniteSet(c.delivered),
             Cardinality(c.delivered) <= Quantity, StaySubmitted,
             UNCHANGED << accounts, rows, codes >>
      PROVE  CreditInv'
  <2>1. ASSUME NEW k \in Orders
        PROVE  /\ charges'[k].unit = charges[k].unit
               /\ IsFiniteSet(charges'[k].delivered)
               /\ Cardinality(charges'[k].delivered) <= Quantity
    <3>1. DOMAIN charges = Orders
      BY DEF JobsInv
    <3>2. CASE k = j
      <4>1. charges'[k] = c
        BY <1>2, <3>1, <3>2
      <4> QED  BY <1>2, <3>2, <4>1, Zenon
    <3>3. CASE k # j
      <4>1. charges'[k] = charges[k]
        BY <1>2, <3>1, <3>3
      <4> QED  BY <4>1, Zenon DEF CreditInv, OrdersCharged
    <3> QED  BY <3>2, <3>3
  <2> QED  BY <1>2, <2>1, ChargeKeepsCredits
<1>3. \A j \in Orders : IsCharge(charges[j]) /\ IsFiniteSet(charges[j].delivered)
                        /\ Cardinality(charges[j].delivered) <= Quantity
  BY DEF JobsInv, CreditInv, OrdersCharged
<1>4. ASSUME NEW j \in Orders, Attach(j)
      PROVE  CreditInv'
  <2> DEFINE c == [charges[j] EXCEPT !.task = TRUE]
  <2>1. c.unit = charges[j].unit /\ c.delivered = charges[j].delivered
    BY <1>3 DEF IsCharge
  <2>2. charges' = [charges EXCEPT ![j] = c] /\ UNCHANGED << accounts, rows, codes >>
    BY <1>4 DEF Attach, AttachGenerationTask
  <2>3. StaySubmitted
    BY <1>4, JobsStaySubmitted
  <2> HIDE DEF c
  <2>4. IsFiniteSet(c.delivered) /\ Cardinality(c.delivered) <= Quantity
    BY <1>3, <2>1, Zenon
  <2> QED  BY <1>2, <2>1, <2>2, <2>3, <2>4
<1>5. ASSUME NEW j \in Orders, NEW output \in 1 .. Quantity, Deliver(j, output)
      PROVE  CreditInv'
  <2> DEFINE c == [charges[j] EXCEPT !.delivered = @ \cup {output}]
  <2>1. c.unit = charges[j].unit /\ c.delivered = charges[j].delivered \cup {output}
    BY <1>3 DEF IsCharge
  <2>2. /\ charges' = [charges EXCEPT ![j] = c] /\ UNCHANGED << accounts, rows, codes >>
        /\ Cardinality(charges[j].delivered \cup {output}) <= Quantity
    BY <1>5 DEF Deliver, RecordGenerationOutput
  <2>3. StaySubmitted
    BY <1>5, JobsStaySubmitted DEF Deliver, platformVars
  <2>4. IsFiniteSet(charges[j].delivered \cup {output})
    BY <1>3, FS_AddElement
  <2> HIDE DEF c
  <2>5. IsFiniteSet(c.delivered) /\ Cardinality(c.delivered) <= Quantity
    BY <2>1, <2>2, <2>4, Zenon
  <2> QED  BY <1>2, <2>1, <2>2, <2>3, <2>5
<1>6. ASSUME NEW j \in Orders, Complete(j)
      PROVE  CreditInv'
  <2> DEFINE c == [charges[j] EXCEPT !.settled = TRUE]
  <2>1. c.unit = charges[j].unit /\ c.delivered = charges[j].delivered
    BY <1>3 DEF IsCharge
  <2>2. charges' = [charges EXCEPT ![j] = c] /\ UNCHANGED << accounts, rows, codes >>
    BY <1>6 DEF Complete, SettleGenerationCharge
  <2>3. StaySubmitted
    BY <1>6, JobsStaySubmitted
  <2> HIDE DEF c
  <2>4. IsFiniteSet(c.delivered) /\ Cardinality(c.delivered) <= Quantity
    BY <1>3, <2>1, Zenon
  <2> QED  BY <1>2, <2>1, <2>2, <2>3, <2>4
<1>7. ASSUME NEW j \in Orders, Fail(j)
      PROVE  CreditInv'
  <2>1. RefundCredits(jobs[j].owner, j) /\ jobs[j].owner \in Users /\ StaySubmitted
    BY <1>7, JobsStaySubmitted DEF Fail, Owned
  <2> QED  BY <2>1, RefundKeepsCredits
<1>8. ASSUME NEW j \in Orders, Recover(j)
      PROVE  CreditInv'
  BY <1>1, <1>8, JobsStaySubmitted DEF Recover
<1>9. CASE Crash
  <2>1. PICK j \in Orders : InMemory(j)
    BY <1>9 DEF Crash
  <2> QED  BY <1>1, <1>9, <2>1, JobsStaySubmitted DEF Crash
<1>10. ASSUME UNCHANGED << creditVars, jobs >>
       PROVE  CreditInv'
  BY <1>1, <1>10 DEF StaySubmitted
<1>11. ASSUME \/ Remove
              \/ \E url \in Urls, key \in {"keep", "new", "clear"},
                    choice \in [Models -> Choices], enabled \in BOOLEAN :
                   Save(url, key, choice, enabled)
              \/ \E s \in Syncs : BeginSync(s) \/ FailSync(s)
              \/ \E s \in Syncs, found \in SUBSET Models : FinishSync(s, found)
              \/ UNCHANGED allVars
       PROVE  UNCHANGED << creditVars, jobs >>
  BY <1>11 DEF Remove, Save, BeginSync, FailSync, FinishSync, platformVars, allVars
<1> QED
  BY <1>4, <1>5, <1>6, <1>7, <1>8, <1>9, <1>10, <1>11, SubmitKeepsCredits, CreditCallKeeps
     DEF PlatformNext

-------------------------------------------------------------------------------
(* An account is the sum of its rows, whatever the order of the calls; no  *)
(* refund exceeds its charge, and a code pays the one who redeemed it.     *)
THEOREM BooksAreBalanced == PlatformSpec => []BooksBalance
<1>1. CreditInv => BooksBalance
  <2> SUFFICES ASSUME CreditInv, NEW u \in Users
               PROVE  /\ accounts[u].balance = Sum(Deltas(rows[u]))
                      /\ accounts[u].earned = Sum(Earnings(rows[u]))
                      /\ accounts[u].spent = Sum(Spendings(rows[u]))
                      /\ \A c \in Codes : Has(u, << "credit-code", c >>) <=> codes[c] = u
    BY DEF BooksBalance, SumFunction, SumFunctionOnSet, SumOf, Sum,
           Deltas, Earnings, Spendings, Spent
  <2> QED  BY DEF CreditInv, Books, IsBook, CodesPaid
<1> QED
  BY <1>1, JobsInit, ProviderInit, CreditsInit, OwnedInit,
     JobsStep, ProviderStep, CreditsStep, OwnedStep, PTL DEF PlatformSpec
===============================================================================
