--------------------------- MODULE PlatformProviders ---------------------------
(***************************************************************************)
(* The provider of the platform (platformProviders.js), which the          *)
(* administrator configures, and the paid jobs that use it.  Saving and    *)
(* removing are one synchronous call; the discovery of models (sync) reads *)
(* the row, waits for the provider and writes the row only if its revision *)
(* is still the one that was read.  A job is submitted at the price of the *)
(* moment (runtime, reserveJobCredits), and a video task that a restart    *)
(* finds upstream is resumed only with the connection it was paid for      *)
(* (recoverPersistedVideoJobs).                                            *)
(*                                                                         *)
(* The revision here also counts the provider's identifier: one that is    *)
(* created after a removal continues the count.  Every model is capable of *)
(* the one operation that is priced.                                       *)
(***************************************************************************)
EXTENDS CreditAccounts

CONSTANTS
  Urls,           \* base URLs (and types) of the provider
  Models,
  Prices,
  Syncs,          \* discoveries that may be under way
  MaxRevision     \* bound: times that the row is written

ASSUME PriceAssumption == Prices \subseteq Nat

VARIABLES
  provider,       \* the row of the provider, or NoProvider
  revision,       \* the number of its writes
  syncs,          \* discovery -> the row it read, or NoProvider
  jobs,           \* job -> status, owner and the runtime it holds in memory
  reported,       \* ghost: models that the saved connection has reported
  chosen          \* ghost: what the administrator last saved of the models

platformVars == << provider, revision, syncs, jobs, reported, chosen >>
allVars == << creditVars, platformVars >>

Unpriced == -1

(* The connection is the URL and the secret, which is encrypted anew each  *)
(* time it is saved: the revision of that write stands for it, 0 for none. *)
NoModel == [ listed |-> FALSE, enabled |-> FALSE, available |-> FALSE,
             price |-> Unpriced ]
NoProvider == [ revision |-> 0 ]
NoRuntime == << >>

Connection(row) == << row.url, row.secret >>

Choice(model) == [model EXCEPT !.available = FALSE]

(* The service starts without a provider, or with one in service.          *)
Serving(url, price) ==
  [ url |-> url, secret |-> 1, enabled |-> TRUE, revision |-> 1,
    models |-> [m \in Models |-> [ listed |-> TRUE, enabled |-> TRUE,
                                    available |-> TRUE, price |-> price ]] ]

PlatformInit ==
  /\ CreditInit
  /\ revision = 1
  /\ \/ /\ provider = NoProvider
        /\ reported = {}
        /\ chosen = [m \in Models |-> NoModel]
     \/ \E url \in Urls, price \in Prices :
          /\ provider = Serving(url, price)
          /\ reported = Models
          /\ chosen = [m \in Models |-> Choice(provider.models[m])]
  /\ syncs = [s \in Syncs |-> NoProvider]
  /\ jobs = [j \in Orders |-> [ status |-> "none", owner |-> "nobody",
                                 model |-> "none", runtime |-> NoRuntime ]]

Exists == provider # NoProvider

Usable(model) == model.enabled /\ model.available /\ model.price # Unpriced

(* normalizeModels: what the administrator sent, availability as before.   *)
Choices ==
  {NoModel} \cup {[ listed |-> TRUE, enabled |-> enable, available |-> FALSE,
                    price |-> price ] :
                  enable \in BOOLEAN, price \in Prices \cup {Unpriced}}

Normalized(choice, previous) ==
  [m \in Models |-> [choice[m] EXCEPT !.available =
                       choice[m].listed /\ previous[m].available]]

-------------------------------------------------------------------------------
Write(url, secret, enabled, models) ==
  /\ revision < MaxRevision
  /\ revision' = revision + 1
  /\ provider' = [ url |-> url, secret |-> secret, enabled |-> enabled,
                   models |-> models, revision |-> revision + 1 ]

Old == IF Exists THEN provider
       ELSE [ url |-> "none", secret |-> 0, enabled |-> FALSE,
              models |-> [m \in Models |-> NoModel], revision |-> 0 ]

(* save: a changed connection takes the models out of service until they   *)
(* are discovered again, and so the provider: it is not enabled while no   *)
(* model is usable.  An input without `enabled' keeps it as it is, or      *)
(* turns it off with a changed connection: one of the two here.            *)
Unavailable_Wrong(models) == models
Unavailable(models) == [m \in Models |-> [models[m] EXCEPT !.available = FALSE]]

Save(url, key, choice, enabled) ==
  LET secret  == CASE key = "new" -> revision + 1
                   [] key = "clear" -> 0
                   [] OTHER -> Old.secret
      changed == Exists /\ (url # Old.url \/ secret # Old.secret)
      kept    == Normalized(choice, Old.models)
      models  == IF changed THEN Unavailable(kept) ELSE kept
  IN  /\ Exists \/ ~enabled
      /\ enabled => secret # 0 /\ \E m \in Models : Usable(models[m])
      /\ Write(url, secret, enabled, models)
      /\ chosen' = [m \in Models |-> Choice(models[m])]
      /\ reported' = IF changed THEN {} ELSE reported
      /\ UNCHANGED << syncs, jobs, creditVars >>

Remove ==
  /\ Exists
  /\ provider' = NoProvider
  /\ chosen' = [m \in Models |-> NoModel]
  /\ reported' = {}
  /\ UNCHANGED << revision, syncs, jobs, creditVars >>

BeginSync(s) ==
  /\ Exists /\ provider.secret # 0
  /\ syncs[s] = NoProvider
  /\ syncs' = [syncs EXCEPT ![s] = provider]
  /\ UNCHANGED << provider, revision, jobs, reported, chosen, creditVars >>

(* The models that the provider lists are available, the new ones among    *)
(* them are added as drafts; the others stay as the administrator left     *)
(* them, without being available.                                          *)
Discovered(models, found) ==
  [m \in Models |-> [ listed |-> models[m].listed \/ m \in found,
                       enabled |-> models[m].enabled, available |-> m \in found,
                       price |-> models[m].price ]]

Unchanged_Wrong(row) == Exists
Unchanged(row) == Exists /\ provider.revision = row.revision

FinishSync(s, found) ==
  /\ syncs[s] # NoProvider
  /\ Unchanged(syncs[s])
  /\ Write(provider.url, provider.secret, provider.enabled,
           Discovered(syncs[s].models, found))
  /\ syncs' = [syncs EXCEPT ![s] = NoProvider]
  /\ reported' = IF Connection(syncs[s]) = Connection(provider)
                 THEN reported \cup found ELSE reported
  /\ chosen' = [m \in Models |-> IF m \in found THEN [chosen[m] EXCEPT !.listed = TRUE]
                                 ELSE chosen[m]]
  /\ UNCHANGED << jobs, creditVars >>

(* The discovery fails, or the row has changed meanwhile. *)
FailSync(s) ==
  /\ syncs[s] # NoProvider
  /\ syncs' = [syncs EXCEPT ![s] = NoProvider]
  /\ UNCHANGED << provider, revision, jobs, reported, chosen, creditVars >>

-------------------------------------------------------------------------------
(* runtime: what a paid job may use now. *)
Offered(m) == open /\ Exists /\ provider.enabled /\ Usable(provider.models[m])
                   /\ provider.secret # 0

Submit(u, j, m) ==
  /\ jobs[j].status = "none"
  /\ Offered(m)
  /\ ReserveCredits(u, j, provider.models[m].price, Connection(provider))
  /\ jobs' = [jobs EXCEPT ![j] = [ status |-> "running", owner |-> u, model |-> m,
                                    runtime |-> Connection(provider) ]]
  /\ UNCHANGED << provider, revision, syncs, reported, chosen >>

InMemory(j) == jobs[j].runtime # NoRuntime

(* The upstream service accepts the task of a video job. *)
Attach(j) ==
  /\ InMemory(j) /\ jobs[j].status = "running"
  /\ AttachGenerationTask(jobs[j].owner, j)
  /\ jobs' = [jobs EXCEPT ![j].status = "upstream"]
  /\ UNCHANGED << provider, revision, syncs, reported, chosen >>

(* The outputs are stored in their order; one may be recorded again.       *)
Deliver(j, output) ==
  /\ InMemory(j)
  /\ output <= Cardinality(charges[j].delivered) + 1
  /\ RecordGenerationOutput(jobs[j].owner, j, output)
  /\ UNCHANGED platformVars

End(j, status) == jobs' = [jobs EXCEPT ![j].status = status, ![j].runtime = NoRuntime]

Complete(j) ==
  /\ InMemory(j)
  /\ SettleGenerationCharge(jobs[j].owner, j)
  /\ End(j, "completed")
  /\ UNCHANGED << provider, revision, syncs, reported, chosen >>

Fail(j) ==
  /\ InMemory(j)
  /\ RefundCredits(jobs[j].owner, j)
  /\ End(j, "failed")
  /\ UNCHANGED << provider, revision, syncs, reported, chosen >>

(* The process dies: discoveries and the runtimes of jobs are lost. *)
Crash ==
  /\ \E j \in Orders : InMemory(j)
  /\ syncs' = [s \in Syncs |-> NoProvider]
  /\ jobs' = [j \in Orders |->
       [jobs[j] EXCEPT !.runtime = NoRuntime,
                       !.status = IF @ = "running" THEN "unknown" ELSE @]]
  /\ UNCHANGED << provider, revision, reported, chosen, creditVars >>

SameConnection_Wrong(j) == TRUE
SameConnection(j) == Connection(provider) = charges[j].connection

Recover(j) ==
  /\ jobs[j].status = "upstream" /\ ~InMemory(j)
  /\ Chargeable(jobs[j].owner, j) /\ charges[j].task
  /\ IF Offered(jobs[j].model) /\ SameConnection(j)
     THEN jobs' = [jobs EXCEPT ![j].runtime = Connection(provider)]
     ELSE End(j, "unknown")
  /\ UNCHANGED << provider, revision, syncs, reported, chosen, creditVars >>

PlatformNext ==
  \/ \E url \in Urls, key \in {"keep", "new", "clear"}, choice \in [Models -> Choices],
        enabled \in BOOLEAN : Save(url, key, choice, enabled)
  \/ Remove
  \/ \E s \in Syncs : BeginSync(s) \/ FailSync(s)
  \/ \E s \in Syncs, found \in SUBSET Models : FinishSync(s, found)
  \/ \E u \in Users, j \in Orders, m \in Models : Submit(u, j, m)
  \/ \E j \in Orders : Attach(j) \/ Complete(j) \/ Fail(j) \/ Recover(j)
  \/ \E j \in Orders, output \in 1 .. Quantity : Deliver(j, output)
  \/ Crash
  \/ CreditNext /\ UNCHANGED platformVars

PlatformSpec == PlatformInit /\ [][PlatformNext]_allVars

-------------------------------------------------------------------------------
(* Properties. *)

(* A model is available only if the connection that is saved now has       *)
(* reported it: neither a change of the connection nor a discovery that    *)
(* overlaps it leaves models of another one in service (save, sync).       *)
OffersReported ==
  Exists => \A m \in Models : provider.models[m].available => m \in reported

(* Prices and enabled models stay as the administrator last saved them: a  *)
(* discovery under way at the time does not bring the former ones back     *)
(* (sync).                                                                 *)
Settings(model) == << model.listed, model.enabled, model.price >>
ChoicesStand ==
  Exists => \A m \in Models : Settings(provider.models[m]) = Settings(chosen[m])

(* A paid task is only ever run with the connection that its charge names, *)
(* through restarts and changes of the provider (runtime,                  *)
(* recoverPersistedVideoJobs).                                             *)
RunsAsCharged ==
  \A j \in Orders : InMemory(j) => jobs[j].runtime = charges[j].connection
===============================================================================
