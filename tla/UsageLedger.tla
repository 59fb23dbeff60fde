---------------------------- MODULE UsageLedger ----------------------------
(***************************************************************************)
(* The controller's usage ledger: ingest runs that read transcripts from   *)
(* the shared WebDAV store and record priced usage facts (ingest.ts), the  *)
(* approved rates and the review queue they are priced against (store.ts,  *)
(* api.ts), catalog checks (catalog.ts), and the worker that is started    *)
(* with the process and runs jobs of a durable queue (worker.ts).          *)
(*                                                                         *)
(* The controller is one JavaScript thread: what happens between two       *)
(* awaits is not interleaved with anything, but the process may die        *)
(* between two SQLite transactions.  cpu names the run that is in the      *)
(* middle of such a stretch; only a crash comes between its steps.         *)
(***************************************************************************)
EXTENDS Integers, FiniteSets, Sequences

CONSTANTS
  Devices,     \* agents that publish a manifest
  Entries,     \* (digest, path) pairs of manifests: one content of one log
  Large,       \* entries above MAX_OBJECT_BYTES
  Listing,     \* Listing[d]: the entries of each successive manifest of d
  Ids,         \* usage fact ids: provider, session and message
  Yield,       \* Yield[e][i]: what the parser reads about i in e, or None
  Models,
  Rates,       \* rates an operator may approve
  SeedRate,    \* the built-in rates, by model
  Operators,   \* concurrent requests of operators
  Worker,      \* the run of the background worker
  Sources,     \* provider endpoints of the catalog configuration
  Offer,       \* Offer[s]: the models endpoint s lists
  IngestJobs,  \* queue slots for usage_ingest jobs
  CheckJobs,   \* queue slots for catalog_refresh jobs
  MaxAttempts, \* deliveries of a job before it is dropped (5 in the code)
  MaxCrashes,  \* bound: crashes of the process
  None         \* absent

Runs    == Operators \cup {Worker}
Jobs    == IngestJobs \cup CheckJobs
Reading == [model : Models, tokens : Nat]

\* A message names one model in every copy of its log.
ASSUME ConstantsOK ==
  /\ Worker \notin Operators
  /\ Large \subseteq Entries
  /\ Listing \in [Devices -> Seq(SUBSET Entries)]
  /\ Yield \in [Entries -> [Ids -> Reading \cup {None}]]
  /\ \A e, f \in Entries, i \in Ids :
       Yield[e][i] # None /\ Yield[f][i] # None
         => Yield[e][i].model = Yield[f][i].model
  /\ Rates \subseteq Nat \ {0}
  /\ DOMAIN SeedRate \subseteq Models
  /\ SeedRate \in [DOMAIN SeedRate -> Rates]
  /\ Offer \in [Sources -> SUBSET Models]
  /\ IngestJobs \cap CheckJobs = {}
  /\ Entries \cap (Devices \cup Sources) = {} /\ Devices \cap Sources = {}
  /\ None \notin Runs \cup Jobs \cup Rates
  /\ MaxAttempts \in Nat \ {0} /\ MaxCrashes \in Nat

VARIABLES
  published,   \* published[d]: how many manifests d has published
  configured,  \* a storage backend is saved and its password readable
  prices,      \* model_prices: the approved rate of a model, or None
  catalog,     \* catalog_models: the review status of a model, or None
  facts,       \* usage_facts
  ingested,    \* ingested_objects
  queue,       \* the live jobs of the queue
  schedules,   \* the recurring schedules registered with the queue
  up,          \* the process runs
  cpu,         \* the run inside a stretch without await, or None
  job,         \* the job the worker handles, or None
  pc,          \* pc[r]: what run r awaits or does next
  kind,        \* kind[r]: what r is, a usage_ingest or a catalog_refresh
  row,         \* row[r]: status in the ingest_runs/catalog_checks row of r
  held,        \* held[r]: the rates r read when it started
  due,         \* due[r]: manifests, or endpoints, r has still to read
  entries,     \* entries[r]: what is left of the manifest r is working on
  item,        \* item[r]: the device, entry or endpoint r has asked for
  seen,        \* seen[r]: entries r met in manifests
  observed,    \* observed[r]: models r met
  clean,       \* clean[r]: no error so far
  moved,       \* history: models priced anew while a run held older rates
  forgotten,   \* history: models a run met before it died
  crashes      \* crashes so far

db   == <<prices, catalog, facts, ingested>>
work == <<kind, held, due, entries, item, seen, observed, clean>>
jobs == <<queue, schedules, job>>
env  == <<published, configured>>
hist == <<moved, forgotten, crashes>>
vars == <<env, db, jobs, up, cpu, pc, row, work, hist>>

Cost     == [tokens : Nat, rate : Rates] \cup {None}
Fact     == [model : Models, tokens : Nat, cost : Cost]
Status   == {"needs_price", "priced", "ignored"}
Kinds    == {"usage_ingest", "catalog_refresh"}
Awaiting == {"list", "manifest", "object", "fetch"}
Busy     == {"mark", "observe", "finish", "settle", "throw"}

ASSUME NoneIsAbsent == None \notin Status \cup Fact \cup [tokens : Nat, rate : Rates]

TypeOK ==
  /\ published \in [Devices -> Nat] /\ configured \in BOOLEAN
  /\ prices \in [Models -> Rates \cup {None}]
  /\ catalog \in [Models -> Status \cup {None}]
  /\ facts \in [Ids -> Fact \cup {None}]
  /\ ingested \subseteq Entries
  /\ queue \in [Jobs -> [state : {"none", "pending", "claimed"}, tries : Nat]]
  /\ schedules \subseteq Kinds
  /\ up \in BOOLEAN
  /\ cpu \in Runs \cup {None} /\ job \in Jobs \cup {None}
  /\ pc \in [Runs -> {"idle"} \cup Awaiting \cup Busy]
  /\ kind \in [Runs -> Kinds \cup {None}]
  /\ row \in [Runs -> {"none", "failed", "skipped", "partial", "ok"}]
  /\ held \in [Runs -> [Models -> Rates \cup {None}]]
  /\ due \in [Runs -> SUBSET (Devices \cup Sources)]
  /\ entries \in [Runs -> SUBSET Entries]
  /\ item \in [Runs -> Devices \cup Entries \cup Sources \cup {None}]
  /\ seen \in [Runs -> SUBSET Entries]
  /\ observed \in [Runs -> SUBSET Models]
  /\ clean \in [Runs -> BOOLEAN]
  /\ moved \subseteq Models /\ forgotten \subseteq Models
  /\ crashes \in Nat

NoRates == [m \in Models |-> None]

Init ==
  /\ published = [d \in Devices |-> 0] /\ configured = FALSE
  /\ prices = NoRates /\ catalog = NoRates
  /\ facts = [i \in Ids |-> None] /\ ingested = {}
  /\ queue = [j \in Jobs |-> [state |-> "none", tries |-> 0]]
  /\ schedules = {} /\ up = FALSE /\ cpu = None /\ job = None
  /\ pc = [r \in Runs |-> "idle"] /\ row = [r \in Runs |-> "none"]
  /\ kind = [r \in Runs |-> None]
  /\ held = [r \in Runs |-> NoRates] /\ due = [r \in Runs |-> {}]
  /\ entries = [r \in Runs |-> {}] /\ item = [r \in Runs |-> None]
  /\ seen = [r \in Runs |-> {}] /\ observed = [r \in Runs |-> {}]
  /\ clean = [r \in Runs |-> TRUE]
  /\ moved = {} /\ forgotten = {} /\ crashes = 0

Free == up /\ cpu = None

-----------------------------------------------------------------------------
(* Agents, and the operator's rates and review queue. *)

\* An agent replaces its manifest (external: agent/src/relaydot/sync.py).
Publish(d) ==
  /\ published[d] < Len(Listing[d])
  /\ published' = [published EXCEPT ![d] = @ + 1]
  /\ UNCHANGED <<configured, db, jobs, up, cpu, pc, row, work, hist>>

\* The operator saves or deletes the storage backend.
SetBackend ==
  /\ Free
  /\ configured' = ~configured
  /\ UNCHANGED <<published, db, jobs, up, cpu, pc, row, work, hist>>

\* Runs that will still price facts with the rates they hold.
Pricing == {r \in Runs : pc[r] \in {"list", "manifest", "object"}}

\* Mutant: the withdrawn or approved rate does not reach stored facts.
RepriceNothing(before, after) == facts

\* repriceModel, for the models whose rate is written.
Reprice(after, ms) ==
  [i \in Ids |->
     IF facts[i] # None /\ facts[i].model \in ms
     THEN [facts[i] EXCEPT !.cost =
             IF after[facts[i].model] = None THEN None
             ELSE [tokens |-> facts[i].tokens, rate |-> after[facts[i].model]]]
     ELSE facts[i]]

\* The rates of models ms are written, and all stored facts priced anew.
SetRates(after, ms) ==
  /\ prices' = after
  /\ facts' = Reprice(after, ms)
  /\ moved' = IF Pricing = {} THEN moved \ ms ELSE moved \cup ms

\* rateChangeGuard: the rate moves by more than half.
BigMove(before, after) ==
  before # None /\ 2 * (IF after > before THEN after - before ELSE before - after) > before

\* savePrice and upsertModelPrices: a priced model leaves the review queue.
SavePrice(m, rate, confirmed) ==
  /\ Free
  /\ confirmed \/ ~BigMove(prices[m], rate)
  /\ SetRates([prices EXCEPT ![m] = rate], {m})
  /\ catalog' = [catalog EXCEPT ![m] = IF @ = None THEN None ELSE "priced"]
  /\ UNCHANGED <<env, ingested, jobs, up, cpu, pc, row, work, forgotten, crashes>>

\* deleteModelPrice: a priced model returns to the review queue.
DeletePrice(m) ==
  /\ Free /\ prices[m] # None
  /\ SetRates([prices EXCEPT ![m] = None], {m})
  /\ catalog' = [catalog EXCEPT ![m] = IF @ = "priced" THEN "needs_price" ELSE @]
  /\ UNCHANGED <<env, ingested, jobs, up, cpu, pc, row, work, forgotten, crashes>>

\* setCatalogStatus: a restored model with a rate is priced.
SetStatus(m, status) ==
  /\ Free /\ catalog[m] # None
  /\ catalog' = [catalog EXCEPT ![m] =
       IF status = "needs_price" /\ prices[m] # None THEN "priced" ELSE status]
  /\ UNCHANGED <<env, prices, facts, ingested, jobs, up, cpu, pc, row, work, hist>>

-----------------------------------------------------------------------------
(* A run: it starts, reads manifests and objects, and ends. *)

\* The row is inserted as failed; the rates are read once.
Begin(r, k) ==
  /\ kind' = [kind EXCEPT ![r] = k]
  /\ row' = [row EXCEPT ![r] = "failed"]
  /\ held' = [held EXCEPT ![r] = IF k = "usage_ingest" THEN prices ELSE NoRates]
  /\ UNCHANGED <<seen, observed, entries>>

\* runIngest up to the listing of the manifests.
StartIngest(r) ==
  /\ Begin(r, "usage_ingest")
  /\ pc' = [pc EXCEPT ![r] = "list"]
  /\ UNCHANGED <<due, item, clean, cpu>>

Await(r, what, of) ==
  /\ pc' = [pc EXCEPT ![r] = what]
  /\ item' = [item EXCEPT ![r] = of]
  /\ cpu' = None

Continue(r, what) ==
  /\ pc' = [pc EXCEPT ![r] = what]
  /\ cpu' = r
  /\ UNCHANGED item

\* Entries of a manifest that are asked for, in the manifest's order.
Unread(done, es) == es \ (Large \cup done)

\* ingestUsage from one answer to the next request: the next entry not parsed
\* yet, else the next manifest, else the end of the run.
NextObject(r, es, ds, done) ==
  LET rest == Unread(done, es) IN
  \/ \E e \in rest :
       /\ Await(r, "object", e)
       /\ entries' = [entries EXCEPT ![r] = rest \ {e}]
       /\ due' = [due EXCEPT ![r] = ds]
  \/ /\ rest = {}
     /\ entries' = [entries EXCEPT ![r] = {}]
     /\ \/ \E d \in ds :
             /\ Await(r, "manifest", d)
             /\ due' = [due EXCEPT ![r] = ds \ {d}]
        \/ /\ ds = {}
           /\ Continue(r, "observe")
           /\ due' = [due EXCEPT ![r] = {}]

\* The listing of the collection of manifests.
ReceiveListing(r) ==
  /\ Free /\ pc[r] = "list"
  /\ NextObject(r, {}, {d \in Devices : published[d] > 0}, ingested)
  /\ UNCHANGED <<env, db, jobs, up, row, kind, held, seen, observed, clean, hist>>

\* The listing fails: the run ends and its caller sees the error.
ListingFails(r) ==
  /\ Free /\ pc[r] = "list"
  /\ Continue(r, "throw")
  /\ UNCHANGED <<env, db, jobs, up, row, kind, held, due, entries, seen, observed, clean, hist>>

\* Mutant: the first version of a manifest is kept.
ManifestOnce(d) == Listing[d][1]

\* The manifest of d by now.
Manifest(d) == Listing[d][published[d]]

ReceiveManifest(r) ==
  /\ Free /\ pc[r] = "manifest"
  /\ seen' = [seen EXCEPT ![r] = @ \cup Manifest(item[r])]
  /\ NextObject(r, Manifest(item[r]), due[r], ingested)
  /\ UNCHANGED <<env, db, jobs, up, row, kind, held, observed, clean, hist>>

\* The manifest cannot be read, or is cut short: an error is noted.
ManifestFails(r) ==
  /\ Free /\ pc[r] = "manifest"
  /\ clean' = [clean EXCEPT ![r] = FALSE]
  /\ NextObject(r, {}, due[r], ingested)
  /\ UNCHANGED <<env, db, jobs, up, row, kind, held, seen, observed, hist>>

\* Mutant: a model without a rate is not told apart.
PriceAlways(f, rates) == [tokens |-> f.tokens, rate |-> rates[f.model]]

\* estimateCostMicroUsd, symbolically.
Price(f, rates) ==
  IF rates[f.model] = None THEN None ELSE [tokens |-> f.tokens, rate |-> rates[f.model]]

\* recordUsageFacts: a known fact gets the new cost and keeps its counters.
Recorded(e, rates) ==
  [i \in Ids |->
     CASE Yield[e][i] = None -> facts[i]
       [] Yield[e][i] # None /\ facts[i] = None ->
            [model |-> Yield[e][i].model, tokens |-> Yield[e][i].tokens,
             cost |-> Price(Yield[e][i], rates)]
       [] OTHER -> [facts[i] EXCEPT !.cost = Price(Yield[e][i], rates)]]

\* The bytes of an object, with the digest they were asked for by.
StoreFacts(r) ==
  /\ Free /\ pc[r] = "object"
  /\ facts' = Recorded(item[r], held[r])
  /\ observed' = [observed EXCEPT ![r] = @ \cup
       {Yield[item[r]][i].model : i \in {j \in Ids : Yield[item[r]][j] # None}}]
  /\ Continue(r, "mark")
  /\ UNCHANGED <<env, prices, catalog, ingested, jobs, up, row, kind, held, due,
                 entries, seen, clean, hist>>

\* Mutant: an object that fails is marked like one that was read.
ObjectFailsMarked(r) ==
  /\ Free /\ pc[r] = "object"
  /\ clean' = [clean EXCEPT ![r] = FALSE]
  /\ ingested' = ingested \cup {item[r]}
  /\ NextObject(r, entries[r], due[r], ingested)
  /\ UNCHANGED <<env, prices, catalog, facts, jobs, up, row, kind, held, seen, observed, hist>>

\* Mutant: an object that fails is skipped without an error.
ObjectFailsQuietly(r) ==
  /\ Free /\ pc[r] = "object"
  /\ NextObject(r, entries[r], due[r], ingested)
  /\ UNCHANGED <<env, db, jobs, up, row, kind, held, seen, observed, clean, hist>>

\* The object is missing, hashes to something else or cannot be read.
ObjectFails(r) ==
  /\ Free /\ pc[r] = "object"
  /\ clean' = [clean EXCEPT ![r] = FALSE]
  /\ NextObject(r, entries[r], due[r], ingested)
  /\ UNCHANGED <<env, db, jobs, up, row, kind, held, seen, observed, hist>>

\* markObjectIngested.
Mark(r) ==
  /\ up /\ cpu = r /\ pc[r] = "mark"
  /\ ingested' = ingested \cup {item[r]}
  /\ NextObject(r, entries[r], due[r], ingested')
  /\ UNCHANGED <<env, prices, catalog, facts, jobs, up, row, kind, held, seen,
                 observed, clean, hist>>

\* Mutant: a new model needs a price even when it has one.
ObservedUnpriced(ms) ==
  [m \in Models |-> IF m \in ms /\ catalog[m] = None THEN "needs_price" ELSE catalog[m]]

\* Mutant: only models with a rate are listed.
ObservedPriced(ms) ==
  [m \in Models |-> IF m \in ms /\ catalog[m] = None /\ prices[m] # None
                    THEN "priced" ELSE catalog[m]]

\* observeCatalogModels: known models keep their status.
Observed(ms) ==
  [m \in Models |-> IF m \in ms /\ catalog[m] = None
                    THEN IF prices[m] = None THEN "needs_price" ELSE "priced"
                    ELSE catalog[m]]

Observe(r) ==
  /\ up /\ cpu = r /\ pc[r] = "observe"
  /\ catalog' = Observed(observed[r])
  /\ Continue(r, "finish")
  /\ UNCHANGED <<env, prices, facts, ingested, jobs, up, row, kind, held, due,
                 entries, seen, observed, clean, hist>>

\* The statuses a run may end with (refreshCatalog fails when nothing came).
Outcome(r) ==
  CASE clean[r] -> {"ok"}
    [] ~clean[r] /\ kind[r] = "catalog_refresh" /\ observed[r] = {} -> {"partial", "failed"}
    [] OTHER -> {"partial"}

\* finishIngestRun, finishCatalogCheck.
Finish(r) ==
  /\ up /\ cpu = r /\ pc[r] = "finish"
  /\ \E status \in Outcome(r) : row' = [row EXCEPT ![r] = status]
  /\ Continue(r, "settle")
  /\ UNCHANGED <<env, db, jobs, up, kind, held, due, entries, seen, observed, clean, hist>>

-----------------------------------------------------------------------------
(* Catalog checks. *)

\* refreshCatalog from one answer to the next request.  Sources are the
\* endpoints that are enabled and have a credential.
NextSource(r, ss) ==
  \/ \E s \in ss : Await(r, "fetch", s) /\ due' = [due EXCEPT ![r] = ss \ {s}]
  \/ ss = {} /\ Continue(r, "observe") /\ due' = [due EXCEPT ![r] = {}]

\* A required endpoint without a credential is an error from the start.
StartCheck(r) ==
  /\ Begin(r, "catalog_refresh")
  /\ \E missing \in BOOLEAN : clean' = [clean EXCEPT ![r] = ~missing]
  /\ NextSource(r, Sources)

ReceiveModels(r) ==
  /\ Free /\ pc[r] = "fetch"
  /\ observed' = [observed EXCEPT ![r] = @ \cup Offer[item[r]]]
  /\ NextSource(r, due[r])
  /\ UNCHANGED <<env, db, jobs, up, row, kind, held, entries, seen, clean, hist>>

\* The endpoint redirects out of the allowed hosts, is too slow or too large,
\* or does not answer with a list.
FetchFails(r) ==
  /\ Free /\ pc[r] = "fetch"
  /\ clean' = [clean EXCEPT ![r] = FALSE]
  /\ NextSource(r, due[r])
  /\ UNCHANGED <<env, db, jobs, up, row, kind, held, entries, seen, observed, hist>>

-----------------------------------------------------------------------------
(* Requests of operators, the worker and its queue, and the process. *)

\* ingestNow.
IngestNow(r) ==
  /\ Free /\ pc[r] = "idle" /\ configured
  /\ StartIngest(r)
  /\ UNCHANGED <<env, db, jobs, up, hist>>

\* checkCatalog.
CheckCatalog(r) ==
  /\ Free /\ pc[r] = "idle"
  /\ StartCheck(r)
  /\ UNCHANGED <<env, db, jobs, up, hist>>

\* The scheduler adds a job each time a schedule is due.
Fire(j) ==
  /\ up /\ queue[j].state = "none"
  /\ (IF j \in IngestJobs THEN "usage_ingest" ELSE "catalog_refresh") \in schedules
  /\ queue' = [queue EXCEPT ![j] = [state |-> "pending", tries |-> 0]]
  /\ UNCHANGED <<env, db, schedules, job, up, cpu, pc, row, work, hist>>

\* A delivery ended without an acknowledgement.
Undelivered(j) ==
  [queue EXCEPT ![j] = IF @.tries < MaxAttempts THEN [@ EXCEPT !.state = "pending"]
                       ELSE [state |-> "none", tries |-> 0]]

\* The visibility timeout of a claimed job passes (external: honker).
Expire(j) ==
  /\ queue[j].state = "claimed"
  /\ queue' = Undelivered(j)
  /\ UNCHANGED <<env, db, schedules, job, up, cpu, pc, row, work, hist>>

\* run and process of the worker: one job at a time.
Claim(j) ==
  /\ Free /\ job = None /\ pc[Worker] = "idle"
  /\ queue[j].state = "pending"
  /\ queue' = [queue EXCEPT ![j] = [state |-> "claimed", tries |-> @.tries + 1]]
  /\ job' = j
  /\ UNCHANGED <<env, db, schedules, up, hist>>

\* The handler returns at once, with status st in the row it wrote.
Nothing(r, k, st) ==
  /\ kind' = [kind EXCEPT ![r] = k]
  /\ row' = [row EXCEPT ![r] = st]
  /\ Continue(r, "settle")
  /\ UNCHANGED <<held, due, entries, seen, observed, clean>>

HandleUsageIngest(j) ==
  /\ Claim(j)
  /\ IF configured THEN StartIngest(Worker) ELSE Nothing(Worker, "usage_ingest", "skipped")

HandleCatalogRefresh(j) ==
  /\ Claim(j)
  /\ StartCheck(Worker) \/ Nothing(Worker, "catalog_refresh", "failed")

\* The run is over and its variables are gone.
Clear(r) ==
  /\ pc' = [pc EXCEPT ![r] = "idle"] /\ cpu' = None
  /\ kind' = [kind EXCEPT ![r] = None]
  /\ held' = [held EXCEPT ![r] = NoRates] /\ due' = [due EXCEPT ![r] = {}]
  /\ entries' = [entries EXCEPT ![r] = {}] /\ item' = [item EXCEPT ![r] = None]
  /\ seen' = [seen EXCEPT ![r] = {}] /\ observed' = [observed EXCEPT ![r] = {}]
  /\ clean' = [clean EXCEPT ![r] = TRUE] /\ row' = [row EXCEPT ![r] = "none"]
  /\ UNCHANGED <<env, db, schedules, up, hist>>

\* The answer of the operator's request is sent.
Answer(r) ==
  /\ up /\ cpu = r /\ pc[r] \in {"settle", "throw"} /\ r # Worker
  /\ Clear(r)
  /\ UNCHANGED <<queue, job>>

\* Mutant: a job is acknowledged even when its handler threw.
SettleAlways ==
  /\ up /\ cpu = Worker /\ pc[Worker] \in {"settle", "throw"}
  /\ queue' = [queue EXCEPT ![job] = [state |-> "none", tries |-> 0]]
  /\ job' = None
  /\ Clear(Worker)

\* ack, or retry after an error; neither does anything once the claim expired.
Settle ==
  /\ up /\ cpu = Worker /\ pc[Worker] \in {"settle", "throw"}
  /\ queue' = IF queue[job].state # "claimed" THEN queue
              ELSE IF pc[Worker] = "throw" THEN Undelivered(job)
              ELSE [queue EXCEPT ![job] = [state |-> "none", tries |-> 0]]
  /\ job' = None
  /\ Clear(Worker)

\* seed: the rates after the built-in ones are written.
Seeded == [m \in Models |-> IF m \in DOMAIN SeedRate THEN SeedRate[m] ELSE prices[m]]

\* registerSchedules: declared schedules are added, others removed.
Registered(specs) == (schedules \cap specs) \cup (specs \ schedules)

\* start: the built-in rates are written and their models priced, and the
\* schedules of the configuration are registered.
Start ==
  /\ ~up /\ up' = TRUE
  /\ SetRates(Seeded, DOMAIN SeedRate)
  /\ catalog' = [m \in Models |-> IF m \in DOMAIN SeedRate THEN "priced" ELSE catalog[m]]
  /\ \E checks \in BOOLEAN :
       schedules' = Registered({"usage_ingest"} \cup (IF checks THEN {"catalog_refresh"} ELSE {}))
  /\ UNCHANGED <<env, ingested, queue, job, cpu, pc, row, work, forgotten, crashes>>

\* The process dies, perhaps between two transactions of one stretch.
Crash ==
  /\ up /\ crashes < MaxCrashes
  /\ up' = FALSE /\ crashes' = crashes + 1 /\ cpu' = None /\ job' = None
  /\ pc' = [r \in Runs |-> "idle"] /\ kind' = [r \in Runs |-> None]
  /\ held' = [r \in Runs |-> NoRates] /\ due' = [r \in Runs |-> {}]
  /\ entries' = [r \in Runs |-> {}] /\ item' = [r \in Runs |-> None]
  /\ seen' = [r \in Runs |-> {}] /\ observed' = [r \in Runs |-> {}]
  /\ clean' = [r \in Runs |-> TRUE] /\ row' = [r \in Runs |-> "none"]
  /\ forgotten' = forgotten \cup UNION {observed[r] : r \in Runs}
  /\ UNCHANGED <<env, db, queue, schedules, moved>>

RunStep(r) ==
  \/ ReceiveListing(r) \/ ListingFails(r)
  \/ ReceiveManifest(r) \/ ManifestFails(r)
  \/ StoreFacts(r) \/ ObjectFails(r)
  \/ Mark(r) \/ Observe(r) \/ Finish(r)
  \/ ReceiveModels(r) \/ FetchFails(r)

Next ==
  \/ \E d \in Devices : Publish(d)
  \/ SetBackend
  \/ \E m \in Models, rate \in Rates, c \in BOOLEAN : SavePrice(m, rate, c)
  \/ \E m \in Models : DeletePrice(m)
  \/ \E m \in Models, s \in {"needs_price", "ignored"} : SetStatus(m, s)
  \/ \E r \in Runs : RunStep(r)
  \/ \E r \in Operators : IngestNow(r) \/ CheckCatalog(r) \/ Answer(r)
  \/ \E j \in Jobs : Fire(j) \/ Expire(j)
  \/ \E j \in IngestJobs : HandleUsageIngest(j)
  \/ \E j \in CheckJobs : HandleCatalogRefresh(j)
  \/ Settle \/ Start \/ Crash

Spec == Init /\ [][Next]_vars

(* The process is restarted, steps without await complete, schedules come   *)
(* due, claims expire, and a request is always answered somehow.  The store *)
(* answers each request properly again and again, and the queue hands out   *)
(* its jobs in order, so none waits for ever.                               *)
Answered(r) ==
  \/ ReceiveListing(r) \/ ListingFails(r) \/ ReceiveManifest(r) \/ ManifestFails(r)
  \/ StoreFacts(r) \/ ObjectFails(r) \/ ReceiveModels(r) \/ FetchFails(r)

Fairness ==
  /\ WF_vars(Start) /\ WF_vars(Settle)
  /\ \A r \in Runs : WF_vars(Mark(r) \/ Observe(r) \/ Finish(r)) /\ WF_vars(Answered(r))
  /\ \A r \in Operators : WF_vars(Answer(r))
  /\ \A j \in IngestJobs : WF_vars(Fire(j)) /\ WF_vars(Expire(j))
  /\ \A j \in IngestJobs : SF_vars(HandleUsageIngest(j))
  /\ SF_vars(ReceiveListing(Worker))
  /\ \A d \in Devices : SF_vars(item[Worker] = d /\ ReceiveManifest(Worker))
  /\ \A e \in Entries : SF_vars(item[Worker] = e /\ StoreFacts(Worker))

FairSpec == Spec /\ Fairness

-----------------------------------------------------------------------------
(* Properties. *)

\* The review queue is true: a model asked for a price has none, and a model
\* shown as priced has one, however approvals, withdrawals, ignored models,
\* restarts, ingest runs and catalog checks interleave.
QueueIsTrue ==
  \A m \in Models : /\ catalog[m] = "needs_price" => prices[m] = None
                    /\ catalog[m] = "priced" => prices[m] # None

\* Stored costs follow the approved rates: a fact is priced at the current rate
\* of its model, and unpriced when there is none, unless the rate was written
\* while a run held the rates it had read before.
CostsFollowPrices ==
  \A i \in Ids : facts[i] # None /\ facts[i].model \notin moved =>
    IF prices[facts[i].model] = None THEN facts[i].cost = None
    ELSE facts[i].cost # None /\ facts[i].cost.rate = prices[facts[i].model]

\* An object that will never be read again has all its messages in the ledger,
\* whatever failed or died on the way.
IngestedIsStored ==
  \A e \in ingested, i \in Ids : Yield[e][i] # None => facts[i] # None

\* A model that costs tokens reaches the review queue: it is there, or a run
\* that met it will put it there, or that run died.
SeenIsQueued ==
  \A i \in Ids : facts[i] # None =>
    \/ catalog[facts[i].model] # None
    \/ facts[i].model \in forgotten
    \/ \E r \in Runs : facts[i].model \in observed[r]

\* A run recorded as ok left nothing behind: whatever it met in a manifest is
\* ingested, by it or by another run, or is too large to read.
OkLeavesNothing ==
  [][\A r \in Runs : row'[r] = "ok" /\ row[r] # "ok" => seen[r] \subseteq ingested' \cup Large]_vars

\* A job leaves the queue only when it was handled to its end or has had all
\* its deliveries, whatever expires, fails or dies meanwhile.
HandledOrExhausted ==
  [][\A j \in Jobs : queue[j].state # "none" /\ queue'[j].state = "none" =>
       \/ queue[j].tries = MaxAttempts
       \/ job = j /\ (kind[Worker] = "usage_ingest" => row[Worker] \in {"ok", "partial", "skipped"})]_vars

\* The last version of every log is ingested in the end, if the backend stays
\* configured.
EventuallyIngested ==
  <>[]configured =>
    \A d \in Devices : \A e \in Listing[d][Len(Listing[d])] \ Large :
      (published[d] = Len(Listing[d])) ~> (e \in ingested)
=============================================================================
