------------------------- MODULE UsageLedgerProofs -------------------------
(***************************************************************************)
(* Theorems about UsageLedger, for any number of devices, logs, models,    *)
(* operators, jobs, failures and crashes: types, where each run is, and    *)
(* what the ledger promises.  The review queue is true, costs follow the   *)
(* approved rates, an ingested object is stored, a model that costs tokens *)
(* is queued, an ok run left nothing behind, and a job is handled or       *)
(* exhausted.                                                              *)
(***************************************************************************)
EXTENDS UsageLedger, TLAPS

(***************************************************************************)
(* Where a run is says what it asked for and what it has still to read;    *)
(* only one run is in the middle of a stretch, and none when the process   *)
(* is down.                                                                *)
(***************************************************************************)

Listed == {d \in Devices : published[d] > 0}

Fits(p, x, D) ==
  /\ p = "manifest" => x \in Listed /\ D \subseteq Listed
  /\ p \in {"object", "mark"} => x \in Entries /\ D \subseteq Listed
  /\ p = "fetch" => x \in Sources /\ D \subseteq Sources

PlacesOK ==
  /\ \A d \in Devices : published[d] <= Len(Listing[d])
  /\ ~up => cpu = None
  /\ \A r \in Runs : /\ Fits(pc[r], item[r], due[r])
                     /\ pc[r] \in Busy => cpu = r
                     /\ ~up => pc[r] = "idle"
                     /\ pc[r] \in {"idle", "list", "throw"} =>
                          seen[r] = {} /\ observed[r] = {} /\ entries[r] = {}
  /\ pc[Worker] # "idle" => job \in Jobs

Sound == TypeOK /\ PlacesOK

\* The initial state is sound.
LEMMA SoundInit == Init => Sound
<1> SUFFICES ASSUME Init PROVE Sound
  OBVIOUS
<1>1. /\ published \in [Devices -> Nat] /\ \A d \in Devices : published[d] <= Len(Listing[d])
  BY ConstantsOK DEF Init
<1>2. /\ queue \in [Jobs -> [state : {"none", "pending", "claimed"}, tries : Nat]]
  BY DEF Init
<1>3. /\ prices \in [Models -> Rates \cup {None}] /\ catalog \in [Models -> Status \cup {None}]
      /\ facts \in [Ids -> Fact \cup {None}]
  BY DEF Init, NoRates
<1>4. /\ pc \in [Runs -> {"idle"} \cup Awaiting \cup Busy] /\ kind \in [Runs -> Kinds \cup {None}]
      /\ row \in [Runs -> {"none", "failed", "skipped", "partial", "ok"}]
      /\ held \in [Runs -> [Models -> Rates \cup {None}]]
      /\ due \in [Runs -> SUBSET (Devices \cup Sources)] /\ entries \in [Runs -> SUBSET Entries]
      /\ item \in [Runs -> Devices \cup Entries \cup Sources \cup {None}]
      /\ seen \in [Runs -> SUBSET Entries] /\ observed \in [Runs -> SUBSET Models]
      /\ clean \in [Runs -> BOOLEAN]
  BY DEF Init, NoRates
<1>5. TypeOK
  BY <1>1, <1>2, <1>3, <1>4 DEF Init, TypeOK
<1>6. \A r \in Runs : pc[r] = "idle" /\ seen[r] = {} /\ observed[r] = {} /\ entries[r] = {}
  BY DEF Init
<1>7. Worker \in Runs /\ cpu = None
  BY DEF Runs, Init
<1> QED BY <1>1, <1>5, <1>6, <1>7 DEF Sound, PlacesOK, Fits, Busy

(***************************************************************************)
(* A step of one run.                                                      *)
(***************************************************************************)

\* Run r goes to p, asks for x and keeps D and E to read; nothing else of any
\* run's place changes.
GoesTo(r, p, x, D, E) ==
  /\ pc' = [pc EXCEPT ![r] = p] /\ item' = [item EXCEPT ![r] = x]
  /\ due' = [due EXCEPT ![r] = D] /\ entries' = [entries EXCEPT ![r] = E]
  /\ cpu' = IF p \in Busy THEN r ELSE None

\* Run r goes on, with entries es in hand of which done are ingested, to an
\* entry, a manifest or its end, and keeps what it has still to read.
GoesOn(r, es, done) ==
  \E p \in {"object", "manifest", "observe"}, D \in SUBSET Listed, E \in SUBSET Entries :
    \E x \in Devices \cup Entries \cup Sources \cup {None} :
      /\ GoesTo(r, p, x, D, E) /\ Fits(p, x, D)
      /\ es \subseteq Large \cup done \cup E \cup (IF p = "object" THEN {x} ELSE {})
      /\ p # "object" => E = {}

\* Where NextObject goes.
LEMMA NextObjectGoes ==
  ASSUME TypeOK, NEW r \in Runs, NEW es \in SUBSET Entries, NEW ds \in SUBSET Listed, NEW done,
         NextObject(r, es, ds, done)
  PROVE  GoesOn(r, es, done)
<1> USE DEF GoesOn
<1> DEFINE rest == Unread(done, es)
<1>0. rest \subseteq Entries /\ es \subseteq Large \cup done \cup rest /\ Listed \subseteq Devices
  BY DEF Unread, Listed
<1>1. CASE \E e \in rest : /\ Await(r, "object", e)
                           /\ entries' = [entries EXCEPT ![r] = rest \ {e}]
                           /\ due' = [due EXCEPT ![r] = ds]
  <2>1. PICK e \in rest : /\ Await(r, "object", e)
                          /\ entries' = [entries EXCEPT ![r] = rest \ {e}]
                          /\ due' = [due EXCEPT ![r] = ds]
    BY <1>1
  <2>2. GoesTo(r, "object", e, ds, rest \ {e}) /\ Fits("object", e, ds)
    BY <1>0, <2>1 DEF GoesTo, Fits, Await, Busy
  <2>3. es \subseteq Large \cup done \cup (rest \ {e}) \cup {e} /\ rest \ {e} \in SUBSET Entries
    BY <1>0
  <2> QED BY <1>0, <2>2, <2>3
<1>2. CASE rest = {} /\ entries' = [entries EXCEPT ![r] = {}]
           /\ \E d \in ds : Await(r, "manifest", d) /\ due' = [due EXCEPT ![r] = ds \ {d}]
  <2>1. PICK d \in ds : Await(r, "manifest", d) /\ due' = [due EXCEPT ![r] = ds \ {d}]
    BY <1>2
  <2>2. GoesTo(r, "manifest", d, ds \ {d}, {}) /\ Fits("manifest", d, ds \ {d})
    BY <1>2, <2>1 DEF GoesTo, Fits, Await, Busy
  <2>3. es \subseteq Large \cup done /\ {} \in SUBSET Entries /\ ds \ {d} \in SUBSET Listed
        /\ d \in Devices
    BY <1>0, <1>2
  <2> QED BY <2>2, <2>3
<1>3. CASE rest = {} /\ entries' = [entries EXCEPT ![r] = {}]
           /\ ds = {} /\ Continue(r, "observe") /\ due' = [due EXCEPT ![r] = {}]
  <2>1. item' = [item EXCEPT ![r] = item[r]]
    BY <1>3 DEF Continue, TypeOK
  <2>2. GoesTo(r, "observe", item[r], {}, {}) /\ Fits("observe", item[r], {})
    BY <1>3, <2>1 DEF GoesTo, Fits, Continue, Busy
  <2>3. es \subseteq Large \cup done /\ {} \in SUBSET Entries /\ {} \in SUBSET Listed
        /\ item[r] \in Devices \cup Entries \cup Sources \cup {None}
    BY <1>0, <1>3 DEF TypeOK
  <2> QED BY <2>2, <2>3
<1> QED BY <1>1, <1>2, <1>3 DEF NextObject

\* Where NextSource goes.
LEMMA NextSourceGoes ==
  ASSUME TypeOK, NEW r \in Runs, NEW ss \in SUBSET Sources, NextSource(r, ss), entries' = entries
  PROVE  \E p \in {"fetch", "observe"}, D \in SUBSET Sources :
           \E x \in Devices \cup Entries \cup Sources \cup {None} :
             GoesTo(r, p, x, D, entries[r]) /\ Fits(p, x, D)
<1>0. entries' = [entries EXCEPT ![r] = entries[r]]
  BY DEF TypeOK
<1>1. CASE \E s \in ss : Await(r, "fetch", s) /\ due' = [due EXCEPT ![r] = ss \ {s}]
  <2>1. PICK s \in ss : Await(r, "fetch", s) /\ due' = [due EXCEPT ![r] = ss \ {s}]
    BY <1>1
  <2>2. GoesTo(r, "fetch", s, ss \ {s}, entries[r]) /\ Fits("fetch", s, ss \ {s})
    BY <1>0, <2>1 DEF GoesTo, Fits, Await, Busy
  <2> QED BY <2>2
<1>2. CASE ss = {} /\ Continue(r, "observe") /\ due' = [due EXCEPT ![r] = {}]
  <2>1. item' = [item EXCEPT ![r] = item[r]] /\ item[r] \in Devices \cup Entries \cup Sources \cup {None}
    BY <1>2 DEF Continue, TypeOK
  <2>2. GoesTo(r, "observe", item[r], {}, entries[r]) /\ Fits("observe", item[r], {})
    BY <1>0, <1>2, <2>1 DEF GoesTo, Fits, Continue, Busy
  <2> QED BY <2>1, <2>2
<1> QED BY <1>1, <1>2 DEF NextSource

\* Where a run goes that continues in one stretch.
LEMMA ContinueGoes ==
  ASSUME TypeOK, NEW r \in Runs, NEW p \in Busy, Continue(r, p), UNCHANGED <<due, entries>>
  PROVE  GoesTo(r, p, item[r], due[r], entries[r])
BY DEF TypeOK, Continue, GoesTo

(***************************************************************************)
(* Types of what the ledger records.                                       *)
(***************************************************************************)

\* Recording a reading keeps the facts' type: a new fact is typed, a known one
\* gets a typed cost.
LEMMA RecordedType ==
  ASSUME TypeOK, NEW e \in Entries, NEW rates \in [Models -> Rates \cup {None}]
  PROVE  /\ Recorded(e, rates) \in [Ids -> Fact \cup {None}]
         /\ \A i \in Ids : /\ Yield[e][i] = None => Recorded(e, rates)[i] = facts[i]
                           /\ Yield[e][i] # None =>
                                /\ Recorded(e, rates)[i] \in Fact
                                /\ Recorded(e, rates)[i].cost = Price(Yield[e][i], rates)
                                /\ facts[i] = None => Recorded(e, rates)[i].model = Yield[e][i].model
                                /\ facts[i] # None => Recorded(e, rates)[i].model = facts[i].model
<1> SUFFICES ASSUME NEW i \in Ids
             PROVE  /\ Recorded(e, rates)[i] \in Fact \cup {None}
                    /\ Yield[e][i] = None => Recorded(e, rates)[i] = facts[i]
                    /\ Yield[e][i] # None =>
                         /\ Recorded(e, rates)[i] \in Fact
                         /\ Recorded(e, rates)[i].cost = Price(Yield[e][i], rates)
                         /\ facts[i] = None => Recorded(e, rates)[i].model = Yield[e][i].model
                         /\ facts[i] # None => Recorded(e, rates)[i].model = facts[i].model
  BY DEF Recorded
<1> DEFINE y == Yield[e][i]
           c == Price(y, rates)
<1>1. y \in Reading \cup {None} /\ facts[i] \in Fact \cup {None}
  BY ConstantsOK DEF TypeOK
<1>2. Recorded(e, rates)[i] =
        IF y = None THEN facts[i]
        ELSE IF facts[i] = None THEN [model |-> y.model, tokens |-> y.tokens, cost |-> c]
        ELSE [facts[i] EXCEPT !.cost = c]
  BY DEF Recorded
<1>3. CASE y = None
  BY <1>1, <1>2, <1>3
<1>4. CASE y # None
  <2>1. y.model \in Models /\ y.tokens \in Nat
    BY <1>1, <1>4 DEF Reading
  <2>2. c \in Cost
    BY <2>1 DEF Price, Cost
  <2> HIDE DEF c, y
  <2> DEFINE f == Recorded(e, rates)[i]
  <2>3. ASSUME facts[i] = None PROVE f \in Fact /\ f.cost = c /\ f.model = y.model
    <3>1. f = [model |-> y.model, tokens |-> y.tokens, cost |-> c]
      BY <1>2, <1>4, <2>3
    <3> HIDE DEF f
    <3> QED BY <2>1, <2>2, <3>1 DEF Fact
  <2>4. ASSUME facts[i] # None PROVE f \in Fact /\ f.cost = c /\ f.model = facts[i].model
    <3>1. facts[i] \in Fact
      BY <1>1, <2>4
    <3>2. f = [facts[i] EXCEPT !.cost = c]
      BY <1>2, <1>4, <2>4
    <3> HIDE DEF f
    <3> QED BY <2>2, <3>1, <3>2 DEF Fact
  <2>5. f \in Fact /\ f.cost = c
    BY <2>3, <2>4
  <2> QED BY <1>4, <2>3, <2>4, <2>5 DEF c, y
<1> QED BY <1>3, <1>4

\* Pricing stored facts anew keeps their type, model and presence.
LEMMA RepriceType ==
  ASSUME TypeOK, NEW after \in [Models -> Rates \cup {None}], NEW ms
  PROVE  /\ Reprice(after, ms) \in [Ids -> Fact \cup {None}]
         /\ \A i \in Ids :
              /\ facts[i] = None => Reprice(after, ms)[i] = None
              /\ facts[i] # None =>
                   /\ Reprice(after, ms)[i] \in Fact
                   /\ Reprice(after, ms)[i].model = facts[i].model
                   /\ facts[i].model \notin ms => Reprice(after, ms)[i] = facts[i]
                   /\ facts[i].model \in ms /\ after[facts[i].model] = None =>
                        Reprice(after, ms)[i].cost = None
                   /\ facts[i].model \in ms /\ after[facts[i].model] # None =>
                        Reprice(after, ms)[i].cost # None
                          /\ Reprice(after, ms)[i].cost.rate = after[facts[i].model]
<1> SUFFICES ASSUME NEW i \in Ids
             PROVE  /\ Reprice(after, ms)[i] \in Fact \cup {None}
                    /\ facts[i] = None => Reprice(after, ms)[i] = None
                    /\ facts[i] # None =>
                         /\ Reprice(after, ms)[i] \in Fact
                         /\ Reprice(after, ms)[i].model = facts[i].model
                         /\ facts[i].model \notin ms => Reprice(after, ms)[i] = facts[i]
                         /\ facts[i].model \in ms /\ after[facts[i].model] = None =>
                              Reprice(after, ms)[i].cost = None
                         /\ facts[i].model \in ms /\ after[facts[i].model] # None =>
                              Reprice(after, ms)[i].cost # None
                                /\ Reprice(after, ms)[i].cost.rate = after[facts[i].model]
  BY DEF Reprice
<1> DEFINE f == facts[i]
           c == IF after[f.model] = None THEN None
                ELSE [tokens |-> f.tokens, rate |-> after[f.model]]
<1>1. f \in Fact \cup {None}
  BY DEF TypeOK
<1>2. Reprice(after, ms)[i] = IF f # None /\ f.model \in ms THEN [f EXCEPT !.cost = c] ELSE f
  BY DEF Reprice
<1>3. CASE f = None
  BY <1>2, <1>3
<1>4. CASE f # None
  <2>1. f \in Fact /\ f.model \in Models /\ f.tokens \in Nat
    BY <1>1, <1>4 DEF Fact
  <2>2. c \in Cost
    BY <2>1 DEF Cost
  <2>3. /\ after[f.model] = None => c = None
        /\ after[f.model] # None => c # None /\ c.rate = after[f.model]
    <3>1. after[f.model] # None => c \in [tokens : Nat, rate : Rates]
      BY <2>1
    <3> QED BY <3>1, NoneIsAbsent
  <2> HIDE DEF c, f
  <2>4. CASE f.model \notin ms
    BY <1>2, <2>1, <2>4 DEF f
  <2>5. CASE f.model \in ms
    <3>1. Reprice(after, ms)[i] = [f EXCEPT !.cost = c]
      BY <1>2, <1>4, <2>5
    <3>2. [f EXCEPT !.cost = c] \in Fact /\ [f EXCEPT !.cost = c].model = f.model
          /\ [f EXCEPT !.cost = c].cost = c
      BY <2>1, <2>2 DEF Fact
    <3> QED BY <1>4, <2>3, <2>5, <3>1, <3>2 DEF f
  <2> QED BY <2>4, <2>5
<1> QED BY <1>3, <1>4

(***************************************************************************)
(* Soundness of a step in which one run moves.                             *)
(***************************************************************************)

\* A run that moves leaves every run at a place that fits.
LEMMA GoesPlaces ==
  ASSUME Sound, NEW r \in Runs, NEW p, NEW x, NEW D, NEW E, GoesTo(r, p, x, D, E), Fits(p, x, D),
         up, up' = up, published' = published, cpu \in {None, r},
         \A q \in Runs \ {r} : seen'[q] = seen[q] /\ observed'[q] = observed[q],
         p \in {"idle", "list", "throw"} => seen'[r] = {} /\ observed'[r] = {} /\ E = {},
         pc'[Worker] # "idle" => job' \in Jobs
  PROVE  PlacesOK'
<1> USE DEF Sound
<1>1. Listed' = Listed
  BY DEF Listed
<1>2. ASSUME NEW q \in Runs
      PROVE  /\ Fits(pc[q], item[q], due[q])'
             /\ pc'[q] \in Busy => cpu' = q
             /\ pc'[q] \in {"idle", "list", "throw"} =>
                  seen'[q] = {} /\ observed'[q] = {} /\ entries'[q] = {}
  <2>1. CASE q = r
    <3>1. pc'[q] = p /\ item'[q] = x /\ due'[q] = D /\ entries'[q] = E
      BY <2>1 DEF GoesTo, TypeOK
    <3> QED BY <1>1, <2>1, <3>1 DEF GoesTo, Fits
  <2>2. CASE q # r
    <3>1. pc'[q] = pc[q] /\ item'[q] = item[q] /\ due'[q] = due[q] /\ entries'[q] = entries[q]
          /\ seen'[q] = seen[q] /\ observed'[q] = observed[q]
      BY <2>2 DEF GoesTo, TypeOK
    <3>2. pc[q] \notin Busy
      BY <2>2, ConstantsOK DEF PlacesOK
    <3> QED BY <1>1, <2>2, <3>1, <3>2 DEF Fits, PlacesOK
  <2> QED BY <2>1, <2>2
<1> QED BY <1>2 DEF PlacesOK

\* ... and keeps the types of the runs' places.
LEMMA GoesTypes ==
  ASSUME TypeOK, NEW r \in Runs, NEW p \in {"idle"} \cup Awaiting \cup Busy,
         NEW x \in Devices \cup Entries \cup Sources \cup {None},
         NEW D \in SUBSET (Devices \cup Sources), NEW E \in SUBSET Entries, GoesTo(r, p, x, D, E)
  PROVE  /\ pc' \in [Runs -> {"idle"} \cup Awaiting \cup Busy]
         /\ item' \in [Runs -> Devices \cup Entries \cup Sources \cup {None}]
         /\ due' \in [Runs -> SUBSET (Devices \cup Sources)]
         /\ entries' \in [Runs -> SUBSET Entries]
         /\ cpu' \in Runs \cup {None}
BY DEF TypeOK, GoesTo

\* What a step of run r leaves alone.
Aside(r) ==
  /\ up /\ cpu \in {None, r} /\ pc[r] # "idle"
  /\ UNCHANGED <<env, prices, jobs, up, kind, held, hist>>
  /\ \A q \in Runs \ {r} : seen'[q] = seen[q] /\ observed'[q] = observed[q]

\* What it writes is typed.
Writes ==
  /\ catalog' \in [Models -> Status \cup {None}]
  /\ facts' \in [Ids -> Fact \cup {None}]
  /\ ingested' \subseteq Entries
  /\ row' \in [Runs -> {"none", "failed", "skipped", "partial", "ok"}]
  /\ seen' \in [Runs -> SUBSET Entries]
  /\ observed' \in [Runs -> SUBSET Models]
  /\ clean' \in [Runs -> BOOLEAN]

\* It goes to a place that fits.
Arrives(r) ==
  \E p \in Awaiting \cup Busy, D \in SUBSET (Devices \cup Sources), E \in SUBSET Entries :
    \E x \in Devices \cup Entries \cup Sources \cup {None} :
      /\ GoesTo(r, p, x, D, E) /\ Fits(p, x, D)
      /\ p \in {"list", "throw"} => seen'[r] = {} /\ observed'[r] = {} /\ E = {}

\* Together these keep the state sound.
LEMMA MoveIsSound ==
  ASSUME Sound, NEW r \in Runs, Aside(r), Writes, Arrives(r)
  PROVE  Sound'
<1>1. PICK p \in Awaiting \cup Busy, D \in SUBSET (Devices \cup Sources), E \in SUBSET Entries :
        \E x \in Devices \cup Entries \cup Sources \cup {None} :
          /\ GoesTo(r, p, x, D, E) /\ Fits(p, x, D)
          /\ p \in {"list", "throw"} => seen'[r] = {} /\ observed'[r] = {} /\ E = {}
  BY DEF Arrives
<1>2. PICK x \in Devices \cup Entries \cup Sources \cup {None} :
          /\ GoesTo(r, p, x, D, E) /\ Fits(p, x, D)
          /\ p \in {"list", "throw"} => seen'[r] = {} /\ observed'[r] = {} /\ E = {}
  BY <1>1
<1>3. p # "idle" /\ TypeOK
  BY DEF Awaiting, Busy, Sound
<1>4. TypeOK'
  BY <1>2, <1>3, GoesTypes DEF TypeOK, Aside, Writes, env, jobs, hist
<1>5. pc'[Worker] # "idle" => job' \in Jobs
  BY <1>2, <1>3 DEF GoesTo, Aside, jobs, TypeOK, Runs, Sound, PlacesOK
<1>6. published' = published /\ up' = up /\ up /\ cpu \in {None, r}
      /\ \A q \in Runs \ {r} : seen'[q] = seen[q] /\ observed'[q] = observed[q]
  BY DEF Aside, env
<1>7. PlacesOK'
  BY <1>2, <1>3, <1>5, <1>6, GoesPlaces
<1> QED BY <1>4, <1>7 DEF Sound

\* Every step of a run keeps the state sound.
LEMMA RunStepSound ==
  ASSUME Sound, NEW r \in Runs, RunStep(r)
  PROVE  Sound'
<1> USE DEF Sound
<1>1. Listed \in SUBSET Devices
  BY DEF Listed
<1>2. ASSUME UNCHANGED <<catalog, facts, ingested, row, observed>>,
             seen' \in [Runs -> SUBSET Entries], clean' \in [Runs -> BOOLEAN]
      PROVE  Writes
  BY <1>2 DEF Writes, TypeOK
<1>3. ASSUME NEW es \in SUBSET Entries, NEW ds \in SUBSET Listed, NEW done, NextObject(r, es, ds, done)
      PROVE  Arrives(r)
  <2>0. TypeOK /\ GoesOn(r, es, done)
    BY <1>3, NextObjectGoes
  <2>1. PICK p \in {"object", "manifest", "observe"}, D \in SUBSET Listed, E \in SUBSET Entries :
          \E x \in Devices \cup Entries \cup Sources \cup {None} :
            /\ GoesTo(r, p, x, D, E) /\ Fits(p, x, D)
            /\ es \subseteq Large \cup done \cup E \cup (IF p = "object" THEN {x} ELSE {})
            /\ p # "object" => E = {}
    BY ONLY <2>0 DEF GoesOn
  <2>2. p \in Awaiting \cup Busy /\ p \notin {"list", "throw"} /\ D \in SUBSET (Devices \cup Sources)
    BY <1>1 DEF Awaiting, Busy
  <2> QED BY <2>1, <2>2 DEF Arrives
<1>4. ASSUME NEW ss \in SUBSET Sources, NextSource(r, ss), entries' = entries
      PROVE  Arrives(r)
  <2>1. PICK p \in {"fetch", "observe"}, D \in SUBSET Sources :
          \E x \in Devices \cup Entries \cup Sources \cup {None} :
            GoesTo(r, p, x, D, entries[r]) /\ Fits(p, x, D)
    BY <1>4, NextSourceGoes
  <2>2. p \in Awaiting \cup Busy /\ p \notin {"list", "throw"} /\ D \in SUBSET (Devices \cup Sources)
        /\ entries[r] \in SUBSET Entries
    BY DEF Awaiting, Busy, TypeOK
  <2> QED BY <2>1, <2>2 DEF Arrives
<1>5. ASSUME NEW p \in {"mark", "finish", "settle", "throw"}, Continue(r, p), UNCHANGED <<due, entries>>,
             Fits(p, item[r], due[r]), p = "throw" => seen'[r] = {} /\ observed'[r] = {} /\ entries[r] = {}
      PROVE  Arrives(r)
  <2>1. GoesTo(r, p, item[r], due[r], entries[r])
    BY <1>5, ContinueGoes DEF Busy
  <2>2. p \in Awaiting \cup Busy /\ p # "list" /\ due[r] \in SUBSET (Devices \cup Sources)
        /\ entries[r] \in SUBSET Entries /\ item[r] \in Devices \cup Entries \cup Sources \cup {None}
    BY DEF Awaiting, Busy, TypeOK
  <2> QED BY <1>5, <2>1, <2>2 DEF Arrives
<1>10. CASE ReceiveListing(r)
  <2>1. Aside(r) /\ Writes
    BY <1>2, <1>10 DEF ReceiveListing, Free, Aside, TypeOK, db
  <2>2. Arrives(r)
    BY <1>3, <1>10 DEF ReceiveListing, Listed
  <2> QED BY <2>1, <2>2, MoveIsSound
<1>11. CASE ListingFails(r)
  <2>1. Aside(r) /\ Writes
    BY <1>2, <1>11 DEF ListingFails, Free, Aside, TypeOK, db
  <2>2. Fits("throw", item[r], due[r]) /\ seen'[r] = {} /\ observed'[r] = {} /\ entries[r] = {}
    BY <1>11 DEF ListingFails, Fits, PlacesOK
  <2>3. Arrives(r)
    BY <1>5, <1>11, <2>2 DEF ListingFails
  <2> QED BY <2>1, <2>3, MoveIsSound
<1>12. CASE ReceiveManifest(r)
  <2>1. item[r] \in Listed /\ due[r] \subseteq Listed
    BY <1>12 DEF ReceiveManifest, PlacesOK, Fits
  <2>2. Manifest(item[r]) \in SUBSET Entries
    <3>1. published[item[r]] \in 1..Len(Listing[item[r]]) /\ Listing[item[r]] \in Seq(SUBSET Entries)
      BY <2>1, ConstantsOK DEF Listed, TypeOK, PlacesOK
    <3> QED BY <3>1 DEF Manifest
  <2>3. Aside(r) /\ seen' \in [Runs -> SUBSET Entries]
    BY <1>12, <2>2 DEF ReceiveManifest, Free, Aside, TypeOK, db
  <2>4. Writes
    BY <1>2, <1>12, <2>3 DEF ReceiveManifest, TypeOK, db
  <2>5. Arrives(r)
    BY <1>3, <1>12, <2>1, <2>2 DEF ReceiveManifest
  <2> QED BY <2>3, <2>4, <2>5, MoveIsSound
<1>13. CASE ManifestFails(r)
  <2>1. Aside(r) /\ Writes
    BY <1>2, <1>13 DEF ManifestFails, Free, Aside, TypeOK, db
  <2>2. Arrives(r)
    BY <1>3, <1>13 DEF ManifestFails, PlacesOK, Fits
  <2> QED BY <2>1, <2>2, MoveIsSound
<1>14. CASE StoreFacts(r)
  <2>1. item[r] \in Entries /\ due[r] \subseteq Listed /\ held[r] \in [Models -> Rates \cup {None}]
    BY <1>14 DEF StoreFacts, PlacesOK, Fits, TypeOK
  <2>2. {Yield[item[r]][i].model : i \in {j \in Ids : Yield[item[r]][j] # None}} \subseteq Models
    BY <2>1, ConstantsOK DEF Reading
  <2>3. facts' \in [Ids -> Fact \cup {None}]
    BY <1>14, <2>1, RecordedType DEF StoreFacts
  <2>4. observed' \in [Runs -> SUBSET Models]
    BY <1>14, <2>2 DEF StoreFacts, TypeOK
  <2>5. Aside(r) /\ Writes
    BY <1>14, <2>3, <2>4 DEF StoreFacts, Free, Aside, Writes, TypeOK
  <2>6. Arrives(r)
    BY <1>5, <1>14, <2>1 DEF StoreFacts, Fits
  <2> QED BY <2>5, <2>6, MoveIsSound
<1>15. CASE ObjectFails(r)
  <2>1. Aside(r) /\ Writes
    BY <1>2, <1>15 DEF ObjectFails, Free, Aside, TypeOK, db
  <2>2. Arrives(r)
    BY <1>3, <1>15 DEF ObjectFails, PlacesOK, Fits, TypeOK
  <2> QED BY <2>1, <2>2, MoveIsSound
<1>16. CASE Mark(r)
  <2>1. item[r] \in Entries /\ due[r] \subseteq Listed /\ entries[r] \in SUBSET Entries
    BY <1>16 DEF Mark, PlacesOK, Fits, TypeOK
  <2>2. Aside(r) /\ Writes
    BY <1>16, <2>1 DEF Mark, Aside, Writes, TypeOK
  <2>3. Arrives(r)
    BY <1>3, <1>16, <2>1 DEF Mark
  <2> QED BY <2>2, <2>3, MoveIsSound
<1>17. CASE Observe(r)
  <2>1. catalog' \in [Models -> Status \cup {None}]
    BY <1>17 DEF Observe, Observed, Status, TypeOK
  <2>2. Aside(r) /\ Writes
    BY <1>17, <2>1 DEF Observe, Aside, Writes, TypeOK
  <2>3. Arrives(r)
    BY <1>5, <1>17 DEF Observe, Fits
  <2> QED BY <2>2, <2>3, MoveIsSound
<1>18. CASE Finish(r)
  <2>1. row' \in [Runs -> {"none", "failed", "skipped", "partial", "ok"}]
    BY <1>18 DEF Finish, Outcome, TypeOK
  <2>2. Aside(r) /\ Writes
    BY <1>18, <2>1 DEF Finish, Aside, Writes, TypeOK, db
  <2>3. Arrives(r)
    BY <1>5, <1>18 DEF Finish, Fits
  <2> QED BY <2>2, <2>3, MoveIsSound
<1>19. CASE ReceiveModels(r)
  <2>1. item[r] \in Sources /\ due[r] \subseteq Sources
    BY <1>19 DEF ReceiveModels, PlacesOK, Fits
  <2>2. observed' \in [Runs -> SUBSET Models]
    BY <1>19, <2>1, ConstantsOK DEF ReceiveModels, TypeOK
  <2>3. Aside(r) /\ Writes
    BY <1>19, <2>2 DEF ReceiveModels, Free, Aside, Writes, TypeOK, db
  <2>4. Arrives(r)
    BY <1>4, <1>19, <2>1 DEF ReceiveModels
  <2> QED BY <2>3, <2>4, MoveIsSound
<1>20. CASE FetchFails(r)
  <2>1. Aside(r) /\ Writes
    BY <1>2, <1>20 DEF FetchFails, Free, Aside, TypeOK, db
  <2>2. Arrives(r)
    BY <1>4, <1>20 DEF FetchFails, PlacesOK, Fits
  <2> QED BY <2>1, <2>2, MoveIsSound
<1> QED BY <1>10, <1>11, <1>12, <1>13, <1>14, <1>15, <1>16, <1>17, <1>18, <1>19, <1>20 DEF RunStep

(***************************************************************************)
(* Runs that start and end, and steps that are not a run's.                *)
(***************************************************************************)

\* A run that starts keeps the state sound, whoever asked for it.
LEMMA StartIsSound ==
  ASSUME Sound, NEW r \in Runs, Free, pc[r] = "idle",
         UNCHANGED <<env, db, up, schedules, hist>>,
         queue' \in [Jobs -> [state : {"none", "pending", "claimed"}, tries : Nat]],
         job' \in Jobs \/ (job' = job /\ r # Worker),
         \/ StartIngest(r) \/ StartCheck(r)
         \/ \E k \in Kinds, st \in {"skipped", "failed"} : Nothing(r, k, st)
  PROVE  Sound'
<1> USE DEF Sound
<1>1. seen' = seen /\ observed' = observed /\ entries' = entries
      /\ seen[r] = {} /\ observed[r] = {} /\ entries[r] = {}
  BY DEF StartIngest, StartCheck, Nothing, Begin, PlacesOK
<1>2. /\ kind' \in [Runs -> Kinds \cup {None}]
      /\ row' \in [Runs -> {"none", "failed", "skipped", "partial", "ok"}]
      /\ held' \in [Runs -> [Models -> Rates \cup {None}]]
      /\ clean' \in [Runs -> BOOLEAN]
  <2>1. CASE StartIngest(r)
    BY <2>1 DEF StartIngest, Begin, TypeOK, Kinds, NoRates
  <2>2. CASE StartCheck(r)
    BY <2>2 DEF StartCheck, Begin, TypeOK, Kinds, NoRates
  <2>3. CASE \E k \in Kinds, st \in {"skipped", "failed"} : Nothing(r, k, st)
    BY <2>3 DEF Nothing, TypeOK, Kinds
  <2> QED BY <2>1, <2>2, <2>3
<1>3. \E p \in Awaiting \cup Busy, D \in SUBSET (Devices \cup Sources) :
        \E x \in Devices \cup Entries \cup Sources \cup {None} :
          GoesTo(r, p, x, D, entries[r]) /\ Fits(p, x, D)
  <2>1. CASE StartIngest(r)
    <3>1. GoesTo(r, "list", item[r], due[r], entries[r])
      BY <1>1, <2>1 DEF StartIngest, GoesTo, Busy, Free, TypeOK
    <3>2. Fits("list", item[r], due[r]) /\ "list" \in Awaiting
          /\ item[r] \in Devices \cup Entries \cup Sources \cup {None}
          /\ due[r] \in SUBSET (Devices \cup Sources)
      BY DEF Fits, Awaiting, TypeOK
    <3> QED BY <3>1, <3>2
  <2>2. CASE StartCheck(r)
    <3>1. NextSource(r, Sources)
      BY <2>2 DEF StartCheck
    <3>2. PICK p \in {"fetch", "observe"}, D \in SUBSET Sources :
            \E x \in Devices \cup Entries \cup Sources \cup {None} :
              GoesTo(r, p, x, D, entries[r]) /\ Fits(p, x, D)
      BY <1>1, <3>1, NextSourceGoes
    <3>3. p \in Awaiting \cup Busy /\ D \in SUBSET (Devices \cup Sources)
      BY DEF Awaiting, Busy
    <3> QED BY <3>2, <3>3
  <2>3. CASE \E k \in Kinds, st \in {"skipped", "failed"} : Nothing(r, k, st)
    <3>1. Continue(r, "settle") /\ due' = due
      BY <2>3 DEF Nothing
    <3>2. GoesTo(r, "settle", item[r], due[r], entries[r])
      BY <1>1, <3>1, ContinueGoes DEF Busy
    <3>3. Fits("settle", item[r], due[r]) /\ "settle" \in Busy
          /\ item[r] \in Devices \cup Entries \cup Sources \cup {None}
          /\ due[r] \in SUBSET (Devices \cup Sources)
      BY DEF Fits, Busy, TypeOK
    <3> QED BY <3>2, <3>3
  <2> QED BY <2>1, <2>2, <2>3
<1>4. PICK p \in Awaiting \cup Busy, D \in SUBSET (Devices \cup Sources) :
        \E x \in Devices \cup Entries \cup Sources \cup {None} :
          GoesTo(r, p, x, D, entries[r]) /\ Fits(p, x, D)
  BY <1>3
<1>5. PICK x \in Devices \cup Entries \cup Sources \cup {None} :
        GoesTo(r, p, x, D, entries[r]) /\ Fits(p, x, D)
  BY <1>4
<1>6. entries[r] \in SUBSET Entries /\ job' \in Jobs \cup {None}
  BY DEF TypeOK
<1>7. TypeOK'
  BY <1>1, <1>2, <1>5, <1>6, GoesTypes DEF TypeOK, env, db, hist
<1>8. pc'[Worker] # "idle" => job' \in Jobs
  BY <1>5 DEF GoesTo, TypeOK, Runs, PlacesOK
<1>9. up /\ up' = up /\ published' = published /\ cpu \in {None, r}
  BY DEF Free, env
<1>10. PlacesOK'
  BY <1>1, <1>5, <1>8, <1>9, GoesPlaces
<1> QED BY <1>7, <1>10

\* A run that ends keeps the state sound.
LEMMA ClearIsSound ==
  ASSUME Sound, NEW r \in Runs, up, cpu = r, Clear(r),
         queue' \in [Jobs -> [state : {"none", "pending", "claimed"}, tries : Nat]],
         (r = Worker /\ job' = None) \/ (r # Worker /\ job' = job)
  PROVE  Sound'
<1> USE DEF Sound
<1>1. GoesTo(r, "idle", None, {}, {}) /\ Fits("idle", None, {})
  BY DEF Clear, GoesTo, Fits, Busy
<1>2. /\ kind' \in [Runs -> Kinds \cup {None}]
      /\ row' \in [Runs -> {"none", "failed", "skipped", "partial", "ok"}]
      /\ held' \in [Runs -> [Models -> Rates \cup {None}]]
      /\ seen' \in [Runs -> SUBSET Entries] /\ observed' \in [Runs -> SUBSET Models]
      /\ clean' \in [Runs -> BOOLEAN] /\ job' \in Jobs \cup {None}
  BY DEF Clear, TypeOK, NoRates
<1>3. TypeOK'
  BY <1>1, <1>2, GoesTypes DEF TypeOK, Clear, env, db, hist
<1>4. pc'[Worker] # "idle" => job' \in Jobs
  BY DEF Clear, TypeOK, Runs, PlacesOK
<1>5. seen'[r] = {} /\ observed'[r] = {}
      /\ \A q \in Runs \ {r} : seen'[q] = seen[q] /\ observed'[q] = observed[q]
  BY DEF Clear, TypeOK
<1>6. up' = up /\ published' = published
  BY DEF Clear, env
<1>7. PlacesOK'
  BY <1>1, <1>4, <1>5, <1>6, GoesPlaces
<1> QED BY <1>3, <1>7

\* A step that leaves every run where it is keeps the state sound, if what it
\* writes is typed and no manifest is taken back.
LEMMA OutsideIsSound ==
  ASSUME Sound, UNCHANGED <<cpu, pc, row, work, job, up, crashes, ingested>>,
         published' \in [Devices -> Nat],
         \A d \in Devices : published[d] <= published'[d] /\ published'[d] <= Len(Listing[d]),
         configured' \in BOOLEAN, prices' \in [Models -> Rates \cup {None}],
         catalog' \in [Models -> Status \cup {None}], facts' \in [Ids -> Fact \cup {None}],
         queue' \in [Jobs -> [state : {"none", "pending", "claimed"}, tries : Nat]],
         schedules' \in SUBSET Kinds, moved' \subseteq Models, forgotten' = forgotten
  PROVE  Sound'
<1> USE DEF Sound
<1>1. TypeOK'
  BY DEF TypeOK, work
<1>2. Listed \subseteq Listed'
  BY DEF Listed, TypeOK
<1>3. PlacesOK'
  BY <1>2 DEF PlacesOK, Fits, work
<1> QED BY <1>1, <1>3

\* A claimed job is in the queue.
LEMMA ClaimType ==
  ASSUME TypeOK, NEW j \in Jobs, Claim(j)
  PROVE  /\ queue' \in [Jobs -> [state : {"none", "pending", "claimed"}, tries : Nat]]
         /\ job' \in Jobs /\ Free /\ pc[Worker] = "idle" /\ Worker \in Runs
         /\ UNCHANGED <<env, db, up, schedules, hist>>
BY DEF Claim, TypeOK, Runs

\* A delivery that fails leaves the queue typed.
LEMMA UndeliveredType ==
  ASSUME TypeOK, NEW j \in Jobs
  PROVE  Undelivered(j) \in [Jobs -> [state : {"none", "pending", "claimed"}, tries : Nat]]
<1> DEFINE J == [state : {"none", "pending", "claimed"}, tries : Nat]
           back == IF queue[j].tries < MaxAttempts THEN [queue[j] EXCEPT !.state = "pending"]
                   ELSE [state |-> "none", tries |-> 0]
<1>1. queue[j] \in J /\ queue \in [Jobs -> J]
  BY DEF TypeOK
<1>2. back \in J
  BY <1>1
<1>3. Undelivered(j) = [queue EXCEPT ![j] = back]
  BY DEF Undelivered
<1> HIDE DEF back, J
<1>4. Undelivered(j) \in [Jobs -> J]
  BY <1>1, <1>2, <1>3
<1> QED BY <1>4 DEF J

\* Writing rates keeps prices, facts and moved typed.
LEMMA SetRatesType ==
  ASSUME TypeOK, NEW after \in [Models -> Rates \cup {None}], NEW ms \in SUBSET Models,
         SetRates(after, ms)
  PROVE  /\ prices' \in [Models -> Rates \cup {None}]
         /\ facts' \in [Ids -> Fact \cup {None}] /\ moved' \subseteq Models
BY RepriceType DEF SetRates, TypeOK

\* The controller's start writes the built-in rates only.
LEMMA SeedType ==
  ASSUME TypeOK
  PROVE  Seeded \in [Models -> Rates \cup {None}] /\ DOMAIN SeedRate \in SUBSET Models
BY ConstantsOK DEF TypeOK, Seeded

\* Every step keeps the state sound.
LEMMA SoundStep == Sound /\ [Next]_vars => Sound'
<1> SUFFICES ASSUME Sound, [Next]_vars PROVE Sound'
  OBVIOUS
<1> USE DEF Sound
<1>0. /\ queue \in [Jobs -> [state : {"none", "pending", "claimed"}, tries : Nat]]
      /\ schedules \in SUBSET Kinds /\ published \in [Devices -> Nat]
      /\ \A d \in Devices : published[d] <= published[d] /\ published[d] <= Len(Listing[d])
      /\ configured \in BOOLEAN /\ prices \in [Models -> Rates \cup {None}]
      /\ catalog \in [Models -> Status \cup {None}] /\ facts \in [Ids -> Fact \cup {None}]
      /\ moved \subseteq Models
  BY DEF TypeOK, PlacesOK
<1>1. ASSUME NEW d \in Devices, Publish(d) PROVE Sound'
  <2>1. published' \in [Devices -> Nat]
        /\ \A e \in Devices : published[e] <= published'[e] /\ published'[e] <= Len(Listing[e])
    BY <1>1, ConstantsOK DEF Publish, TypeOK, PlacesOK
  <2> QED BY <1>0, <1>1, <2>1, OutsideIsSound DEF Publish, db, jobs, hist
<1>2. CASE SetBackend
  <2>1. configured' \in BOOLEAN
    BY <1>2 DEF SetBackend, TypeOK
  <2> QED BY <1>0, <1>2, <2>1, OutsideIsSound DEF SetBackend, db, jobs, hist
<1>3. ASSUME NEW m \in Models, NEW rate \in Rates, NEW c \in BOOLEAN, SavePrice(m, rate, c)
      PROVE  Sound'
  <2>1. [prices EXCEPT ![m] = rate] \in [Models -> Rates \cup {None}] /\ {m} \in SUBSET Models
    BY DEF TypeOK
  <2>2. /\ prices' \in [Models -> Rates \cup {None}]
        /\ facts' \in [Ids -> Fact \cup {None}] /\ moved' \subseteq Models
    BY <1>3, <2>1, SetRatesType DEF SavePrice
  <2>3. catalog' \in [Models -> Status \cup {None}]
    BY <1>3 DEF SavePrice, TypeOK, Status
  <2> QED BY <1>0, <1>3, <2>2, <2>3, OutsideIsSound DEF SavePrice, env, jobs
<1>4. ASSUME NEW m \in Models, DeletePrice(m) PROVE Sound'
  <2>1. [prices EXCEPT ![m] = None] \in [Models -> Rates \cup {None}] /\ {m} \in SUBSET Models
    BY DEF TypeOK
  <2>2. /\ prices' \in [Models -> Rates \cup {None}]
        /\ facts' \in [Ids -> Fact \cup {None}] /\ moved' \subseteq Models
    BY <1>4, <2>1, SetRatesType DEF DeletePrice
  <2>3. catalog' \in [Models -> Status \cup {None}]
    BY <1>4 DEF DeletePrice, TypeOK, Status
  <2> QED BY <1>0, <1>4, <2>2, <2>3, OutsideIsSound DEF DeletePrice, env, jobs
<1>5. ASSUME NEW m \in Models, NEW s \in {"needs_price", "ignored"}, SetStatus(m, s) PROVE Sound'
  <2>1. catalog' \in [Models -> Status \cup {None}]
    BY <1>5 DEF SetStatus, TypeOK, Status
  <2> QED BY <1>0, <1>5, <2>1, OutsideIsSound DEF SetStatus, env, jobs, hist
<1>6. ASSUME NEW r \in Runs, RunStep(r) PROVE Sound'
  BY <1>6, RunStepSound
<1>7. ASSUME NEW r \in Operators, IngestNow(r) \/ CheckCatalog(r) \/ Answer(r) PROVE Sound'
  <2>1. r \in Runs /\ r # Worker
    BY ConstantsOK DEF Runs
  <2>2. CASE IngestNow(r)
    BY <1>0, <2>1, <2>2, StartIsSound DEF IngestNow, jobs
  <2>3. CASE CheckCatalog(r)
    BY <1>0, <2>1, <2>3, StartIsSound DEF CheckCatalog, jobs
  <2>4. CASE Answer(r)
    BY <1>0, <2>1, <2>4, ClearIsSound DEF Answer
  <2> QED BY <1>7, <2>2, <2>3, <2>4
<1>8. ASSUME NEW j \in Jobs, Fire(j) \/ Expire(j) PROVE Sound'
  <2>1. queue' \in [Jobs -> [state : {"none", "pending", "claimed"}, tries : Nat]]
    <3>1. CASE Fire(j)
      <4>1. queue' = [queue EXCEPT ![j] = [state |-> "pending", tries |-> 0]]
        BY <3>1 DEF Fire
      <4> QED BY <1>0, <4>1
    <3>2. CASE Expire(j)
      BY <3>2, UndeliveredType DEF Expire
    <3> QED BY <1>8, <3>1, <3>2
  <2> QED BY <1>0, <1>8, <2>1, OutsideIsSound DEF Fire, Expire, env, db, hist
<1>9. ASSUME NEW j \in IngestJobs, HandleUsageIngest(j) PROVE Sound'
  <2>1. j \in Jobs
    BY DEF Jobs
  <2>2. StartIngest(Worker) \/ \E k \in Kinds, st \in {"skipped", "failed"} : Nothing(Worker, k, st)
    BY <1>9 DEF HandleUsageIngest, Kinds
  <2>3. Claim(j)
    BY <1>9 DEF HandleUsageIngest
  <2> QED BY <2>1, <2>2, <2>3, ClaimType, StartIsSound
<1>10. ASSUME NEW j \in CheckJobs, HandleCatalogRefresh(j) PROVE Sound'
  <2>1. j \in Jobs
    BY DEF Jobs
  <2>2. StartCheck(Worker) \/ \E k \in Kinds, st \in {"skipped", "failed"} : Nothing(Worker, k, st)
    BY <1>10 DEF HandleCatalogRefresh, Kinds
  <2>3. Claim(j)
    BY <1>10 DEF HandleCatalogRefresh
  <2> QED BY <2>1, <2>2, <2>3, ClaimType, StartIsSound
<1>11. CASE Settle
  <2>1. Worker \in Runs /\ job \in Jobs
    BY <1>11 DEF Settle, Runs, PlacesOK
  <2>2. [queue EXCEPT ![job] = [state |-> "none", tries |-> 0]]
          \in [Jobs -> [state : {"none", "pending", "claimed"}, tries : Nat]]
    BY <1>0, <2>1
  <2>3. queue' \in [Jobs -> [state : {"none", "pending", "claimed"}, tries : Nat]]
    BY <1>0, <1>11, <2>1, <2>2, UndeliveredType DEF Settle
  <2> QED BY <1>11, <2>1, <2>3, ClearIsSound DEF Settle
<1>12. CASE Start
  <2>1. /\ prices' \in [Models -> Rates \cup {None}]
        /\ facts' \in [Ids -> Fact \cup {None}] /\ moved' \subseteq Models
    BY <1>12, SeedType, SetRatesType DEF Start
  <2>2. catalog' \in [Models -> Status \cup {None}] /\ schedules' \in SUBSET Kinds
    BY <1>12 DEF Start, Registered, TypeOK, Status, Kinds
  <2>3. TypeOK'
    BY <1>12, <2>1, <2>2 DEF Start, TypeOK, env, work
  <2>4. PlacesOK'
    BY <1>12 DEF Start, PlacesOK, Fits, Listed, env, work
  <2> QED BY <2>3, <2>4
<1>13. CASE Crash
  <2>1. TypeOK'
    <3>1. /\ kind' \in [Runs -> Kinds \cup {None}]
          /\ row' \in [Runs -> {"none", "failed", "skipped", "partial", "ok"}]
          /\ held' \in [Runs -> [Models -> Rates \cup {None}]]
          /\ due' \in [Runs -> SUBSET (Devices \cup Sources)] /\ entries' \in [Runs -> SUBSET Entries]
          /\ item' \in [Runs -> Devices \cup Entries \cup Sources \cup {None}]
          /\ seen' \in [Runs -> SUBSET Entries] /\ observed' \in [Runs -> SUBSET Models]
          /\ clean' \in [Runs -> BOOLEAN] /\ pc' \in [Runs -> {"idle"} \cup Awaiting \cup Busy]
      BY <1>13 DEF Crash, NoRates
    <3>2. forgotten' \subseteq Models /\ crashes' \in Nat
      <4>1. \A r \in Runs : observed[r] \subseteq Models
        BY DEF TypeOK
      <4>2. UNION {observed[r] : r \in Runs} \subseteq Models
        BY <4>1
      <4>3. forgotten' = forgotten \cup UNION {observed[r] : r \in Runs}
        BY <1>13 DEF Crash
      <4>4. forgotten \subseteq Models /\ crashes' \in Nat
        BY <1>13 DEF Crash, TypeOK
      <4> QED BY <4>2, <4>3, <4>4
    <3> QED BY <1>13, <3>1, <3>2 DEF Crash, TypeOK, env, db
  <2>2. PlacesOK'
    <3>1. Worker \in Runs
      BY DEF Runs
    <3> QED BY <1>13, <3>1 DEF Crash, PlacesOK, Fits, Busy, env
  <2> QED BY <2>1, <2>2
<1>14. CASE UNCHANGED vars
  BY <1>14 DEF vars, env, db, jobs, work, hist, TypeOK, PlacesOK, Fits, Listed
<1> QED BY <1>1, <1>2, <1>3, <1>4, <1>5, <1>6, <1>7, <1>8, <1>9, <1>10, <1>11, <1>12, <1>13, <1>14 DEF Next

\* The state is always sound.
THEOREM AlwaysSound == Spec => []Sound
<1>1. Init => Sound
  BY SoundInit
<1>2. Sound /\ [Next]_vars => Sound'
  BY SoundStep
<1> QED BY <1>1, <1>2, PTL DEF Spec

\* Every variable keeps its type, whatever fails, dies or is changed by an
\* operator in the middle of an ingest run.
THEOREM TypeCorrect == Spec => []TypeOK
<1>1. Sound => TypeOK
  BY DEF Sound
<1> QED BY <1>1, AlwaysSound, PTL

\* An identifier of a run is not None, and neither is a rate.
LEMMA NoneIsNobody ==
  /\ \A r \in Runs : r # None
  /\ \A x \in Rates : x # None
BY ConstantsOK

(***************************************************************************)
(* The review queue.                                                       *)
(***************************************************************************)

\* A step that leaves rates and queue alone keeps the queue true.
LEMMA QueueAlone == QueueIsTrue /\ UNCHANGED <<prices, catalog>> => QueueIsTrue'
BY DEF QueueIsTrue

\* Every step keeps the review queue true.
LEMMA QueueStep == Sound /\ QueueIsTrue /\ [Next]_vars => QueueIsTrue'
<1> SUFFICES ASSUME Sound, QueueIsTrue, [Next]_vars PROVE QueueIsTrue'
  OBVIOUS
<1>0. prices \in [Models -> Rates \cup {None}] /\ catalog \in [Models -> Status \cup {None}]
  BY DEF Sound, TypeOK
<1>1. ASSUME NEW m \in Models, NEW rate \in Rates, NEW c \in BOOLEAN, SavePrice(m, rate, c)
      PROVE  QueueIsTrue'
  BY <1>0, <1>1, NoneIsNobody, NoneIsAbsent DEF SavePrice, SetRates, QueueIsTrue, Status
<1>2. ASSUME NEW m \in Models, DeletePrice(m) PROVE QueueIsTrue'
  BY <1>0, <1>2, NoneIsAbsent DEF DeletePrice, SetRates, QueueIsTrue, Status
<1>3. ASSUME NEW m \in Models, NEW s \in {"needs_price", "ignored"}, SetStatus(m, s)
      PROVE  QueueIsTrue'
  BY <1>0, <1>3 DEF SetStatus, QueueIsTrue
<1>4. ASSUME NEW r \in Runs, Observe(r) PROVE QueueIsTrue'
  BY <1>0, <1>4, NoneIsAbsent DEF Observe, Observed, QueueIsTrue, Status
<1>5. ASSUME NEW r \in Runs, RunStep(r), ~Observe(r) PROVE QueueIsTrue'
  <2>1. UNCHANGED <<prices, catalog>>
    BY <1>5 DEF RunStep, ReceiveListing, ListingFails, ReceiveManifest, ManifestFails, StoreFacts,
       ObjectFails, Mark, Finish, ReceiveModels, FetchFails, db
  <2> QED BY <2>1, QueueAlone
<1>6. CASE Start
  <2>1. \A m \in DOMAIN SeedRate : SeedRate[m] \in Rates
    BY ConstantsOK
  <2>2. \A m \in Models : m \in DOMAIN SeedRate => catalog'[m] = "priced" /\ prices'[m] # None
    BY <1>6, <2>1, NoneIsNobody DEF Start, SetRates, Seeded
  <2>3. \A m \in Models : m \notin DOMAIN SeedRate =>
          catalog'[m] = catalog[m] /\ prices'[m] = prices[m]
    BY <1>6 DEF Start, SetRates, Seeded
  <2> QED BY <2>2, <2>3 DEF QueueIsTrue
<1>7. ASSUME \/ \E d \in Devices : Publish(d)
             \/ SetBackend \/ Settle \/ Crash \/ UNCHANGED vars
             \/ \E r \in Operators : IngestNow(r) \/ CheckCatalog(r) \/ Answer(r)
             \/ \E j \in Jobs : Fire(j) \/ Expire(j)
             \/ \E j \in IngestJobs : HandleUsageIngest(j)
             \/ \E j \in CheckJobs : HandleCatalogRefresh(j)
      PROVE  QueueIsTrue'
  <2>1. UNCHANGED <<prices, catalog>>
    BY <1>7 DEF Publish, SetBackend, Settle, Crash, IngestNow, CheckCatalog, Answer, Fire, Expire,
       HandleUsageIngest, HandleCatalogRefresh, Claim, Clear, db, vars
  <2> QED BY <2>1, QueueAlone
<1> QED BY <1>1, <1>2, <1>3, <1>4, <1>5, <1>6, <1>7 DEF Next

\* The review queue is true in every reachable state: no interleaving of
\* approvals, withdrawals, ingest runs, catalog checks and restarts makes it
\* ask for a price that exists or show one that does not.
THEOREM QueueStaysTrue == Spec => []QueueIsTrue
<1>1. Init => QueueIsTrue
  BY NoneIsAbsent DEF Init, NoRates, QueueIsTrue, Status
<1>2. Sound /\ QueueIsTrue /\ [Next]_vars => QueueIsTrue'
  BY QueueStep
<1> QED BY <1>1, <1>2, AlwaysSound, PTL DEF Spec

(***************************************************************************)
(* What is never taken back.                                               *)
(***************************************************************************)

\* Steps that write no fact.
Factless ==
  \/ \E d \in Devices : Publish(d)
  \/ SetBackend \/ Settle \/ Crash \/ UNCHANGED vars
  \/ \E m \in Models, s \in {"needs_price", "ignored"} : SetStatus(m, s)
  \/ \E r \in Runs : RunStep(r) /\ ~StoreFacts(r)
  \/ \E r \in Operators : IngestNow(r) \/ CheckCatalog(r) \/ Answer(r)
  \/ \E j \in Jobs : Fire(j) \/ Expire(j)
  \/ \E j \in IngestJobs : HandleUsageIngest(j)
  \/ \E j \in CheckJobs : HandleCatalogRefresh(j)

\* They leave facts, rates and the history of rates alone.
LEMMA FactlessAlone == Factless => UNCHANGED <<facts, prices, moved>>
<1> SUFFICES ASSUME Factless PROVE UNCHANGED <<facts, prices, moved>>
  OBVIOUS
<1>1. ASSUME NEW r \in Runs, RunStep(r), ~StoreFacts(r) PROVE UNCHANGED <<facts, prices, moved>>
  BY <1>1 DEF RunStep, ReceiveListing, ListingFails, ReceiveManifest, ManifestFails,
     ObjectFails, Mark, Observe, Finish, ReceiveModels, FetchFails, db, hist
<1>2. ASSUME \/ \E d \in Devices : Publish(d)
             \/ SetBackend \/ Settle \/ Crash \/ UNCHANGED vars
             \/ \E m \in Models, s \in {"needs_price", "ignored"} : SetStatus(m, s)
             \/ \E r \in Operators : IngestNow(r) \/ CheckCatalog(r) \/ Answer(r)
             \/ \E j \in Jobs : Fire(j) \/ Expire(j)
             \/ \E j \in IngestJobs : HandleUsageIngest(j)
             \/ \E j \in CheckJobs : HandleCatalogRefresh(j)
      PROVE  UNCHANGED <<facts, prices, moved>>
  BY <1>2 DEF Publish, SetBackend, SetStatus, Settle, Crash, IngestNow, CheckCatalog, Answer, Fire,
     Expire, HandleUsageIngest, HandleCatalogRefresh, Claim, Clear, db, hist, vars
<1> QED BY <1>1, <1>2 DEF Factless

\* Rates are written by approvals, withdrawals and starts; every other step
\* that writes facts records an object.
LEMMA FactSteps ==
  ASSUME Sound, [Next]_vars
  PROVE  \/ Factless
         \/ \E r \in Runs : StoreFacts(r)
         \/ \E after \in [Models -> Rates \cup {None}], ms \in SUBSET Models :
              /\ SetRates(after, ms) /\ cpu = None /\ UNCHANGED <<pc, held, item, ingested>>
              /\ \A m \in Models \ ms : after[m] = prices[m]
<1>0. prices \in [Models -> Rates \cup {None}]
  BY DEF Sound, TypeOK
<1>1. ASSUME NEW m \in Models, NEW rate \in Rates, NEW c \in BOOLEAN, SavePrice(m, rate, c)
      PROVE  \E after \in [Models -> Rates \cup {None}], ms \in SUBSET Models :
               /\ SetRates(after, ms) /\ cpu = None /\ UNCHANGED <<pc, held, item, ingested>>
               /\ \A n \in Models \ ms : after[n] = prices[n]
  <2>1. [prices EXCEPT ![m] = rate] \in [Models -> Rates \cup {None}] /\ {m} \in SUBSET Models
        /\ \A n \in Models \ {m} : [prices EXCEPT ![m] = rate][n] = prices[n]
    BY <1>0
  <2>2. SetRates([prices EXCEPT ![m] = rate], {m}) /\ cpu = None /\ UNCHANGED <<pc, held, item, ingested>>
    BY <1>1 DEF SavePrice, Free, work
  <2> QED BY <2>1, <2>2
<1>2. ASSUME NEW m \in Models, DeletePrice(m)
      PROVE  \E after \in [Models -> Rates \cup {None}], ms \in SUBSET Models :
               /\ SetRates(after, ms) /\ cpu = None /\ UNCHANGED <<pc, held, item, ingested>>
               /\ \A n \in Models \ ms : after[n] = prices[n]
  <2>1. [prices EXCEPT ![m] = None] \in [Models -> Rates \cup {None}] /\ {m} \in SUBSET Models
        /\ \A n \in Models \ {m} : [prices EXCEPT ![m] = None][n] = prices[n]
    BY <1>0
  <2>2. SetRates([prices EXCEPT ![m] = None], {m}) /\ cpu = None /\ UNCHANGED <<pc, held, item, ingested>>
    BY <1>2 DEF DeletePrice, Free, work
  <2> QED BY <2>1, <2>2
<1>3. ASSUME Start
      PROVE  \E after \in [Models -> Rates \cup {None}], ms \in SUBSET Models :
               /\ SetRates(after, ms) /\ cpu = None /\ UNCHANGED <<pc, held, item, ingested>>
               /\ \A n \in Models \ ms : after[n] = prices[n]
  <2>1. Seeded \in [Models -> Rates \cup {None}] /\ DOMAIN SeedRate \in SUBSET Models
        /\ \A n \in Models \ DOMAIN SeedRate : Seeded[n] = prices[n]
    BY SeedType DEF Sound, Seeded
  <2>2. SetRates(Seeded, DOMAIN SeedRate) /\ cpu = None /\ UNCHANGED <<pc, held, item, ingested>>
    BY <1>3 DEF Start, Sound, PlacesOK, work
  <2> QED BY <2>1, <2>2
<1> QED BY <1>1, <1>2, <1>3 DEF Next, Factless

\* A fact keeps its model and never goes away; a rate that is written reprices
\* it, an object only adds to it.
LEMMA FactsStay ==
  ASSUME Sound, [Next]_vars
  PROVE  \A i \in Ids : facts[i] # None => facts'[i] # None /\ facts'[i].model = facts[i].model
<1>0. None \notin Fact
  BY NoneIsAbsent
<1>1. CASE Factless
  BY <1>1, FactlessAlone
<1>2. ASSUME NEW r \in Runs, StoreFacts(r)
      PROVE  \A i \in Ids : facts[i] # None => facts'[i] # None /\ facts'[i].model = facts[i].model
  <2>1. item[r] \in Entries /\ held[r] \in [Models -> Rates \cup {None}]
    BY <1>2 DEF StoreFacts, Sound, PlacesOK, Fits, TypeOK
  <2>2. facts' = Recorded(item[r], held[r])
    BY <1>2 DEF StoreFacts
  <2> QED BY <1>0, <2>1, <2>2, RecordedType DEF Sound
<1>3. ASSUME NEW after \in [Models -> Rates \cup {None}], NEW ms \in SUBSET Models, SetRates(after, ms)
      PROVE  \A i \in Ids : facts[i] # None => facts'[i] # None /\ facts'[i].model = facts[i].model
  BY <1>0, <1>3, RepriceType DEF SetRates, Sound
<1> QED BY <1>1, <1>2, <1>3, FactSteps

\* No model leaves the review queue.
LEMMA CatalogStays ==
  ASSUME Sound, [Next]_vars
  PROVE  \A m \in Models : catalog[m] # None => catalog'[m] # None
<1> USE NoneIsAbsent DEF Status
<1>0. catalog \in [Models -> Status \cup {None}]
  BY DEF Sound, TypeOK
<1>1. ASSUME NEW m \in Models, NEW rate \in Rates, NEW c \in BOOLEAN, SavePrice(m, rate, c)
      PROVE  \A n \in Models : catalog[n] # None => catalog'[n] # None
  BY <1>0, <1>1 DEF SavePrice
<1>2. ASSUME NEW m \in Models, DeletePrice(m)
      PROVE  \A n \in Models : catalog[n] # None => catalog'[n] # None
  BY <1>0, <1>2 DEF DeletePrice
<1>3. ASSUME NEW m \in Models, NEW s \in {"needs_price", "ignored"}, SetStatus(m, s)
      PROVE  \A n \in Models : catalog[n] # None => catalog'[n] # None
  BY <1>0, <1>3 DEF SetStatus
<1>4. ASSUME NEW r \in Runs, RunStep(r)
      PROVE  \A n \in Models : catalog[n] # None => catalog'[n] # None
  <2>1. CASE Observe(r)
    BY <1>0, <2>1 DEF Observe, Observed
  <2>2. CASE ~Observe(r)
    BY <1>4, <2>2 DEF RunStep, ReceiveListing, ListingFails, ReceiveManifest, ManifestFails, StoreFacts,
       ObjectFails, Mark, Finish, ReceiveModels, FetchFails, db
  <2> QED BY <2>1, <2>2
<1>5. CASE Start
  BY <1>0, <1>5 DEF Start
<1>6. ASSUME \/ \E d \in Devices : Publish(d)
             \/ SetBackend \/ Settle \/ Crash \/ UNCHANGED vars
             \/ \E r \in Operators : IngestNow(r) \/ CheckCatalog(r) \/ Answer(r)
             \/ \E j \in Jobs : Fire(j) \/ Expire(j)
             \/ \E j \in IngestJobs : HandleUsageIngest(j)
             \/ \E j \in CheckJobs : HandleCatalogRefresh(j)
      PROVE  \A n \in Models : catalog[n] # None => catalog'[n] # None
  BY <1>6 DEF Publish, SetBackend, Settle, Crash, IngestNow, CheckCatalog, Answer, Fire, Expire,
     HandleUsageIngest, HandleCatalogRefresh, Claim, Clear, db, vars
<1> QED BY <1>1, <1>2, <1>3, <1>4, <1>5, <1>6 DEF Next

(***************************************************************************)
(* What one run does in a step.                                            *)
(***************************************************************************)

\* Run q and all it holds stay as they are.
Stays(q) ==
  /\ pc'[q] = pc[q] /\ item'[q] = item[q] /\ held'[q] = held[q] /\ observed'[q] = observed[q]
  /\ seen'[q] = seen[q] /\ entries'[q] = entries[q] /\ clean'[q] = clean[q]
  /\ row'[q] = row[q] /\ kind'[q] = kind[q]

\* Run q starts.
Starts(q) ==
  /\ pc[q] = "idle" /\ cpu = None
  /\ \/ StartIngest(q) \/ StartCheck(q)
     \/ Nothing(q, "usage_ingest", "skipped") \/ Nothing(q, "catalog_refresh", "failed")

\* Run q ends, answered or settled, or with the process.
Ends(q) == (pc[q] \in {"settle", "throw"} /\ Clear(q)) \/ Crash

\* A step of one run leaves the others alone.
LEMMA OthersStay ==
  ASSUME Sound, NEW r \in Runs, NEW q \in Runs \ {r},
         RunStep(r) \/ Starts(r) \/ (pc[r] \in {"settle", "throw"} /\ Clear(r))
  PROVE  Stays(q)
<1> USE DEF Sound
<1>1. CASE RunStep(r)
  <2>1. ASSUME NEW es, NEW ds, NEW done, NextObject(r, es, ds, done)
        PROVE  pc'[q] = pc[q] /\ item'[q] = item[q] /\ entries'[q] = entries[q]
    BY <2>1 DEF NextObject, Await, Continue, TypeOK
  <2>2. ASSUME NEW ss, NextSource(r, ss) PROVE pc'[q] = pc[q] /\ item'[q] = item[q]
    BY <2>2 DEF NextSource, Await, Continue, TypeOK
  <2>3. CASE ReceiveListing(r) \/ ReceiveManifest(r) \/ ManifestFails(r) \/ ObjectFails(r) \/ Mark(r)
    <3>1. pc'[q] = pc[q] /\ item'[q] = item[q] /\ entries'[q] = entries[q]
      BY <2>1, <2>3 DEF ReceiveListing, ReceiveManifest, ManifestFails, ObjectFails, Mark
    <3> QED BY <2>3, <3>1 DEF ReceiveListing, ReceiveManifest, ManifestFails, ObjectFails, Mark, Stays, TypeOK
  <2>4. CASE ReceiveModels(r) \/ FetchFails(r)
    <3>1. pc'[q] = pc[q] /\ item'[q] = item[q]
      BY <2>2, <2>4 DEF ReceiveModels, FetchFails
    <3> QED BY <2>4, <3>1 DEF ReceiveModels, FetchFails, Stays, TypeOK
  <2>5. CASE ListingFails(r) \/ StoreFacts(r) \/ Observe(r) \/ Finish(r)
    BY <2>5 DEF ListingFails, StoreFacts, Observe, Finish, Continue, Stays, TypeOK
  <2> QED BY <1>1, <2>3, <2>4, <2>5 DEF RunStep
<1>2. CASE Starts(r)
  <2>1. CASE StartIngest(r)
    BY <2>1 DEF StartIngest, Begin, Stays, TypeOK
  <2>2. CASE StartCheck(r)
    BY <2>2 DEF StartCheck, Begin, NextSource, Await, Continue, Stays, TypeOK
  <2>3. CASE Nothing(r, "usage_ingest", "skipped") \/ Nothing(r, "catalog_refresh", "failed")
    BY <2>3 DEF Nothing, Continue, Stays, TypeOK
  <2> QED BY <1>2, <2>1, <2>2, <2>3 DEF Starts
<1>3. CASE pc[r] \in {"settle", "throw"} /\ Clear(r)
  BY <1>3 DEF Clear, Stays, TypeOK
<1> QED BY <1>1, <1>2, <1>3

\* A run stays, moves, starts or ends.
LEMMA RunCases ==
  ASSUME Sound, [Next]_vars, NEW q \in Runs
  PROVE  Stays(q) \/ RunStep(q) \/ Starts(q) \/ Ends(q)
<1>1. ASSUME NEW r \in Runs, RunStep(r) PROVE Stays(q) \/ RunStep(q)
  BY <1>1, OthersStay
<1>2. ASSUME NEW r \in Operators, IngestNow(r) \/ CheckCatalog(r) \/ Answer(r)
      PROVE  Stays(q) \/ Starts(q) \/ Ends(q)
  <2>1. r \in Runs /\ (Starts(r) \/ (pc[r] \in {"settle", "throw"} /\ Clear(r)))
    BY <1>2 DEF IngestNow, CheckCatalog, Answer, Starts, Free, Runs
  <2> QED BY <2>1, OthersStay DEF Ends
<1>3. ASSUME \/ \E j \in IngestJobs : HandleUsageIngest(j)
             \/ \E j \in CheckJobs : HandleCatalogRefresh(j)
             \/ Settle
      PROVE  Stays(q) \/ Starts(q) \/ Ends(q)
  <2>1. Worker \in Runs
    BY DEF Runs
  <2>2. Starts(Worker) \/ (pc[Worker] \in {"settle", "throw"} /\ Clear(Worker))
    BY <1>3 DEF HandleUsageIngest, HandleCatalogRefresh, Claim, Settle, Starts, Free, Kinds
  <2> QED BY <2>1, <2>2, OthersStay DEF Ends
<1>4. CASE Crash
  BY <1>4 DEF Ends
<1>5. ASSUME \/ \E d \in Devices : Publish(d)
             \/ SetBackend \/ Start \/ UNCHANGED vars
             \/ \E m \in Models, rate \in Rates, c \in BOOLEAN : SavePrice(m, rate, c)
             \/ \E m \in Models : DeletePrice(m)
             \/ \E m \in Models, s \in {"needs_price", "ignored"} : SetStatus(m, s)
             \/ \E j \in Jobs : Fire(j) \/ Expire(j)
      PROVE  Stays(q)
  <2>1. UNCHANGED <<pc, row, work>>
    BY <1>5 DEF Publish, SetBackend, Start, SavePrice, DeletePrice, SetStatus, Fire, Expire, vars
  <2> QED BY <2>1 DEF Stays, work
<1> QED BY <1>1, <1>2, <1>3, <1>4, <1>5 DEF Next

\* What a run did, told from where it is.
LEMMA Whereabouts ==
  ASSUME Sound, NEW q \in Runs, RunStep(q)
  PROVE  /\ pc'[q] \notin {"idle", "list"}
         /\ pc'[q] = "mark" => StoreFacts(q)
         /\ pc'[q] = "finish" => Observe(q)
         /\ pc'[q] = "settle" => Finish(q)
         /\ pc'[q] = "throw" => ListingFails(q)
         /\ pc'[q] \in {"manifest", "object"} => pc[q] \in {"list", "manifest", "object", "mark"}
         /\ held' = held
<1> USE DEF Sound
<1>1. ASSUME NEW es, NEW ds, NEW done, NextObject(q, es, ds, done)
      PROVE  pc'[q] \in {"object", "manifest", "observe"}
  BY <1>1 DEF NextObject, Await, Continue, TypeOK
<1>2. ASSUME NEW ss, NextSource(q, ss) PROVE pc'[q] \in {"fetch", "observe"}
  BY <1>2 DEF NextSource, Await, Continue, TypeOK
<1>3. CASE ReceiveListing(q) \/ ReceiveManifest(q) \/ ManifestFails(q) \/ ObjectFails(q) \/ Mark(q)
  <2>1. pc'[q] \in {"object", "manifest", "observe"}
    BY <1>1, <1>3 DEF ReceiveListing, ReceiveManifest, ManifestFails, ObjectFails, Mark
  <2> QED BY <1>3, <2>1 DEF ReceiveListing, ReceiveManifest, ManifestFails, ObjectFails, Mark
<1>4. CASE ReceiveModels(q) \/ FetchFails(q)
  <2>1. pc'[q] \in {"fetch", "observe"}
    BY <1>2, <1>4 DEF ReceiveModels, FetchFails
  <2> QED BY <1>4, <2>1 DEF ReceiveModels, FetchFails
<1>5. CASE ListingFails(q) \/ StoreFacts(q) \/ Observe(q) \/ Finish(q)
  BY <1>5 DEF ListingFails, StoreFacts, Observe, Finish, Continue, TypeOK
<1> QED BY <1>3, <1>4, <1>5 DEF RunStep

\* Only a run that marks an object writes to the ingested objects.
LEMMA IngestedSteps ==
  ASSUME [Next]_vars
  PROVE  ingested' = ingested \/ \E r \in Runs : pc[r] = "mark" /\ ingested' = ingested \cup {item[r]}
<1>1. ASSUME NEW r \in Runs, RunStep(r), ~Mark(r) PROVE ingested' = ingested
  BY <1>1 DEF RunStep, ReceiveListing, ListingFails, ReceiveManifest, ManifestFails, StoreFacts,
     ObjectFails, Observe, Finish, ReceiveModels, FetchFails, db
<1>2. ASSUME \/ \E d \in Devices : Publish(d)
             \/ SetBackend \/ Settle \/ Crash \/ Start \/ UNCHANGED vars
             \/ \E m \in Models, rate \in Rates, c \in BOOLEAN : SavePrice(m, rate, c)
             \/ \E m \in Models : DeletePrice(m)
             \/ \E m \in Models, s \in {"needs_price", "ignored"} : SetStatus(m, s)
             \/ \E r \in Operators : IngestNow(r) \/ CheckCatalog(r) \/ Answer(r)
             \/ \E j \in Jobs : Fire(j) \/ Expire(j)
             \/ \E j \in IngestJobs : HandleUsageIngest(j)
             \/ \E j \in CheckJobs : HandleCatalogRefresh(j)
      PROVE  ingested' = ingested
  BY <1>2 DEF Publish, SetBackend, Settle, Crash, Start, SavePrice, DeletePrice, SetStatus,
     IngestNow, CheckCatalog, Answer, Fire, Expire, HandleUsageIngest, HandleCatalogRefresh, Claim,
     Clear, db, vars
<1>3. ASSUME NEW r \in Runs, Mark(r) PROVE pc[r] = "mark" /\ ingested' = ingested \cup {item[r]}
  BY <1>3 DEF Mark
<1> QED BY <1>1, <1>2, <1>3 DEF Next

(***************************************************************************)
(* An ingested object is stored: inductive once it is known that a run     *)
(* about to mark an object has recorded its facts.                         *)
(***************************************************************************)

StoredInv ==
  /\ IngestedIsStored
  /\ \A r \in Runs : pc[r] = "mark" => \A i \in Ids : Yield[item[r]][i] # None => facts[i] # None

\* Every step keeps it.
LEMMA StoredStep == Sound /\ StoredInv /\ [Next]_vars => StoredInv'
<1> SUFFICES ASSUME Sound, StoredInv, [Next]_vars PROVE StoredInv'
  OBVIOUS
<1>1. \A i \in Ids : facts[i] # None => facts'[i] # None
  BY FactsStay
<1>2. ingested' = ingested \/ \E r \in Runs : pc[r] = "mark" /\ ingested' = ingested \cup {item[r]}
  BY IngestedSteps
<1>3. IngestedIsStored'
  BY <1>1, <1>2 DEF StoredInv, IngestedIsStored
<1>4. ASSUME NEW q \in Runs, pc'[q] = "mark", NEW i \in Ids, Yield[item'[q]][i] # None
      PROVE  facts'[i] # None
  <2>1. CASE Stays(q)
    BY <1>1, <1>4, <2>1 DEF Stays, StoredInv
  <2>2. CASE RunStep(q)
    <3>1. StoreFacts(q)
      BY <1>4, <2>2, Whereabouts
    <3>2. item'[q] = item[q] /\ item[q] \in Entries /\ held[q] \in [Models -> Rates \cup {None}]
      BY <3>1 DEF StoreFacts, Continue, Sound, PlacesOK, Fits, TypeOK
    <3>3. facts' = Recorded(item[q], held[q])
      BY <3>1 DEF StoreFacts
    <3> QED BY <1>4, <3>2, <3>3, RecordedType, NoneIsAbsent DEF Sound
  <2>3. CASE Starts(q)
    <3>1. pc'[q] \in {"list", "fetch", "observe", "settle"}
      BY <2>3 DEF Starts, StartIngest, StartCheck, Nothing, NextSource, Await, Continue, Sound, TypeOK
    <3> QED BY <1>4, <3>1
  <2>4. CASE Ends(q)
    BY <1>4, <2>4 DEF Ends, Clear, Crash, Sound, TypeOK
  <2> QED BY <2>1, <2>2, <2>3, <2>4, RunCases
<1> QED BY <1>3, <1>4 DEF StoredInv

\* An object that will never be read again has all its messages in the ledger,
\* in every reachable state.
THEOREM IngestedStaysStored == Spec => []IngestedIsStored
<1>1. Init => StoredInv
  BY DEF Init, StoredInv, IngestedIsStored
<1>2. Sound /\ StoredInv /\ [Next]_vars => StoredInv'
  BY StoredStep
<1>3. StoredInv => IngestedIsStored
  BY DEF StoredInv
<1> QED BY <1>1, <1>2, <1>3, AlwaysSound, PTL DEF Spec

(***************************************************************************)
(* Costs follow the approved rates: inductive once it is known that a run  *)
(* which will still price facts holds the current rates of the models that *)
(* did not move, and that a fact's model is the one its message names.     *)
(***************************************************************************)

HoldsRates == \A r \in Runs : pc[r] \in {"list", "manifest", "object", "mark"} =>
                \A m \in Models \ moved : held[r][m] = prices[m]

NamesModel == \A i \in Ids : facts[i] # None =>
                \E e \in Entries : Yield[e][i] # None /\ facts[i].model = Yield[e][i].model

CostInv == CostsFollowPrices /\ HoldsRates /\ NamesModel

\* A run keeps the right rates in a step that writes none.
LEMMA RatesKept ==
  ASSUME Sound, [Next]_vars, HoldsRates, UNCHANGED <<prices, moved>>
  PROVE  HoldsRates'
<1> SUFFICES ASSUME NEW q \in Runs, pc'[q] \in {"list", "manifest", "object", "mark"}
             PROVE  \A m \in Models \ moved : held'[q][m] = prices[m]
  BY DEF HoldsRates
<1>1. CASE Stays(q)
  BY <1>1 DEF Stays, HoldsRates
<1>2. CASE RunStep(q)
  <2>1. held' = held /\ (pc[q] \in {"list", "manifest", "object", "mark"} \/ StoreFacts(q))
    BY <1>2, Whereabouts
  <2>2. StoreFacts(q) => pc[q] = "object"
    BY DEF StoreFacts
  <2> QED BY <2>1, <2>2 DEF HoldsRates
<1>3. CASE Starts(q)
  <2>1. pc'[q] = "list" /\ StartIngest(q)
    BY <1>3 DEF Starts, StartIngest, StartCheck, Nothing, NextSource, Await, Continue, Sound, TypeOK
  <2>2. held'[q] = prices
    BY <2>1 DEF StartIngest, Begin, Sound, TypeOK
  <2> QED BY <2>2
<1>4. CASE Ends(q)
  BY <1>4 DEF Ends, Clear, Crash, Sound, TypeOK
<1> QED BY <1>1, <1>2, <1>3, <1>4, RunCases

\* Writing rates keeps the costs right, and marks what a run holds as moved.
LEMMA CostsWritten ==
  ASSUME Sound, CostInv, NEW after \in [Models -> Rates \cup {None}], NEW ms \in SUBSET Models,
         SetRates(after, ms), cpu = None, UNCHANGED <<pc, held>>,
         \A m \in Models \ ms : after[m] = prices[m]
  PROVE  CostInv'
<1> USE DEF Sound
<1>1. prices' = after /\ facts' = Reprice(after, ms)
      /\ moved' = IF Pricing = {} THEN moved \ ms ELSE moved \cup ms
  BY DEF SetRates
<1>2. CostsFollowPrices'
  <2> SUFFICES ASSUME NEW i \in Ids, facts'[i] # None, facts'[i].model \notin moved'
               PROVE  IF after[facts'[i].model] = None THEN facts'[i].cost = None
                      ELSE facts'[i].cost # None /\ facts'[i].cost.rate = after[facts'[i].model]
    BY <1>1 DEF CostsFollowPrices
  <2>1. facts[i] # None /\ facts'[i].model = facts[i].model
        /\ (facts[i].model \notin ms => facts'[i] = facts[i])
        /\ (facts[i].model \in ms /\ after[facts[i].model] = None => facts'[i].cost = None)
        /\ (facts[i].model \in ms /\ after[facts[i].model] # None =>
              facts'[i].cost # None /\ facts'[i].cost.rate = after[facts[i].model])
    BY <1>1, RepriceType
  <2>2. CASE facts[i].model \in ms
    BY <2>1, <2>2
  <2>3. CASE facts[i].model \notin ms
    <3>1. facts[i].model \in Models
      BY <2>1 DEF TypeOK, Fact
    <3>2. facts[i].model \notin moved /\ after[facts[i].model] = prices[facts[i].model]
      BY <1>1, <2>1, <2>3, <3>1
    <3> QED BY <2>1, <2>3, <3>2 DEF CostInv, CostsFollowPrices
  <2> QED BY <2>2, <2>3
<1>3. HoldsRates'
  <2> SUFFICES ASSUME NEW r \in Runs, pc[r] \in {"list", "manifest", "object", "mark"},
                      NEW m \in Models \ moved'
               PROVE  held[r][m] = after[m]
    BY <1>1 DEF HoldsRates
  <2>1. pc[r] # "mark"
    BY NoneIsNobody DEF PlacesOK, Busy
  <2>2. Pricing # {} /\ m \in Models \ moved /\ m \notin ms
    BY <1>1, <2>1 DEF Pricing
  <2> QED BY <2>2 DEF CostInv, HoldsRates
<1>4. NamesModel'
  <2> SUFFICES ASSUME NEW i \in Ids, facts'[i] # None
               PROVE  \E e \in Entries : Yield[e][i] # None /\ facts'[i].model = Yield[e][i].model
    BY DEF NamesModel
  <2>1. facts[i] # None /\ facts'[i].model = facts[i].model
    BY <1>1, RepriceType
  <2> QED BY <2>1 DEF CostInv, NamesModel
<1> QED BY <1>2, <1>3, <1>4 DEF CostInv

\* Recording an object prices its facts with the rates of the models that did
\* not move.
LEMMA CostsRecorded ==
  ASSUME Sound, CostInv, [Next]_vars, NEW r \in Runs, StoreFacts(r)
  PROVE  CostInv'
<1> USE DEF Sound
<1>1. item[r] \in Entries /\ held[r] \in [Models -> Rates \cup {None}]
  BY DEF StoreFacts, PlacesOK, Fits, TypeOK
<1>2. facts' = Recorded(item[r], held[r]) /\ UNCHANGED <<prices, moved>>
  BY DEF StoreFacts, hist
<1>3. \A m \in Models \ moved : held[r][m] = prices[m]
  BY DEF StoreFacts, CostInv, HoldsRates
<1>4. ASSUME NEW i \in Ids, Yield[item[r]][i] # None
      PROVE  /\ Yield[item[r]][i] \in Reading
             /\ facts'[i].model = Yield[item[r]][i].model
             /\ facts'[i].cost = Price(Yield[item[r]][i], held[r])
  <2>1. Yield[item[r]][i] \in Reading
    BY <1>1, <1>4, ConstantsOK
  <2>2. facts[i] # None => facts[i].model = Yield[item[r]][i].model
    BY <1>1, <1>4, ConstantsOK DEF CostInv, NamesModel
  <2> QED BY <1>1, <1>2, <1>4, <2>1, <2>2, RecordedType
<1>5. CostsFollowPrices'
  <2> SUFFICES ASSUME NEW i \in Ids, facts'[i] # None, facts'[i].model \notin moved
               PROVE  IF prices[facts'[i].model] = None THEN facts'[i].cost = None
                      ELSE facts'[i].cost # None /\ facts'[i].cost.rate = prices[facts'[i].model]
    BY <1>2 DEF CostsFollowPrices
  <2>1. CASE Yield[item[r]][i] = None
    <3>1. facts'[i] = facts[i]
      BY <1>1, <1>2, <2>1, RecordedType
    <3> QED BY <3>1 DEF CostInv, CostsFollowPrices
  <2>2. CASE Yield[item[r]][i] # None
    <3> DEFINE y == Yield[item[r]][i]
    <3>1. y \in Reading /\ facts'[i].model = y.model /\ facts'[i].cost = Price(y, held[r])
      BY <1>4, <2>2
    <3>2. y.model \in Models /\ y.tokens \in Nat
      BY <3>1 DEF Reading
    <3>3. held[r][y.model] = prices[y.model] /\ held[r][y.model] \in Rates \cup {None}
      BY <1>1, <1>3, <3>1, <3>2
    <3> HIDE DEF y
    <3>4. CASE prices[y.model] = None
      BY <3>1, <3>3, <3>4 DEF Price
    <3>5. CASE prices[y.model] # None
      <4>1. facts'[i].cost = [tokens |-> y.tokens, rate |-> prices[y.model]]
        BY <3>1, <3>3, <3>5 DEF Price
      <4>2. [tokens |-> y.tokens, rate |-> prices[y.model]] \in [tokens : Nat, rate : Rates]
        BY <3>2, <3>3, <3>5
      <4>3. facts'[i].cost # None
        BY <4>1, <4>2, NoneIsAbsent
      <4> QED BY <3>1, <3>5, <4>1, <4>3
    <3> QED BY <3>4, <3>5
  <2> QED BY <2>1, <2>2
<1>6. NamesModel'
  <2> SUFFICES ASSUME NEW i \in Ids, facts'[i] # None
               PROVE  \E e \in Entries : Yield[e][i] # None /\ facts'[i].model = Yield[e][i].model
    BY DEF NamesModel
  <2>1. CASE Yield[item[r]][i] = None
    <3>1. facts'[i] = facts[i]
      BY <1>1, <1>2, <2>1, RecordedType
    <3> QED BY <3>1 DEF CostInv, NamesModel
  <2>2. CASE Yield[item[r]][i] # None
    BY <1>1, <1>4, <2>2
  <2> QED BY <2>1, <2>2
<1>7. HoldsRates'
  BY <1>2, RatesKept DEF CostInv
<1> QED BY <1>5, <1>6, <1>7 DEF CostInv

\* Stored costs follow the approved rates in every reachable state, for the
\* models whose rate was not written while a run held an older one.
THEOREM CostsStayRight == Spec => []CostsFollowPrices
<1>1. Init => CostInv
  BY DEF Init, CostInv, CostsFollowPrices, HoldsRates, NamesModel
<1>2. Sound /\ CostInv /\ [Next]_vars => CostInv'
  <2> SUFFICES ASSUME Sound, CostInv, [Next]_vars PROVE CostInv'
    OBVIOUS
  <2>1. CASE Factless
    <3>1. UNCHANGED <<facts, prices, moved>>
      BY <2>1, FactlessAlone
    <3>2. HoldsRates'
      BY <3>1, RatesKept DEF CostInv
    <3> QED BY <3>1, <3>2 DEF CostInv, CostsFollowPrices, NamesModel
  <2>2. ASSUME NEW r \in Runs, StoreFacts(r) PROVE CostInv'
    BY <2>2, CostsRecorded
  <2>3. ASSUME NEW after \in [Models -> Rates \cup {None}], NEW ms \in SUBSET Models,
               SetRates(after, ms), cpu = None, UNCHANGED <<pc, held>>,
               \A m \in Models \ ms : after[m] = prices[m]
        PROVE  CostInv'
    BY <2>3, CostsWritten
  <2> QED BY <2>1, <2>2, <2>3, FactSteps
<1>3. CostInv => CostsFollowPrices
  BY DEF CostInv
<1> QED BY <1>1, <1>2, <1>3, AlwaysSound, PTL DEF Spec

(***************************************************************************)
(* A model that costs tokens is queued: inductive once it is known that a  *)
(* run which has written to the review queue has written all it met.       *)
(***************************************************************************)

SeenInv ==
  /\ SeenIsQueued
  /\ \A r \in Runs : pc[r] \in {"finish", "settle"} => \A m \in observed[r] : catalog[m] # None

\* What a run met, it still knows, or wrote, or died with.
LEMMA MetIsKept ==
  ASSUME Sound, SeenInv, [Next]_vars, NEW r \in Runs, NEW m \in observed[r]
  PROVE  catalog'[m] # None \/ m \in forgotten' \/ m \in observed'[r]
<1>0. m \in Models
  BY DEF Sound, TypeOK
<1>1. CASE Stays(r)
  BY <1>1 DEF Stays
<1>2. CASE RunStep(r)
  <2>1. observed[r] \subseteq observed'[r]
    BY <1>2 DEF RunStep, ReceiveListing, ListingFails, ReceiveManifest, ManifestFails, StoreFacts,
       ObjectFails, Mark, Observe, Finish, ReceiveModels, FetchFails, Sound, TypeOK
  <2> QED BY <2>1
<1>3. CASE Starts(r)
  BY <1>3 DEF Starts, Sound, PlacesOK
<1>4. CASE pc[r] \in {"settle", "throw"} /\ Clear(r)
  <2>1. pc[r] = "settle"
    BY <1>4 DEF Sound, PlacesOK
  <2> QED BY <1>0, <2>1, CatalogStays DEF SeenInv
<1>5. CASE Crash
  BY <1>5 DEF Crash
<1> QED BY <1>1, <1>2, <1>3, <1>4, <1>5, RunCases DEF Ends

\* Nothing a run died with comes back.
LEMMA ForgottenStays == [Next]_vars => forgotten \subseteq forgotten'
<1> SUFFICES ASSUME [Next]_vars PROVE forgotten \subseteq forgotten'
  OBVIOUS
<1>1. ASSUME NEW r \in Runs, RunStep(r) PROVE forgotten' = forgotten
  BY <1>1 DEF RunStep, ReceiveListing, ListingFails, ReceiveManifest, ManifestFails, StoreFacts,
     ObjectFails, Mark, Observe, Finish, ReceiveModels, FetchFails, hist
<1>2. CASE Crash
  BY <1>2 DEF Crash
<1>3. ASSUME \/ \E d \in Devices : Publish(d)
             \/ SetBackend \/ Settle \/ Start \/ UNCHANGED vars
             \/ \E m \in Models, rate \in Rates, c \in BOOLEAN : SavePrice(m, rate, c)
             \/ \E m \in Models : DeletePrice(m)
             \/ \E m \in Models, s \in {"needs_price", "ignored"} : SetStatus(m, s)
             \/ \E r \in Operators : IngestNow(r) \/ CheckCatalog(r) \/ Answer(r)
             \/ \E j \in Jobs : Fire(j) \/ Expire(j)
             \/ \E j \in IngestJobs : HandleUsageIngest(j)
             \/ \E j \in CheckJobs : HandleCatalogRefresh(j)
      PROVE  forgotten' = forgotten
  BY <1>3 DEF Publish, SetBackend, Settle, Start, SavePrice, DeletePrice, SetStatus, IngestNow,
     CheckCatalog, Answer, Fire, Expire, HandleUsageIngest, HandleCatalogRefresh, Claim, Clear, hist, vars
<1> QED BY <1>1, <1>2, <1>3 DEF Next

\* A fact that is new names a model its run has met.
LEMMA NewIsMet ==
  ASSUME Sound, [Next]_vars, NEW i \in Ids, facts[i] = None, facts'[i] # None
  PROVE  \E r \in Runs : facts'[i].model \in observed'[r]
<1>1. ~Factless
  BY FactlessAlone
<1>2. ASSUME NEW after \in [Models -> Rates \cup {None}], NEW ms \in SUBSET Models, SetRates(after, ms)
      PROVE  FALSE
  BY <1>2, RepriceType DEF SetRates, Sound
<1>3. PICK r \in Runs : StoreFacts(r)
  BY <1>1, <1>2, FactSteps
<1>4. item[r] \in Entries /\ held[r] \in [Models -> Rates \cup {None}]
  BY <1>3 DEF StoreFacts, Sound, PlacesOK, Fits, TypeOK
<1>5. facts' = Recorded(item[r], held[r])
  BY <1>3 DEF StoreFacts
<1>6. Yield[item[r]][i] # None /\ facts'[i].model = Yield[item[r]][i].model
  BY <1>4, <1>5, RecordedType DEF Sound
<1>7. observed'[r] = observed[r] \cup
        {Yield[item[r]][k].model : k \in {j \in Ids : Yield[item[r]][j] # None}}
  BY <1>3 DEF StoreFacts, Sound, TypeOK
<1> QED BY <1>6, <1>7

\* Every step keeps it.
LEMMA SeenStep == Sound /\ SeenInv /\ [Next]_vars => SeenInv'
<1> SUFFICES ASSUME Sound, SeenInv, [Next]_vars PROVE SeenInv'
  OBVIOUS
<1>1. SeenIsQueued'
  <2> SUFFICES ASSUME NEW i \in Ids, facts'[i] # None
               PROVE  \/ catalog'[facts'[i].model] # None
                      \/ facts'[i].model \in forgotten'
                      \/ \E r \in Runs : facts'[i].model \in observed'[r]
    BY DEF SeenIsQueued
  <2>1. CASE facts[i] = None
    BY <2>1, NewIsMet
  <2>2. CASE facts[i] # None
    <3>1. facts'[i].model = facts[i].model
      BY <2>2, FactsStay
    <3>2. facts[i].model \in Models
      BY <2>2 DEF Sound, TypeOK, Fact
    <3>3. \/ catalog[facts[i].model] # None
          \/ facts[i].model \in forgotten
          \/ \E r \in Runs : facts[i].model \in observed[r]
      BY <2>2 DEF SeenInv, SeenIsQueued
    <3> QED BY <3>1, <3>2, <3>3, CatalogStays, ForgottenStays, MetIsKept
  <2> QED BY <2>1, <2>2
<1>2. ASSUME NEW q \in Runs, pc'[q] \in {"finish", "settle"}, NEW m \in observed'[q]
      PROVE  catalog'[m] # None
  <2>0. SeenInv /\ observed[q] \subseteq Models
    BY DEF Sound, TypeOK
  <2>1. CASE Stays(q)
    BY <1>2, <2>0, <2>1, CatalogStays DEF Stays, SeenInv
  <2>2. CASE RunStep(q)
    <3>1. CASE Observe(q)
      BY <1>2, <2>0, <3>1, NoneIsAbsent DEF Observe, Observed, Status
    <3>2. CASE Finish(q)
      <4>1. m \in observed[q] /\ pc[q] = "finish"
        BY <1>2, <3>2 DEF Finish
      <4> QED BY <2>0, <4>1, CatalogStays DEF SeenInv
    <3> QED BY <1>2, <2>2, <3>1, <3>2, Whereabouts
  <2>3. CASE Starts(q)
    <3>1. observed'[q] = observed[q] /\ observed[q] = {}
      BY <2>3 DEF Starts, StartIngest, StartCheck, Nothing, Begin, Sound, PlacesOK
    <3> QED BY <1>2, <3>1
  <2>4. CASE Ends(q)
    BY <1>2, <2>4 DEF Ends, Clear, Crash, Sound, TypeOK
  <2> QED BY <2>1, <2>2, <2>3, <2>4, RunCases
<1> QED BY <1>1, <1>2 DEF SeenInv

\* In every reachable state a model that costs tokens is in the review queue,
\* is known to a run that will put it there, or was lost with a run that died.
THEOREM SeenStaysQueued == Spec => []SeenIsQueued
<1>1. Init => SeenInv
  BY DEF Init, SeenInv, SeenIsQueued
<1>2. Sound /\ SeenInv /\ [Next]_vars => SeenInv'
  BY SeenStep
<1>3. SeenInv => SeenIsQueued
  BY DEF SeenInv
<1> QED BY <1>1, <1>2, <1>3, AlwaysSound, PTL DEF Spec

(***************************************************************************)
(* An ok run left nothing behind: what it has seen and not yet handled is  *)
(* what is left of the manifest it is working on.                          *)
(***************************************************************************)

\* What run r still has in hand.
InHand(r) == entries[r] \cup (IF pc[r] \in {"object", "mark"} THEN {item[r]} ELSE {})

LeftInv ==
  \A r \in Runs : /\ pc[r] \notin {"object", "mark"} => entries[r] = {}
                  /\ clean[r] => seen[r] \subseteq ingested \cup Large \cup InHand(r)

\* A run that goes on to the next object keeps in hand what it has still to
\* read: es is what it had, done what is ingested by now.
LEMMA NextKeeps ==
  ASSUME Sound, NEW r \in Runs, NEW es \in SUBSET Entries, NEW ds \in SUBSET Listed, NEW done,
         NextObject(r, es, ds, done)
  PROVE  /\ pc'[r] \notin {"object", "mark"} => entries'[r] = {}
         /\ es \subseteq Large \cup done \cup InHand(r)'
<1>0. GoesOn(r, es, done)
  <2>1. TypeOK
    BY DEF Sound
  <2> QED BY <2>1, NextObjectGoes
<1>1. PICK p \in {"object", "manifest", "observe"}, D \in SUBSET Listed, E \in SUBSET Entries :
        \E x \in Devices \cup Entries \cup Sources \cup {None} :
          /\ GoesTo(r, p, x, D, E) /\ Fits(p, x, D)
          /\ es \subseteq Large \cup done \cup E \cup (IF p = "object" THEN {x} ELSE {})
          /\ p # "object" => E = {}
  BY ONLY <1>0 DEF GoesOn
<1>2. PICK x \in Devices \cup Entries \cup Sources \cup {None} :
        /\ GoesTo(r, p, x, D, E) /\ Fits(p, x, D)
        /\ es \subseteq Large \cup done \cup E \cup (IF p = "object" THEN {x} ELSE {})
        /\ p # "object" => E = {}
  BY <1>1
<1>3. pc'[r] = p /\ item'[r] = x /\ entries'[r] = E
  BY <1>2 DEF GoesTo, Sound, TypeOK
<1>4. InHand(r)' = E \cup (IF p = "object" THEN {x} ELSE {})
  BY <1>3 DEF InHand
<1> QED BY <1>2, <1>3, <1>4

\* Every step keeps it.
LEMMA LeftStep == Sound /\ LeftInv /\ [Next]_vars => LeftInv'
<1> SUFFICES ASSUME Sound, LeftInv, [Next]_vars, NEW q \in Runs
             PROVE  /\ pc'[q] \notin {"object", "mark"} => entries'[q] = {}
                    /\ clean'[q] => seen'[q] \subseteq ingested' \cup Large \cup InHand(q)'
  BY DEF LeftInv
<1>0. ingested \subseteq ingested'
  BY IngestedSteps
<1>1. CASE Stays(q)
  <2>1. InHand(q)' = InHand(q) /\ pc'[q] = pc[q] /\ entries'[q] = entries[q]
        /\ seen'[q] = seen[q] /\ clean'[q] = clean[q]
    BY <1>1 DEF Stays, InHand
  <2> QED BY <1>0, <2>1 DEF LeftInv
<1>2. CASE RunStep(q)
  <2>0. /\ pc[q] \notin {"object", "mark"} => entries[q] = {}
        /\ clean[q] => seen[q] \subseteq ingested \cup Large \cup InHand(q)
        /\ due[q] \subseteq Devices \cup Sources /\ entries[q] \in SUBSET Entries
    BY DEF LeftInv, Sound, TypeOK
  <2>1. CASE ReceiveListing(q)
    <3>1. NextObject(q, {}, Listed, ingested)
      BY <2>1 DEF ReceiveListing, Listed
    <3>2. pc'[q] \notin {"object", "mark"} => entries'[q] = {}
      BY <3>1, NextKeeps
    <3>3. seen'[q] = {}
      BY <2>1 DEF ReceiveListing, Sound, PlacesOK
    <3> QED BY <3>2, <3>3
  <2>2. CASE ListingFails(q)
    BY <2>0, <2>2 DEF ListingFails, Continue, Sound, PlacesOK, TypeOK
  <2>3. CASE ReceiveManifest(q)
    <3>1. item[q] \in Listed /\ due[q] \in SUBSET Listed
      BY <2>3 DEF ReceiveManifest, Sound, PlacesOK, Fits
    <3>2. Manifest(item[q]) \in SUBSET Entries
      <4>1. published[item[q]] \in 1..Len(Listing[item[q]]) /\ Listing[item[q]] \in Seq(SUBSET Entries)
        BY <3>1, ConstantsOK DEF Listed, Sound, TypeOK, PlacesOK
      <4> QED BY <4>1 DEF Manifest
    <3>3. NextObject(q, Manifest(item[q]), due[q], ingested) /\ ingested' = ingested
      BY <2>3 DEF ReceiveManifest, db
    <3>4. /\ pc'[q] \notin {"object", "mark"} => entries'[q] = {}
          /\ Manifest(item[q]) \subseteq Large \cup ingested \cup InHand(q)'
      BY <3>1, <3>2, <3>3, NextKeeps
    <3>5. seen'[q] = seen[q] \cup Manifest(item[q]) /\ clean'[q] = clean[q] /\ InHand(q) = {}
      BY <2>0, <2>3 DEF ReceiveManifest, InHand, Sound, TypeOK
    <3> QED BY <2>0, <3>3, <3>4, <3>5
  <2>4. CASE ManifestFails(q)
    <3>1. NextObject(q, {}, due[q], ingested) /\ due[q] \in SUBSET Listed
      BY <2>4 DEF ManifestFails, Sound, PlacesOK, Fits
    <3>2. pc'[q] \notin {"object", "mark"} => entries'[q] = {}
      BY <3>1, NextKeeps
    <3>3. ~clean'[q]
      BY <2>4 DEF ManifestFails, Sound, TypeOK
    <3> QED BY <3>2, <3>3
  <2>5. CASE StoreFacts(q)
    <3>1. pc'[q] = "mark" /\ pc[q] = "object" /\ item'[q] = item[q] /\ entries' = entries
          /\ seen' = seen /\ clean' = clean /\ ingested' = ingested
      BY <2>5 DEF StoreFacts, Continue, Sound, TypeOK
    <3>2. InHand(q)' = InHand(q)
      BY <3>1 DEF InHand
    <3> QED BY <2>0, <3>1, <3>2
  <2>6. CASE ObjectFails(q)
    <3>1. NextObject(q, entries[q], due[q], ingested) /\ due[q] \in SUBSET Listed
      BY <2>6 DEF ObjectFails, Sound, PlacesOK, Fits
    <3>2. pc'[q] \notin {"object", "mark"} => entries'[q] = {}
      BY <2>0, <3>1, NextKeeps
    <3>3. ~clean'[q]
      BY <2>6 DEF ObjectFails, Sound, TypeOK
    <3> QED BY <3>2, <3>3
  <2>7. CASE Mark(q)
    <3>1. NextObject(q, entries[q], due[q], ingested') /\ due[q] \in SUBSET Listed
          /\ ingested' = ingested \cup {item[q]} /\ seen' = seen /\ clean' = clean
      BY <2>7 DEF Mark, Sound, PlacesOK, Fits
    <3> DEFINE done == ingested'
    <3>2. NextObject(q, entries[q], due[q], done)
      BY <3>1
    <3> HIDE DEF done
    <3>3. /\ pc'[q] \notin {"object", "mark"} => entries'[q] = {}
          /\ entries[q] \subseteq Large \cup done \cup InHand(q)'
      BY <2>0, <3>1, <3>2, NextKeeps
    <3>4. InHand(q) \subseteq entries[q] \cup {item[q]}
      BY DEF InHand
    <3> QED BY <2>0, <3>1, <3>3, <3>4 DEF done
  <2>8. CASE Observe(q) \/ Finish(q)
    <3>1. pc[q] \notin {"object", "mark"} /\ pc'[q] \notin {"object", "mark"} /\ entries' = entries
          /\ seen' = seen /\ clean' = clean /\ ingested' = ingested
      BY <2>8 DEF Observe, Finish, Continue, Sound, TypeOK, db
    <3>2. InHand(q) = {} /\ InHand(q)' = {}
      BY <2>0, <3>1 DEF InHand
    <3> QED BY <2>0, <3>1, <3>2
  <2>9. CASE ReceiveModels(q) \/ FetchFails(q)
    <3>1. pc[q] = "fetch" /\ entries' = entries /\ seen' = seen /\ ingested' = ingested
          /\ (clean'[q] => clean[q])
      BY <2>9 DEF ReceiveModels, FetchFails, Sound, TypeOK, db
    <3>2. NextSource(q, due[q])
      BY <2>9 DEF ReceiveModels, FetchFails
    <3>3. pc'[q] \in {"fetch", "observe"}
      BY <3>2 DEF NextSource, Await, Continue, Sound, TypeOK
    <3>4. InHand(q) = {} /\ InHand(q)' = {}
      BY <2>0, <3>1, <3>3 DEF InHand
    <3> QED BY <2>0, <3>1, <3>3, <3>4
  <2> QED BY <1>2, <2>1, <2>2, <2>3, <2>4, <2>5, <2>6, <2>7, <2>8, <2>9 DEF RunStep
<1>3. CASE Starts(q)
  <2>1. seen'[q] = {} /\ entries'[q] = {}
    BY <1>3 DEF Starts, StartIngest, StartCheck, Nothing, Begin, Sound, PlacesOK
  <2> QED BY <2>1
<1>4. CASE Ends(q)
  BY <1>4 DEF Ends, Clear, Crash, Sound, TypeOK
<1> QED BY <1>1, <1>2, <1>3, <1>4, RunCases

\* A run that is recorded as ok ends without an error and has nothing in hand.
LEMMA OkStep ==
  Sound /\ LeftInv /\ [Next]_vars =>
    \A r \in Runs : row'[r] = "ok" /\ row[r] # "ok" => seen[r] \subseteq ingested' \cup Large
<1> SUFFICES ASSUME Sound, LeftInv, [Next]_vars, NEW r \in Runs, row'[r] = "ok", row[r] # "ok"
             PROVE  seen[r] \subseteq ingested' \cup Large
  OBVIOUS
<1>1. ~Stays(r)
  BY DEF Stays
<1>2. ~Starts(r)
  BY DEF Starts, StartIngest, StartCheck, Nothing, Begin, Sound, TypeOK
<1>3. ~Ends(r)
  BY DEF Ends, Clear, Crash, Sound, TypeOK
<1>4. RunStep(r)
  BY <1>1, <1>2, <1>3, RunCases
<1>5. Finish(r)
  BY <1>4 DEF RunStep, ReceiveListing, ListingFails, ReceiveManifest, ManifestFails, StoreFacts,
     ObjectFails, Mark, Observe, ReceiveModels, FetchFails
<1>6. clean[r] /\ pc[r] = "finish" /\ ingested' = ingested
  BY <1>5 DEF Finish, Outcome, Sound, TypeOK, db
<1> QED BY <1>6 DEF LeftInv, InHand

\* No run is recorded as ok that met an object which is neither ingested nor
\* too large, whatever the other runs did meanwhile.
THEOREM OkMeansDone == Spec => OkLeavesNothing
<1>1. Init => LeftInv
  BY DEF Init, LeftInv
<1>2. Sound /\ LeftInv /\ [Next]_vars => LeftInv'
  BY LeftStep
<1>3. Sound /\ LeftInv /\ [Next]_vars =>
        [\A r \in Runs : row'[r] = "ok" /\ row[r] # "ok" => seen[r] \subseteq ingested' \cup Large]_vars
  BY OkStep
<1> QED BY <1>1, <1>2, <1>3, AlwaysSound, PTL DEF Spec, OkLeavesNothing

(***************************************************************************)
(* The queue: no job has more deliveries than it may, one that waits has   *)
(* one left, and the worker settles an ingest it has finished.             *)
(***************************************************************************)

QueueInv ==
  /\ \A j \in Jobs : /\ queue[j].tries <= MaxAttempts
                     /\ queue[j].state = "pending" => queue[j].tries < MaxAttempts
  /\ pc[Worker] = "settle" /\ kind[Worker] = "usage_ingest" =>
       row[Worker] \in {"ok", "partial", "skipped"}

\* What a delivery that fails leaves.
LEMMA UndeliveredKeeps ==
  ASSUME Sound, QueueInv, NEW j \in Jobs, queue' = Undelivered(j)
  PROVE  \A k \in Jobs : /\ queue'[k].tries <= MaxAttempts
                         /\ queue'[k].state = "pending" => queue'[k].tries < MaxAttempts
                         /\ queue'[k].state = "none" /\ queue[k].state # "none" =>
                              queue[k].tries = MaxAttempts
<1> DEFINE back == IF queue[j].tries < MaxAttempts THEN [queue[j] EXCEPT !.state = "pending"]
                   ELSE [state |-> "none", tries |-> 0]
<1>1. queue' = [queue EXCEPT ![j] = back]
  BY DEF Undelivered
<1>2. queue[j] \in [state : {"none", "pending", "claimed"}, tries : Nat] /\ MaxAttempts \in Nat \ {0}
      /\ queue[j].tries <= MaxAttempts
  BY ConstantsOK DEF Sound, TypeOK, QueueInv
<1>3. /\ back.tries <= MaxAttempts
      /\ back.state = "pending" => back.tries < MaxAttempts
      /\ back.state = "none" => queue[j].tries = MaxAttempts
  <2>1. CASE queue[j].tries < MaxAttempts
    <3>1. back.tries = queue[j].tries /\ back.state = "pending"
      BY <1>2, <2>1
    <3> QED BY <1>2, <2>1, <3>1
  <2>2. CASE ~(queue[j].tries < MaxAttempts)
    BY <1>2, <2>2
  <2> QED BY <2>1, <2>2
<1> HIDE DEF back
<1> QED BY <1>1, <1>3 DEF Sound, TypeOK, QueueInv

\* The queue changes by a delivery that fails, a job that is added or claimed,
\* or one that is settled.
LEMMA QueueSteps ==
  ASSUME Sound, [Next]_vars
  PROVE  \/ UNCHANGED queue
         \/ \E j \in Jobs : queue' = Undelivered(j)
         \/ \E j \in Jobs : queue[j].state = "none"
              /\ queue' = [queue EXCEPT ![j] = [state |-> "pending", tries |-> 0]]
         \/ \E j \in Jobs : queue[j].state = "pending"
              /\ queue' = [queue EXCEPT ![j] = [state |-> "claimed", tries |-> @.tries + 1]]
         \/ /\ job \in Jobs /\ pc[Worker] = "settle"
            /\ queue' = [queue EXCEPT ![job] = [state |-> "none", tries |-> 0]]
<1>1. ASSUME NEW j \in Jobs, Fire(j) \/ Expire(j)
      PROVE  \/ queue' = Undelivered(j)
             \/ queue[j].state = "none"
                  /\ queue' = [queue EXCEPT ![j] = [state |-> "pending", tries |-> 0]]
  BY <1>1 DEF Fire, Expire
<1>2. ASSUME NEW j \in Jobs, Claim(j)
      PROVE  /\ queue[j].state = "pending"
             /\ queue' = [queue EXCEPT ![j] = [state |-> "claimed", tries |-> @.tries + 1]]
  BY <1>2 DEF Claim
<1>3. ASSUME \/ \E j \in IngestJobs : HandleUsageIngest(j)
             \/ \E j \in CheckJobs : HandleCatalogRefresh(j)
      PROVE  \E j \in Jobs : Claim(j)
  BY <1>3 DEF HandleUsageIngest, HandleCatalogRefresh, Jobs
<1>4. ASSUME Settle
      PROVE  job \in Jobs /\ (\/ UNCHANGED queue
                              \/ queue' = Undelivered(job)
                              \/ /\ pc[Worker] = "settle"
                                 /\ queue' = [queue EXCEPT ![job] = [state |-> "none", tries |-> 0]])
  BY <1>4 DEF Settle, Sound, PlacesOK
<1>5. ASSUME NEW r \in Runs, RunStep(r) PROVE UNCHANGED queue
  BY <1>5 DEF RunStep, ReceiveListing, ListingFails, ReceiveManifest, ManifestFails, StoreFacts,
     ObjectFails, Mark, Observe, Finish, ReceiveModels, FetchFails, jobs
<1>6. ASSUME \/ \E d \in Devices : Publish(d)
             \/ SetBackend \/ Crash \/ Start \/ UNCHANGED vars
             \/ \E m \in Models, rate \in Rates, c \in BOOLEAN : SavePrice(m, rate, c)
             \/ \E m \in Models : DeletePrice(m)
             \/ \E m \in Models, s \in {"needs_price", "ignored"} : SetStatus(m, s)
             \/ \E r \in Operators : IngestNow(r) \/ CheckCatalog(r) \/ Answer(r)
      PROVE  UNCHANGED queue
  BY <1>6 DEF Publish, SetBackend, Crash, Start, SavePrice, DeletePrice, SetStatus, IngestNow,
     CheckCatalog, Answer, jobs, vars
<1> QED BY <1>1, <1>2, <1>3, <1>4, <1>5, <1>6 DEF Next

\* The worker settles an ingest it has finished, and nothing else of it.
LEMMA SettlesFinished ==
  ASSUME Sound, QueueInv, [Next]_vars, pc'[Worker] = "settle", kind'[Worker] = "usage_ingest"
  PROVE  row'[Worker] \in {"ok", "partial", "skipped"}
<1>0. Worker \in Runs
  BY DEF Runs
<1>1. CASE Stays(Worker)
  BY <1>1 DEF Stays, QueueInv
<1>2. CASE RunStep(Worker)
  <2>1. Finish(Worker)
    BY <1>0, <1>2, Whereabouts
  <2> QED BY <1>0, <2>1 DEF Finish, Outcome, Sound, TypeOK
<1>3. CASE Starts(Worker)
  <2>1. CASE StartIngest(Worker) \/ StartCheck(Worker)
    <3>1. pc'[Worker] \in {"list", "fetch", "observe"}
      BY <1>0, <2>1 DEF StartIngest, StartCheck, NextSource, Await, Continue, Sound, TypeOK
    <3> QED BY <3>1
  <2>2. CASE Nothing(Worker, "usage_ingest", "skipped")
    BY <1>0, <2>2 DEF Nothing, Sound, TypeOK
  <2>3. CASE Nothing(Worker, "catalog_refresh", "failed")
    BY <1>0, <2>3 DEF Nothing, Sound, TypeOK
  <2> QED BY <1>3, <2>1, <2>2, <2>3 DEF Starts
<1>4. CASE Ends(Worker)
  BY <1>0, <1>4 DEF Ends, Clear, Crash, Sound, TypeOK
<1> QED BY <1>0, <1>1, <1>2, <1>3, <1>4, RunCases

\* Every step keeps the queue in order, and a job that leaves it was handled
\* or had all its deliveries.
LEMMA QueueKept ==
  ASSUME Sound, QueueInv, [Next]_vars
  PROVE  /\ QueueInv'
         /\ \A j \in Jobs : queue[j].state # "none" /\ queue'[j].state = "none" =>
              \/ queue[j].tries = MaxAttempts
              \/ job = j /\ (kind[Worker] = "usage_ingest" => row[Worker] \in {"ok", "partial", "skipped"})
<1> DEFINE Ordered(k) == /\ queue'[k].tries <= MaxAttempts
                         /\ queue'[k].state = "pending" => queue'[k].tries < MaxAttempts
           Left(k) == queue[k].state # "none" /\ queue'[k].state = "none" =>
              \/ queue[k].tries = MaxAttempts
              \/ job = k /\ (kind[Worker] = "usage_ingest" => row[Worker] \in {"ok", "partial", "skipped"})
<1>0. MaxAttempts \in Nat \ {0} /\ queue \in [Jobs -> [state : {"none", "pending", "claimed"}, tries : Nat]]
      /\ \A k \in Jobs : /\ queue[k].tries <= MaxAttempts
                         /\ queue[k].state = "pending" => queue[k].tries < MaxAttempts
  BY ConstantsOK DEF Sound, TypeOK, QueueInv
<1>1. CASE UNCHANGED queue
  BY <1>0, <1>1, SettlesFinished DEF QueueInv
<1>2. ASSUME NEW k \in Jobs PROVE Ordered(k) /\ Left(k)
  <2>1. CASE UNCHANGED queue
    BY <1>0, <2>1
  <2>2. CASE \E j \in Jobs : queue' = Undelivered(j)
    BY <2>2, UndeliveredKeeps
  <2>3. ASSUME NEW j \in Jobs, queue' = [queue EXCEPT ![j] = [state |-> "pending", tries |-> 0]]
        PROVE  Ordered(k) /\ Left(k)
    BY <1>0, <2>3
  <2>4. ASSUME NEW j \in Jobs, queue[j].state = "pending",
               queue' = [queue EXCEPT ![j] = [state |-> "claimed", tries |-> @.tries + 1]]
        PROVE  Ordered(k) /\ Left(k)
    BY <1>0, <2>4
  <2>5. ASSUME job \in Jobs, pc[Worker] = "settle",
               queue' = [queue EXCEPT ![job] = [state |-> "none", tries |-> 0]]
        PROVE  Ordered(k) /\ Left(k)
    BY <1>0, <2>5 DEF QueueInv
  <2> QED BY <2>1, <2>2, <2>3, <2>4, <2>5, QueueSteps
<1>3. QueueInv'
  BY <1>2, SettlesFinished DEF QueueInv
<1> QED BY <1>2, <1>3

\* A job leaves the queue only when it was handled to its end or has had all
\* its deliveries, for any number of crashes, expired claims and retries.
THEOREM JobsAreHandled == Spec => HandledOrExhausted
<1>1. Init => QueueInv
  BY ConstantsOK DEF Init, QueueInv, Runs
<1>2. Sound /\ QueueInv /\ [Next]_vars => QueueInv'
  BY QueueKept
<1>3. Sound /\ QueueInv /\ [Next]_vars =>
        [\A j \in Jobs : queue[j].state # "none" /\ queue'[j].state = "none" =>
           \/ queue[j].tries = MaxAttempts
           \/ job = j /\ (kind[Worker] = "usage_ingest" => row[Worker] \in {"ok", "partial", "skipped"})]_vars
  BY QueueKept
<1> QED BY <1>1, <1>2, <1>3, AlwaysSound, PTL DEF Spec, HandledOrExhausted

=============================================================================
