SPECIFICATION Spec
CONSTANTS
  d1 = d1
  first = first
  grown = grown
  big = big
  a = a
  b = b
  opus = opus
  bad = bad
  unknown = unknown
  site = site
  Devices = {d1}
  Entries = {first, grown, big}
  Large = {big}
  Listing <- ListingV
  Ids = {a, b}
  Yield <- YieldV
  Models = {opus}
  Rates = {2, 5}
  SeedRate <- NoSeed
  Operators = {op}
  Worker = Worker
  Sources = {site}
  Offer <- OfferV
  IngestJobs = {j1}
  CheckJobs = {}
  MaxAttempts = 1
  MaxCrashes = 1
  None = None
INVARIANTS TypeOK QueueIsTrue CostsFollowPrices IngestedIsStored SeenIsQueued
PROPERTIES OkLeavesNothing
