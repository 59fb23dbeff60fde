SPECIFICATION FairSpec
CONSTANTS
  d1 = d1
  first = first
  grown = grown
  big = big
  a = a
  b = b
  opus = opus
  bad = bad
  unknown = unknown
  site = site
  Devices = {d1}
  Entries = {first, grown, big}
  Large = {big}
  Listing <- ListingV
  Ids = {a, b}
  Yield <- YieldV
  Models = {opus}
  Rates = {}
  SeedRate <- NoSeed
  Operators = {}
  Worker = Worker
  Sources = {site}
  Offer <- OfferV
  IngestJobs = {j1}
  CheckJobs = {j2}
  MaxAttempts = 2
  MaxCrashes = 1
  None = None
PROPERTIES HandledOrExhausted EventuallyIngested
