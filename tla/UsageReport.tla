---------------------------- MODULE UsageReport ----------------------------
(***************************************************************************)
(* What the dashboard shows of the ledger: costs (prices.ts) and the       *)
(* totals of a time range, by provider, model and bucket (analytics.ts).   *)
(* Facts are the records UsageParse makes; rates are records of            *)
(* micro-dollars per Mtok tokens.                                          *)
(***************************************************************************)
EXTENDS Integers, FiniteSetsExt, Functions, UsageParse

CONSTANTS
  Mtok,       \* tokens a rate is quoted for (a million in the code)
  RangeOf,    \* RangeOf[r]: seconds of range r
  BucketOf    \* bucketSecondsFor

\* A range is a whole number of its buckets (RANGES).
ASSUME ReportOK ==
  /\ Mtok \in Nat \ {0}
  /\ \A r \in DOMAIN RangeOf :
       /\ RangeOf[r] \in Nat /\ BucketOf[r] \in Nat \ {0}
       /\ \E k \in 1 .. RangeOf[r] : RangeOf[r] = k * BucketOf[r]

\* Math.round of a / b, for a >= 0
RoundHalfUp(n, d) == (2 * n + d) \div (2 * d)

\* anthropic: the rates that follow from the input and the output price.
Anthropic(input, output) ==
  [input |-> input, w5m |-> RoundHalfUp(input * 5, 4), w1h |-> input * 2,
   wother |-> RoundHalfUp(input * 5, 4), read |-> RoundHalfUp(input, 10), output |-> output]

Parts == {"input", "w5m", "w1h", "wother", "read", "output"}

\* estimateCostMicroUsd: each part is rounded on its own.
EstimateCost(f, rates) == SumFunction([p \in Parts |-> RoundHalfUp(f[p] * rates[p], Mtok)])

\* uncachedEquivalentMicroUsd
UncachedEquivalent(f, rates) ==
  RoundHalfUp(SumFunction([p \in Parts \ {"output"} |-> f[p]]) * rates.input, Mtok)
    + RoundHalfUp(f.output * rates.output, Mtok)

\* What one fact adds; a model without a price adds no cost.
Contribution(f, prices) ==
  LET priced == f.model \in DOMAIN prices IN
  [cost |-> IF priced THEN EstimateCost(f, prices[f.model]) ELSE 0,
   uncached |-> IF priced THEN UncachedEquivalent(f, prices[f.model]) ELSE 0,
   input |-> f.input, write |-> f.w5m + f.w1h + f.wother, read |-> f.read,
   output |-> f.output, reasoning |-> f.reasoning, events |-> 1]

NoUsage == [cost |-> 0, uncached |-> 0, input |-> 0, write |-> 0, read |-> 0,
            output |-> 0, reasoning |-> 0, events |-> 0]

\* add, and the loop of summarizeUsage over a set of rows
Plus(s, t) == [k \in DOMAIN NoUsage |-> s[k] + t[k]]
TotalOf(rows, prices) ==
  FoldFunction(Plus, NoUsage, [f \in rows |-> Contribution(f, prices)])

ProcessedTokens(t) == t.input + t.write + t.read + t.output

\* Mutant: the window ends with the last full bucket.
WindowEndNow(range, now) == (now \div BucketOf[range]) * BucketOf[range]

\* The window ends on the edge of a bucket.
WindowEnd(range, now) == -((-now) \div BucketOf[range]) * BucketOf[range]
WindowStart(range, now) == WindowEnd(range, now) - RangeOf[range]

Rows(facts, range, now) ==
  {f \in facts : WindowStart(range, now) <= f.at /\ f.at < WindowEnd(range, now)}

BucketIndex(f, range, now) == (f.at - WindowStart(range, now)) \div BucketOf[range]
BucketCount(range) == Max({1, RoundHalfUp(RangeOf[range], BucketOf[range])})

ProviderOf(f) == IF f.provider = "openai" THEN "openai" ELSE "claude"

SummarizeUsage(facts, prices, range, now) ==
  LET rows == Rows(facts, range, now)
      sum(S) == TotalOf(S, prices)
      in(b) == {f \in rows : BucketIndex(f, range, now) = b}
      buckets == 0 .. BucketCount(range) - 1
      models == {f.model : f \in rows}
  IN [totals |-> sum(rows),
      perProvider |-> [p \in {"claude", "openai"} |-> sum({f \in rows : ProviderOf(f) = p})],
      buckets |-> [b \in buckets |->
                     [start |-> WindowStart(range, now) + b * BucketOf[range],
                      usage |-> [p \in {"claude", "openai"} |->
                                   sum({f \in in(b) : ProviderOf(f) = p})]]],
      models |-> [m \in models |-> sum({f \in rows : f.model = m})],
      activeBuckets |-> Cardinality({b \in buckets : ProcessedTokens(sum(in(b))) > 0}),
      unpricedModels |-> models \ DOMAIN prices]
=============================================================================
