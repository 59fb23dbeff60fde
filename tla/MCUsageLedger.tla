--------------------------- MODULE MCUsageLedger ---------------------------
EXTENDS UsageLedger, TLC

CONSTANTS d1, first, grown, big, a, b, opus, site, bad, unknown

\* One log in two versions, the second beside an object that is too large.
\* Message a is still streaming in the first version.
ListingV == d1 :> <<{first}, {grown, big}>>
YieldV ==
  first :> (a :> [model |-> opus, tokens |-> 1] @@ b :> None) @@
  grown :> (a :> [model |-> opus, tokens |-> 2] @@ b :> [model |-> opus, tokens |-> 1]) @@
  big   :> (a :> None @@ b :> None)
NoSeed == <<>>
OfferV == site :> {opus}

\* What the entries yield is what the parser makes of these logs; the first one
\* ends in a torn line.
Parse == INSTANCE UsageParse WITH Bad <- bad, Unknown <- unknown, MsFloor <- 1000

Row(id, output) ==
  [kind |-> "usage", session |-> None, id |-> id, model |-> opus, time |-> None,
   input |-> 0, creation |-> None, w5m |-> 0, w1h |-> 0, fallback |-> 0, read |-> 0,
   output |-> output, thinking |-> 0]
LogV == first :> <<Row(a, 1), [kind |-> "torn"]>>
          @@ grown :> <<Row(a, 1), Row(a, 2), Row(b, 1)>> @@ big :> <<>>

ASSUME YieldIsParsed == \A e \in Entries, i \in Ids :
  {Yield[e][i]} \ {None} =
    {[model |-> f.model, tokens |-> f.output] :
       f \in {g \in Parse!ParseByPath("claude/projects/", LogV[e], "log", 0).facts : g.id[3] = i}}
=============================================================================
