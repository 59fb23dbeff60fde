----------------------------- MODULE MCReaders -----------------------------
EXTENDS Readers

CONSTANTS s1, m1, m2, opus, codexModel, home, away, x, y, scalar, odd, cred

MessageRow(session, id, input, output, thinking, time) ==
  [kind |-> "usage", session |-> session, id |-> id, model |-> opus, time |-> time,
   input |-> input, creation |-> None, w5m |-> 0, w1h |-> 0, fallback |-> 3, read |-> 5,
   output |-> output, thinking |-> thinking]

\* A message that streams in, another session's message of the same name, a
\* broken counter, and lines that carry no usage.
ClaudeLinesV ==
  {MessageRow(None, m1, 1, 1, 0, 3), MessageRow(None, m1, 2, 5, 4, 4), MessageRow(s1, m1, 7, 0, 0, 6001),
   [MessageRow(None, m1, 2, 2, 3, None) EXCEPT !.model = None],
   [MessageRow(None, m2, 2, 2, 1, None) EXCEPT !.creation = "split", !.w5m = 3, !.w1h = 2, !.model = None],
   [kind |-> "torn"], [kind |-> "other"]}

TurnRow(id, input, cached, output, model, time) ==
  [kind |-> "usage", id |-> id, model |-> model, time |-> time, input |-> input,
   cached |-> cached, write |-> 1, output |-> output, reasoning |-> 1]

\* A turn, its repetition with other counters, one without a model, one that
\* has no name, and lines that carry no usage.
CodexLinesV ==
  {TurnRow(m1, 6, 3, 2, codexModel, 1), TurnRow(m1, 7, 3, 2, opus, 2),
   TurnRow(m1, 4, 1, 1, Bad, 4), TurnRow(m1, 2, 2, 1, codexModel, 4),
   TurnRow(None, 6, 3, 2, opus, 7), [kind |-> "torn"], [kind |-> "other"]}

PricesV == opus :> Anthropic(3, 15)
RangeOfV == [day |-> 5, week |-> 6]
BucketOfV == [day |-> 1, week |-> 3]

YamlLine(mark, indent, item, key, value) ==
  [mark |-> mark, indent |-> indent, item |-> item, key |-> key, value |-> value,
   inner |-> IF item THEN indent + 2 ELSE indent]

\* More blanks after the dash.
Wide(l) == [l EXCEPT !.inner = @ + 2]

YamlLinesV ==
  {YamlLine("text", i, item, key, value) :
     i \in {0, 2, 4}, item \in BOOLEAN, key \in {x, y, None}, value \in {scalar, None}}
  \cup {Wide(YamlLine("text", 0, TRUE, x, value)) : value \in {scalar, None}}
  \cup {YamlLine("text", 0, FALSE, x, Unsupported), YamlLine("start", 0, FALSE, None, None),
        YamlLine("end", 0, FALSE, None, None)}

UrlOf(secure, host) == [secure |-> secure, host |-> host]
EndpointOf(url, enabled, optional, credential) ==
  [url |-> url, enabled |-> enabled, optional |-> optional, credential |-> credential]
EndpointsV ==
  {EndpointOf(UrlOf(secure, host), enabled, None, cred) :
     secure \in BOOLEAN, host \in {home, away}, enabled \in {FALSE, odd}}
  \cup {EndpointOf(UrlOf(TRUE, home), None, optional, credential) :
          optional \in {FALSE, None}, credential \in {None, Bad}}
  \cup {EndpointOf(Bad, None, None, cred), None, Bad}
\* Files with every mixture of fields that are there, absent or mistaken.
DeclarationsV ==
  {None} \cup
  [head : BOOLEAN, timezone : {Utc, odd}, hosts : {None, Bad, {home}, {home, away}},
   bytes : {None, Bad, 2, -1}, https : {FALSE, odd}, within : {FALSE, None}, api : EndpointsV]
RepliesV ==
  {[kind |-> "redirect", location |-> u] :
     u \in {UrlOf(secure, host) : secure \in BOOLEAN, host \in {home, away}} \cup {None}}
  \cup {[kind |-> "answer", declared |-> n, chunks |-> c] :
          n \in {None, 1, 3}, c \in {<<1>>, <<1, 1>>, <<2, 2>>}}
  \cup {[kind |-> "timeout"]}
=============================================================================
