------------------------------ MODULE Readers ------------------------------
(***************************************************************************)
(* What the controller reads from outside, as it grows: the conversation   *)
(* logs agents append to, the configuration file an operator edits, and    *)
(* the replies of a provider endpoint that the configuration declares.     *)
(* Each state is one input the readers are given whole; the steps are how  *)
(* inputs come about, so an action property compares a reader's result on  *)
(* an input with its result on the longer one.                             *)
(***************************************************************************)
EXTENDS UsageReport

CONSTANTS
  ClaudeLines, \* lines an agent may append to a Claude log
  CodexLines,  \* lines an agent may append to a Codex log
  Session,     \* the session a log's name gives
  Fallback,    \* the time of a record without a stamp
  Prices,      \* the approved rates
  Now,         \* when the dashboard is opened
  Utc, DefaultBytes, Credentials, MaxHops,  \* see CatalogConfig and CatalogFetch
  Declarations, \* what the file may declare of the catalog's sources
  Replies,     \* replies of the network
  YamlLines,   \* lines of a configuration file
  Unsupported, \* a value the configuration reader has no support for
  MaxLog, MaxLines, MaxReplies  \* bounds on the inputs

Fetch == INSTANCE CatalogFetch
Yaml  == INSTANCE YamlLite

\* A missing credential is not one whose secret is known, sizes are numbers.
ASSUME ReadersOK ==
  /\ None \notin Credentials
  /\ MaxHops \in Nat /\ DefaultBytes \in Nat
  /\ \A d \in Declarations : d = None \/ d.bytes \in {None, Bad} \/ d.bytes \in Int
  /\ \A r \in Replies : r.kind = "answer" => r.chunks \in Seq(Nat)

\* Counters, times, rates and columns are numbers; an unsupported value is there.
ASSUME LinesOK ==
  /\ \A l \in ClaudeLines : l.kind = "usage" =>
       /\ {l.input, l.w5m, l.w1h, l.fallback, l.read, l.output, l.thinking} \subseteq Int
       /\ l.time = None \/ l.time \in Int
  /\ \A l \in CodexLines : l.kind = "usage" =>
       /\ {l.input, l.cached, l.write, l.output, l.reasoning} \subseteq Int
       /\ l.time = None \/ l.time \in Int
  /\ Fallback \in Int /\ Now \in Int
  /\ \A m \in DOMAIN Prices : Prices[m] \in [Parts -> Int]
  /\ \A l \in YamlLines : /\ l.indent \in Nat /\ l.inner \in Nat /\ l.item \in BOOLEAN
                          /\ l.item \/ l.inner = l.indent
  /\ None # Unsupported

VARIABLES
  reading,  \* which reader is given input
  claude, codex, file, declared, replies

vars == <<reading, claude, codex, file, declared, replies>>

Init ==
  /\ reading \in {"logs", "endpoint", "file"}
  /\ claude = <<>> /\ codex = <<>> /\ file = <<>> /\ replies = <<>>
  /\ declared \in (IF reading = "endpoint" THEN Declarations ELSE {None})

\* An agent appends a line to a log (external: the Claude and Codex clients).
AppendClaude(l) ==
  /\ reading = "logs" /\ Len(claude) < MaxLog
  /\ claude' = Append(claude, l)
  /\ UNCHANGED <<reading, codex, file, declared, replies>>

AppendCodex(l) ==
  /\ reading = "logs" /\ Len(codex) < MaxLog
  /\ codex' = Append(codex, l)
  /\ UNCHANGED <<reading, claude, file, declared, replies>>

\* The file gets another line; a rejected file stays rejected.
WriteLine(l) ==
  /\ reading = "file" /\ Len(file) < MaxLines /\ ~Yaml!ParseYaml(file).err
  /\ file' = Append(file, l)
  /\ UNCHANGED <<reading, claude, codex, declared, replies>>

\* The network answers the pending request.
Reply(r) ==
  /\ reading = "endpoint" /\ Len(replies) < MaxReplies
  /\ Fetch!CheckEndpoint(declared, replies).result = "pending"
  /\ replies' = Append(replies, r)
  /\ UNCHANGED <<reading, claude, codex, file, declared>>

Next ==
  \/ \E l \in ClaudeLines : AppendClaude(l)
  \/ \E l \in CodexLines : AppendCodex(l)
  \/ \E l \in YamlLines : WriteLine(l)
  \/ \E r \in Replies : Reply(r)

Spec == Init /\ [][Next]_vars

-----------------------------------------------------------------------------
(* Properties. *)

OfClaude(log) == ParseByPath("claude/projects/", log, Session, Fallback)
OfCodex(log)  == ParseByPath("codex/sessions/", log, Session, Fallback)

\* Every record of a log is accounted for once.
Accounted(report) ==
  report.considered = Cardinality(report.facts) + report.duplicates
                        + report.malformed + report.unknown

\* A Claude event counts with its last record, as the comment on parseClaude
\* says (usage-parse.ts:94), and only with that one: when the last record is
\* malformed no earlier one stands in for it.  No record is lost from the report.
ClaudeIsLastRecord ==
  LET rows   == ReadJsonl(claude)
      events == {i \in DOMAIN rows : rows[i].kind = "usage"}
      final  == {i \in events : \A j \in events :
                   EventKey(rows[i], Session) = EventKey(rows[j], Session) => j <= i}
  IN /\ OfClaude(claude).facts =
          {ClaudeFact(rows[i], Session, Fallback) : i \in {j \in final : ClaudeValid(rows[j])}}
     /\ Accounted(OfClaude(claude))

\* A Codex event counts with its first record whose counters can be read, unless
\* that record names no readable model: re-read and repeated lines do not count
\* twice, and no record is lost from the report.  This is what the code does
\* (usage-parse.ts:225-253).  The documentation counts otherwise
\* (docs/usage-analytics.md:93-103): every new token_count event once, with
\* max(0, input - cached - written) for the uncached part, where the code
\* reports cached + written > input as malformed and drops a later record of
\* the same declared id, whatever its counters, as a duplicate.
CodexIsFirstRecord ==
  LET rows  == ReadJsonl(codex)
      read  == {i \in DOMAIN rows : rows[i].kind = "usage" /\ CodexCounted(rows[i])}
      first == {i \in read : \A j \in read : EventOf(rows[i]) = EventOf(rows[j]) => i <= j}
  IN /\ OfCodex(codex).facts =
          {CodexFact(rows[i], Session, Fallback) : i \in {j \in first : rows[j].model # Bad}}
     /\ Accounted(OfCodex(codex))

\* A fact of a Codex log is final: what is appended later, torn or repeated
\* lines included, neither changes nor withdraws it, so the ledger, which never
\* rewrites the counters of a known fact, agrees with the log.
CodexOnlyGrows == [][OfCodex(codex).facts \subseteq OfCodex(codex').facts]_vars

Sums(groups) == FoldFunction(Plus, NoUsage, groups)

\* A summary counts the same usage by provider, model and bucket, and each fact in
\* the bucket whose hours contain it.
Agrees(s, facts, range) ==
  /\ s.totals = Sums(s.perProvider) /\ s.totals = Sums(s.models)
  /\ \A b \in DOMAIN s.buckets, p \in {"claude", "openai"} :
       s.buckets[b].usage[p] =
         TotalOf({f \in facts : /\ s.buckets[b].start <= f.at
                                /\ f.at < s.buckets[b].start + BucketOf[range]
                                /\ f.provider = p}, Prices)
  /\ s.totals.events >= Cardinality({f \in facts :
                           Now - RangeOf[range] + BucketOf[range] <= f.at + 1 /\ f.at < Now})
  /\ s.totals = Sums([b \in DOMAIN s.buckets |-> Sums(s.buckets[b].usage)])

\* Grouping never changes a total, as analytics.ts:2 says, and each fact is in
\* its bucket.  All that happened in the range up to now is there, but for less
\* than one bucket at its start, which the aligned window leaves out.
TotalsAgree ==
  LET facts == OfClaude(claude).facts \cup OfCodex(codex).facts IN
  \A range \in DOMAIN RangeOf : Agrees(SummarizeUsage(facts, Prices, range, Now), facts, range)

\* The dash, key and value of a line, the key at this column.
TokensAt(l, inner) ==
  (IF l.item THEN <<<<l.indent, "-">>>> ELSE <<>>)
    \o (IF l.key # None THEN <<<<inner, l.key>>>> ELSE <<>>)
    \o (IF l.value # None THEN <<<<inner + 1, l.value>>>> ELSE <<>>)

\* The keys, dashes and values of a line, each with its column.
Tokens(l) == TokensAt(l, l.inner)

\* One blank follows the dash, if there is one.
Tight(l) == l.item => l.inner = l.indent + 2

TokensOf(lines) == FoldLeft(LAMBDA ts, l : ts \o Tokens(l), <<>>, lines)

\* A token is below the nearest tokens before it that start further left.
Depth(ts, i) ==
  Cardinality({j \in 1 .. i - 1 : \A k \in j + 1 .. i : ts[k][1] > ts[j][1]})

\* A place of the document is repeated: its mapping has the key twice.
Twins(node) ==
  \E i, j \in DOMAIN node :
    /\ i < j /\ node[i] = node[j] /\ node[i][2] # "-"
    /\ \A k \in i .. j : node[k][1] >= node[i][1]

\* The reader never loses a part of a file it accepts: the document has every
\* key, dash and value of the file, in order, and no mapping has a key twice.
\* Each is at the depth its column shows, if one blank follows every dash.  (A
\* line below `-   key:` at the very column of the key is read as the key's
\* child, silently, for the reader takes the key to be two columns from the
\* dash; yaml-lite.ts:9-11 says that it never misinterprets a file.)
YamlLosesNothing ==
  LET doc   == Yaml!ParseYaml(file)
      lines == Yaml!Scan(file)
      ts    == TokensOf(lines)
  IN ~doc.err =>
       /\ [i \in DOMAIN doc.node |-> doc.node[i][2]] = [i \in DOMAIN ts |-> ts[i][2]]
       /\ (\A n \in DOMAIN lines : Tight(lines[n])) =>
            doc.node = [i \in DOMAIN ts |-> <<Depth(ts, i), ts[i][2]>>]
       /\ ~Twins(doc.node)

\* A check keeps to the operator's file as it is written, whatever chain of
\* redirects comes back: it asks only an endpoint that the file declares and does
\* not disable, only hosts the file lists and only over https (unless
\* requireHttps is false; where followRedirectsOnlyWithinAllowedHosts is false,
\* redirects are held to neither), a bounded number of times, and never keeps more
\* of a body than the cap.
FetchStaysAllowed ==
  LET f == Fetch!CheckEndpoint(declared, replies)
      free(n) == n > 1 /\ declared.within = FALSE
  IN /\ f.sent # <<>> => /\ declared.head /\ declared.api.enabled # FALSE
                         /\ declared.api.credential \in Credentials
                         /\ f.sent[1] = declared.api.url
     /\ \A n \in DOMAIN f.sent : ~free(n) =>
          /\ f.sent[n].host \in declared.hosts
          /\ f.sent[n].secure \/ declared.https = FALSE
     /\ Len(f.sent) <= MaxHops + 1
     /\ f.bytes > 0 => f.bytes <= IF declared.bytes # None THEN declared.bytes ELSE DefaultBytes
=============================================================================
