---------------------------- MODULE UsageParse ----------------------------
(***************************************************************************)
(* The parsers that turn a conversation log into usage facts               *)
(* (usage-parse.ts).                                                       *)
(*                                                                         *)
(* A log is a sequence of lines.  A line is a record with a field kind:    *)
(*   "torn"   not JSON, or not an object (a partial trailing line)         *)
(*   "other"  a record the parser does not know                            *)
(*   "usage"  a record with token counters.                                *)
(* A counter is an integer; every value counter() rejects is a negative    *)
(* one, and an absent one is 0.  Bad is a model that is not a string.      *)
(***************************************************************************)
EXTENDS Integers, SequencesExt

CONSTANTS
  None,    \* absent
  Bad,     \* a value of the wrong type
  Unknown, \* the model of a record that names none
  MsFloor  \* numeric stamps above it are milliseconds (1e11 in the code)

\* readJsonl
ReadJsonl(lines) ==
  FoldLeft(LAMBDA rows, l : IF l.kind = "torn" THEN rows ELSE Append(rows, l), <<>>, lines)

\* timestampOf
TimestampOf(stamp, fallback) ==
  IF stamp = None THEN fallback ELSE IF stamp > MsFloor THEN stamp \div 1000 ELSE stamp

\* factId: the digest is injective, so its preimage stands for it.
FactId(provider, session, event) == <<provider, session, event>>

ModelOf(row) == IF row.model = None THEN Unknown ELSE row.model

-----------------------------------------------------------------------------
(* Claude project transcripts. *)

SessionOf(row, session) == IF row.session = None THEN session ELSE row.session
EventKey(row, session)  == <<SessionOf(row, session), row.id>>

\* Map.set
Put(map, k, value) == [e \in DOMAIN map \cup {k} |-> IF e = k THEN value ELSE map[e]]

\* Mutant: the first record of an event wins.
SelectFirst(rows, session) ==
  FoldLeft(LAMBDA acc, row :
             IF row.kind # "usage" THEN [acc EXCEPT !.unknown = @ + 1]
             ELSE LET k == EventKey(row, session) IN
                  [acc EXCEPT !.selected = @ @@ (k :> row),
                              !.duplicates = IF k \in DOMAIN acc.selected THEN @ + 1 ELSE @],
           [selected |-> <<>>, duplicates |-> 0, unknown |-> 0], rows)

\* The last record of an event wins.
Select(rows, session) ==
  FoldLeft(LAMBDA acc, row :
             IF row.kind # "usage" THEN [acc EXCEPT !.unknown = @ + 1]
             ELSE LET k == EventKey(row, session) IN
                  [acc EXCEPT !.selected = Put(@, k, row),
                              !.duplicates = IF k \in DOMAIN acc.selected THEN @ + 1 ELSE @],
           [selected |-> <<>>, duplicates |-> 0, unknown |-> 0], rows)

ClaudeValid(row) ==
  /\ row.creation # Bad /\ row.model # Bad
  /\ \A n \in {row.w5m, row.w1h, row.fallback, row.input, row.read, row.output, row.thinking} : n >= 0
  /\ row.thinking <= row.output

ClaudeFact(row, session, fallback) ==
  [id |-> FactId("claude", SessionOf(row, session), row.id), provider |-> "claude",
   model |-> ModelOf(row), at |-> TimestampOf(row.time, fallback),
   input |-> row.input, w5m |-> row.w5m, w1h |-> row.w1h,
   wother |-> IF row.creation = None THEN row.fallback ELSE 0,
   read |-> row.read, output |-> row.output, reasoning |-> row.thinking]

ParseClaude(rows, session, fallback) ==
  LET s  == Select(rows, session)
      ok == {k \in DOMAIN s.selected : ClaudeValid(s.selected[k])}
  IN [facts |-> {ClaudeFact(s.selected[k], session, fallback) : k \in ok},
      considered |-> Len(rows), duplicates |-> s.duplicates,
      malformed |-> Cardinality(DOMAIN s.selected \ ok), unknown |-> s.unknown]

-----------------------------------------------------------------------------
(* Codex session logs. *)

CodexCounted(row) ==
  /\ \A n \in {row.input, row.cached, row.write, row.output, row.reasoning} : n >= 0
  /\ row.cached + row.write <= row.input
  /\ row.reasoning <= row.output

\* The declared event, or one made of the counters and the stamp.
EventOf(row) ==
  IF row.id # None THEN row.id
  ELSE <<row.input, row.cached, row.write, row.output, row.reasoning, row.time>>

CodexFact(row, session, fallback) ==
  [id |-> FactId("openai", session, EventOf(row)), provider |-> "openai",
   model |-> ModelOf(row), at |-> TimestampOf(row.time, fallback),
   input |-> row.input - row.cached - row.write, w5m |-> 0, w1h |-> 0,
   wother |-> row.write, read |-> row.cached,
   output |-> row.output, reasoning |-> row.reasoning]

\* Mutant: the last record of an event wins.
CodexRowLast(acc, row, session, fallback) ==
  LET id == FactId("openai", session, EventOf(row)) IN
  CASE row.kind # "usage"  -> [acc EXCEPT !.unknown = @ + 1]
    [] row.kind = "usage" /\ (~CodexCounted(row) \/ row.model = Bad) ->
         [acc EXCEPT !.malformed = @ + 1]
    [] OTHER -> [acc EXCEPT !.facts = {f \in @ : f.id # id} \cup {CodexFact(row, session, fallback)},
                            !.duplicates = IF \E f \in acc.facts : f.id = id THEN @ + 1 ELSE @]

\* Mutant: an event counts as seen only once it is stored.
CodexRowLate(acc, row, session, fallback) ==
  LET id == FactId("openai", session, EventOf(row)) IN
  CASE row.kind # "usage"  -> [acc EXCEPT !.unknown = @ + 1]
    [] row.kind = "usage" /\ (~CodexCounted(row) \/ row.model = Bad) ->
         [acc EXCEPT !.malformed = @ + 1]
    [] OTHER -> IF id \in acc.seen THEN [acc EXCEPT !.duplicates = @ + 1]
                ELSE [acc EXCEPT !.seen = @ \cup {id},
                                 !.facts = @ \cup {CodexFact(row, session, fallback)}]

\* One record; an event counts as seen before its model is looked at.
CodexRow(acc, row, session, fallback) ==
  LET id == FactId("openai", session, EventOf(row)) IN
  CASE row.kind # "usage"  -> [acc EXCEPT !.unknown = @ + 1]
    [] row.kind = "usage" /\ ~CodexCounted(row) -> [acc EXCEPT !.malformed = @ + 1]
    [] row.kind = "usage" /\ CodexCounted(row) ->
         IF id \in acc.seen THEN [acc EXCEPT !.duplicates = @ + 1]
         ELSE IF row.model = Bad
         THEN [acc EXCEPT !.seen = @ \cup {id}, !.malformed = @ + 1]
         ELSE [acc EXCEPT !.seen = @ \cup {id},
                          !.facts = @ \cup {CodexFact(row, session, fallback)}]

ParseCodex(rows, session, fallback) ==
  LET end == FoldLeft(LAMBDA acc, row : CodexRow(acc, row, session, fallback),
                      [facts |-> {}, seen |-> {}, duplicates |-> 0, malformed |-> 0,
                       unknown |-> 0], rows)
  IN [facts |-> end.facts, considered |-> Len(rows), duplicates |-> end.duplicates,
      malformed |-> end.malformed, unknown |-> end.unknown]

\* parseByPath: the log's place in the manifest chooses the parser.
ParseByPath(place, lines, session, fallback) ==
  CASE place = "claude/projects/" -> ParseClaude(ReadJsonl(lines), session, fallback)
    [] place = "codex/sessions/"  -> ParseCodex(ReadJsonl(lines), session, fallback)
    [] OTHER -> None
=============================================================================
