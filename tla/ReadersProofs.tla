--------------------------- MODULE ReadersProofs ---------------------------
(***************************************************************************)
(* What the readers make of a whole input, whatever its length: proofs     *)
(* about Readers by induction over the input.  Each fold of the code is an *)
(* instance of FoldTheory with the invariant that its loop keeps.          *)
(***************************************************************************)
EXTENDS Readers, FiniteSetTheorems, TLAPS

Lines == ClaudeLines \cup CodexLines

(***************************************************************************)
(* Records of a log.                                                       *)
(***************************************************************************)

\* Each record is a line of the log.
From(log, rows) ==
  /\ rows \in Seq(Lines)
  /\ \A i \in DOMAIN rows : \E n \in DOMAIN log : rows[i] = log[n]

Grown(rows, l) == IF l.kind = "torn" THEN rows ELSE Append(rows, l)

Records == INSTANCE FoldTheory WITH
  Op   <- LAMBDA rows, l : Grown(rows, l),
  Base <- <<>>,
  Inv  <- From

\* readJsonl is a loop over the lines.
LEMMA ReadIsFold == \A log : ReadJsonl(log) = Records!Fold(log)
BY DEF ReadJsonl, Grown, FoldLeft, MapThenFoldSet, Max,
       Records!Fold, Records!FoldLeft, Records!MapThenFoldSet, Records!Max

\* An empty log has no records, each line that is not torn adds one, and nothing else does.
LEMMA RecordsOfLog ==
  /\ ReadJsonl(<<>>) = <<>>
  /\ \A log \in Seq(Lines) :
       /\ ReadJsonl(log) \in Seq(Lines)
       /\ \A i \in DOMAIN ReadJsonl(log) : \E n \in DOMAIN log : ReadJsonl(log)[i] = log[n]
  /\ \A log \in Seq(Lines), l \in Lines :
       ReadJsonl(Append(log, l)) =
         IF l.kind = "torn" THEN ReadJsonl(log) ELSE Append(ReadJsonl(log), l)
<1>1. Records!Fold(<<>>) = <<>> BY Records!FoldOfNothing
<1>2. \A log \in Seq(Lines), l \in Lines :
        Records!Fold(Append(log, l)) =
          IF l.kind = "torn" THEN Records!Fold(log) ELSE Append(Records!Fold(log), l)
  BY Records!FoldOfAppend DEF Grown
<1>3. \A log \in Seq(Lines) : From(log, Records!Fold(log))
  <2>1. From(<<>>, <<>>) BY DEF From
  <2>2. ASSUME NEW log \in Seq(Lines), NEW l \in Lines, NEW rows, From(log, rows)
        PROVE  From(Append(log, l), Grown(rows, l))
    <3>1. /\ DOMAIN Append(log, l) = DOMAIN log \cup {Len(log) + 1}
          /\ Append(log, l)[Len(log) + 1] = l
          /\ \A n \in DOMAIN log : Append(log, l)[n] = log[n]
      OBVIOUS
    <3>2. /\ DOMAIN Append(rows, l) = DOMAIN rows \cup {Len(rows) + 1}
          /\ Append(rows, l)[Len(rows) + 1] = l
          /\ \A n \in DOMAIN rows : Append(rows, l)[n] = rows[n]
          /\ Append(rows, l) \in Seq(Lines)
      BY <2>2 DEF From
    <3>3. From(Append(log, l), rows) BY <2>2, <3>1 DEF From
    <3>4. From(Append(log, l), Append(rows, l)) BY <3>1, <3>2, <3>3 DEF From
    <3> QED BY <3>3, <3>4 DEF Grown
  <2> QED BY <2>1, <2>2, Records!FoldKeeps DEF Grown
<1> QED BY <1>1, <1>2, <1>3, ReadIsFold DEF From

(***************************************************************************)
(* Codex logs.                                                             *)
(***************************************************************************)

CodexStart == [facts |-> {}, seen |-> {}, duplicates |-> 0, malformed |-> 0, unknown |-> 0]

\* Records whose counters can be read; the first one of each event; the facts.
ReadAt(rows)  == {i \in DOMAIN rows : rows[i].kind = "usage" /\ CodexCounted(rows[i])}
FirstAt(rows) == {i \in ReadAt(rows) : \A j \in ReadAt(rows) :
                    EventOf(rows[i]) = EventOf(rows[j]) => i <= j}
FactsOf(rows) == {CodexFact(rows[i], Session, Fallback) : i \in {j \in FirstAt(rows) : rows[j].model # Bad}}
IdsOf(rows)   == {FactId("openai", Session, EventOf(rows[i])) : i \in ReadAt(rows)}

\* What parseCodex has after these records.
CodexInv(rows, acc) ==
  /\ acc = [facts |-> acc.facts, seen |-> acc.seen, duplicates |-> acc.duplicates,
            malformed |-> acc.malformed, unknown |-> acc.unknown]
  /\ acc.facts = FactsOf(rows) /\ acc.seen = IdsOf(rows)
  /\ IsFiniteSet(acc.facts)
  /\ acc.duplicates \in Nat /\ acc.malformed \in Nat /\ acc.unknown \in Nat
  /\ Len(rows) = Cardinality(acc.facts) + acc.duplicates + acc.malformed + acc.unknown

Codex == INSTANCE FoldTheory WITH
  Op   <- LAMBDA acc, row : CodexRow(acc, row, Session, Fallback),
  Base <- [facts |-> {}, seen |-> {}, duplicates |-> 0, malformed |-> 0, unknown |-> 0],
  Inv  <- CodexInv

\* parseCodex is a loop over the records.
LEMMA ParseCodexIsFold ==
  \A rows : ParseCodex(rows, Session, Fallback) =
    [facts |-> Codex!Fold(rows).facts, considered |-> Len(rows),
     duplicates |-> Codex!Fold(rows).duplicates, malformed |-> Codex!Fold(rows).malformed,
     unknown |-> Codex!Fold(rows).unknown]
BY DEF ParseCodex, FoldLeft, MapThenFoldSet, Max,
       Codex!Fold, Codex!FoldLeft, Codex!MapThenFoldSet, Codex!Max

\* A record is read, and the first of its event, as before: the new one is when it can be.
LEMMA CodexAppend ==
  ASSUME NEW rows \in Seq(Lines), NEW x \in Lines
  PROVE  LET z    == Append(rows, x)
             read == x.kind = "usage" /\ CodexCounted(x)
             new  == read /\ FactId("openai", Session, EventOf(x)) \notin IdsOf(rows)
         IN /\ IdsOf(z) = IF read THEN IdsOf(rows) \cup {FactId("openai", Session, EventOf(x))}
                          ELSE IdsOf(rows)
            /\ FactsOf(z) = IF new /\ x.model # Bad
                            THEN FactsOf(rows) \cup {CodexFact(x, Session, Fallback)}
                            ELSE FactsOf(rows)
            /\ new => CodexFact(x, Session, Fallback) \notin FactsOf(rows)
<1> DEFINE z == Append(rows, x)
           n == Len(rows) + 1
           read == x.kind = "usage" /\ CodexCounted(x)
           new == read /\ FactId("openai", Session, EventOf(x)) \notin IdsOf(rows)
<1>1. /\ DOMAIN rows = 1 .. Len(rows) /\ DOMAIN z = DOMAIN rows \cup {n}
      /\ z[n] = x /\ \A i \in DOMAIN rows : z[i] = rows[i] /\ i < n /\ i \in Nat
      /\ n \notin DOMAIN rows /\ n \in Nat
  OBVIOUS
<1> HIDE DEF z, n
<1>2. ReadAt(z) = IF read THEN ReadAt(rows) \cup {n} ELSE ReadAt(rows) BY <1>1 DEF ReadAt
<1>3. \A i \in ReadAt(rows) : i \in DOMAIN rows BY DEF ReadAt
<1>4. new <=> read /\ \A i \in ReadAt(rows) : EventOf(rows[i]) # EventOf(x)
  BY DEF IdsOf, FactId
<1>5. FirstAt(z) = IF new THEN FirstAt(rows) \cup {n} ELSE FirstAt(rows)
  <2> HIDE DEF new, read
  <2>1. CASE ~read
    <3>1. \A i \in ReadAt(rows) : z[i] = rows[i] BY <1>1, <1>3
    <3>2. ReadAt(z) = ReadAt(rows) /\ ~new BY <1>2, <1>4, <2>1
    <3> QED BY <3>1, <3>2 DEF FirstAt
  <2>2. CASE read /\ ~new
    <3>1. PICK k \in ReadAt(rows) : EventOf(rows[k]) = EventOf(x) BY <1>4, <2>2
    <3>2. n \notin FirstAt(z) BY <1>1, <1>2, <1>3, <2>2, <3>1 DEF FirstAt
    <3>3. \A i \in ReadAt(rows) : i \in FirstAt(z) <=> i \in FirstAt(rows)
      BY <1>1, <1>2, <1>3, <2>2 DEF FirstAt
    <3>4. FirstAt(rows) \subseteq ReadAt(rows) /\ FirstAt(z) \subseteq ReadAt(rows) \cup {n}
      BY <1>2, <2>2 DEF FirstAt
    <3>5. FirstAt(z) = FirstAt(rows) BY <3>2, <3>3, <3>4
    <3> QED BY <2>2, <3>5
  <2>3. CASE new
    <3>1. read /\ \A i \in ReadAt(rows) : EventOf(rows[i]) # EventOf(x) BY <1>4, <2>3
    <3>2. n \in FirstAt(z) BY <1>1, <1>2, <1>3, <3>1 DEF FirstAt
    <3>3. \A i \in ReadAt(rows) : i \in FirstAt(z) <=> i \in FirstAt(rows)
      BY <1>1, <1>2, <1>3, <3>1 DEF FirstAt
    <3>4. FirstAt(rows) \subseteq ReadAt(rows) /\ FirstAt(z) \subseteq ReadAt(rows) \cup {n}
      BY <1>2, <3>1 DEF FirstAt
    <3>5. FirstAt(z) = FirstAt(rows) \cup {n} BY <3>2, <3>3, <3>4
    <3> QED BY <2>3, <3>5
  <2> QED BY <2>1, <2>2, <2>3
<1>6. \A i \in ReadAt(rows) : z[i] = rows[i] BY <1>1, <1>3
<1>7. FirstAt(rows) \subseteq ReadAt(rows) BY DEF FirstAt
<1>8. IdsOf(z) = IF read THEN IdsOf(rows) \cup {FactId("openai", Session, EventOf(x))}
                 ELSE IdsOf(rows)
  BY <1>1, <1>2, <1>6 DEF IdsOf
<1>9. FactsOf(z) = IF new /\ x.model # Bad
                   THEN FactsOf(rows) \cup {CodexFact(x, Session, Fallback)} ELSE FactsOf(rows)
  <2> HIDE DEF new, read
  <2> QED BY <1>1, <1>5, <1>6, <1>7 DEF FactsOf
<1>10. new => CodexFact(x, Session, Fallback) \notin FactsOf(rows)
  <2>1. \A i \in ReadAt(rows) : CodexFact(rows[i], Session, Fallback).id \in IdsOf(rows)
    BY DEF CodexFact, IdsOf
  <2>2. CodexFact(x, Session, Fallback).id = FactId("openai", Session, EventOf(x)) BY DEF CodexFact
  <2> QED BY <1>7, <2>1, <2>2 DEF FactsOf
<1> QED BY <1>8, <1>9, <1>10 DEF z

CodexAcc(facts, seen, d, m, u) ==
  [facts |-> facts, seen |-> seen, duplicates |-> d, malformed |-> m, unknown |-> u]

\* The parts of CodexInv make it.
LEMMA CodexInvOf ==
  ASSUME NEW rows, NEW facts, NEW seen, NEW d \in Nat, NEW m \in Nat, NEW u \in Nat,
         facts = FactsOf(rows), seen = IdsOf(rows), IsFiniteSet(facts),
         Len(rows) = Cardinality(facts) + d + m + u
  PROVE  CodexInv(rows, CodexAcc(facts, seen, d, m, u))
BY DEF CodexInv, CodexAcc

\* The loop of parseCodex keeps CodexInv.
LEMMA CodexRead ==
  ASSUME NEW rows \in Seq(Lines)
  PROVE  CodexInv(rows, Codex!Fold(rows))
<1>1. CodexInv(<<>>, CodexStart)
  <2>1. ReadAt(<<>>) = {} /\ FirstAt(<<>>) = {} BY DEF ReadAt, FirstAt
  <2>2. FactsOf(<<>>) = {} /\ IdsOf(<<>>) = {} BY <2>1 DEF FactsOf, IdsOf
  <2> QED BY <2>2, FS_EmptySet DEF CodexInv, CodexStart
<1>2. ASSUME NEW z \in Seq(Lines), NEW x \in Lines, NEW acc, CodexInv(z, acc)
      PROVE  CodexInv(Append(z, x), CodexRow(acc, x, Session, Fallback))
  <2> DEFINE id == FactId("openai", Session, EventOf(x))
             fact == CodexFact(x, Session, Fallback)
             read == x.kind = "usage" /\ CodexCounted(x)
             next == CodexRow(acc, x, Session, Fallback)
             y == Append(z, x)
  <2>1. Len(y) = Len(z) + 1 /\ Len(z) \in Nat OBVIOUS
  <2>2. /\ IdsOf(y) = IF read THEN IdsOf(z) \cup {id} ELSE IdsOf(z)
        /\ FactsOf(y) = IF read /\ id \notin IdsOf(z) /\ x.model # Bad
                        THEN FactsOf(z) \cup {fact} ELSE FactsOf(z)
        /\ read /\ id \notin IdsOf(z) => fact \notin FactsOf(z)
    BY CodexAppend
  <2>3. /\ acc = [facts |-> acc.facts, seen |-> acc.seen, duplicates |-> acc.duplicates,
                  malformed |-> acc.malformed, unknown |-> acc.unknown]
        /\ acc.facts = FactsOf(z) /\ acc.seen = IdsOf(z) /\ IsFiniteSet(acc.facts)
        /\ acc.duplicates \in Nat /\ acc.malformed \in Nat /\ acc.unknown \in Nat
        /\ Len(z) = Cardinality(acc.facts) + acc.duplicates + acc.malformed + acc.unknown
    BY <1>2 DEF CodexInv
  <2>4. /\ IsFiniteSet(acc.facts \cup {fact}) /\ Cardinality(acc.facts) \in Nat
        /\ fact \notin acc.facts => Cardinality(acc.facts \cup {fact}) = Cardinality(acc.facts) + 1
    BY <2>3, FS_AddElement, FS_CardinalityType
  <2>5. next = CASE x.kind # "usage" -> [acc EXCEPT !.unknown = @ + 1]
                 [] x.kind = "usage" /\ ~CodexCounted(x) -> [acc EXCEPT !.malformed = @ + 1]
                 [] x.kind = "usage" /\ CodexCounted(x) ->
                      IF id \in acc.seen THEN [acc EXCEPT !.duplicates = @ + 1]
                      ELSE IF x.model = Bad
                      THEN [acc EXCEPT !.seen = @ \cup {id}, !.malformed = @ + 1]
                      ELSE [acc EXCEPT !.seen = @ \cup {id}, !.facts = @ \cup {fact}]
    BY DEF CodexRow
  <2> HIDE DEF next, id, fact, y
  <2>6. SUFFICES CodexInv(y, next) BY DEF y, next
  <2> DEFINE d == acc.duplicates + 1  m == acc.malformed + 1  u == acc.unknown + 1
  <2>a. d \in Nat /\ m \in Nat /\ u \in Nat BY <2>3
  <2>7. CASE x.kind # "usage"
    <3>1. next = CodexAcc(acc.facts, acc.seen, acc.duplicates, acc.malformed, acc.unknown + 1)
      BY <2>3, <2>5, <2>7 DEF CodexAcc
    <3>2. IdsOf(y) = acc.seen /\ FactsOf(y) = acc.facts BY <2>2, <2>3, <2>7
    <3>3. Len(y) = Cardinality(acc.facts) + acc.duplicates + acc.malformed + (acc.unknown + 1)
      BY <2>1, <2>3, <2>4
    <3> QED BY <2>3, <2>a, <3>1, <3>2, <3>3, CodexInvOf
  <2>8. CASE x.kind = "usage" /\ ~CodexCounted(x)
    <3>1. next = CodexAcc(acc.facts, acc.seen, acc.duplicates, acc.malformed + 1, acc.unknown)
      BY <2>3, <2>5, <2>8 DEF CodexAcc
    <3>2. IdsOf(y) = acc.seen /\ FactsOf(y) = acc.facts BY <2>2, <2>3, <2>8
    <3>3. Len(y) = Cardinality(acc.facts) + acc.duplicates + (acc.malformed + 1) + acc.unknown
      BY <2>1, <2>3, <2>4
    <3> QED BY <2>3, <2>a, <3>1, <3>2, <3>3, CodexInvOf
  <2>9. CASE read /\ id \in acc.seen
    <3>1. next = CodexAcc(acc.facts, acc.seen, acc.duplicates + 1, acc.malformed, acc.unknown)
      BY <2>3, <2>5, <2>9 DEF CodexAcc
    <3>2. IdsOf(y) = acc.seen /\ FactsOf(y) = acc.facts BY <2>2, <2>3, <2>9
    <3>3. Len(y) = Cardinality(acc.facts) + (acc.duplicates + 1) + acc.malformed + acc.unknown
      BY <2>1, <2>3, <2>4
    <3> QED BY <2>3, <2>a, <3>1, <3>2, <3>3, CodexInvOf
  <2>10. CASE read /\ id \notin acc.seen /\ x.model = Bad
    <3>1. next = CodexAcc(acc.facts, acc.seen \cup {id}, acc.duplicates, acc.malformed + 1, acc.unknown)
      BY <2>3, <2>5, <2>10 DEF CodexAcc
    <3>2. IdsOf(y) = acc.seen \cup {id} /\ FactsOf(y) = acc.facts BY <2>2, <2>3, <2>10
    <3>3. Len(y) = Cardinality(acc.facts) + acc.duplicates + (acc.malformed + 1) + acc.unknown
      BY <2>1, <2>3, <2>4
    <3> QED BY <2>3, <2>a, <3>1, <3>2, <3>3, CodexInvOf
  <2>11. CASE read /\ id \notin acc.seen /\ x.model # Bad
    <3>1. next = CodexAcc(acc.facts \cup {fact}, acc.seen \cup {id}, acc.duplicates, acc.malformed,
                      acc.unknown)
      BY <2>3, <2>5, <2>11 DEF CodexAcc
    <3>2. IdsOf(y) = acc.seen \cup {id} /\ FactsOf(y) = acc.facts \cup {fact}
          /\ fact \notin acc.facts
      BY <2>2, <2>3, <2>11
    <3>3. Len(y) = Cardinality(acc.facts \cup {fact}) + acc.duplicates + acc.malformed + acc.unknown
      BY <2>1, <2>3, <2>4, <3>2
    <3> QED BY <2>3, <2>a, <2>4, <3>1, <3>2, <3>3, CodexInvOf
  <2> QED BY <2>7, <2>8, <2>9, <2>10, <2>11
<1> QED BY <1>1, <1>2, Codex!FoldKeeps DEF CodexStart

(***************************************************************************)
(* The inputs of a behaviour.                                              *)
(***************************************************************************)

InputsOK ==
  /\ claude \in Seq(Lines) /\ codex \in Seq(Lines)
  /\ \A n \in DOMAIN claude : claude[n] \in ClaudeLines
  /\ \A n \in DOMAIN codex : codex[n] \in CodexLines
  /\ declared \in Declarations \cup {None} /\ replies \in Seq(Replies)
  /\ file \in Seq(YamlLines)

\* Every input is made of what its source may send.
LEMMA InputsAreOK == Spec => []InputsOK
<1>1. Init => InputsOK BY DEF Init, InputsOK
<1>2. InputsOK /\ [Next]_vars => InputsOK'
  <2> SUFFICES ASSUME InputsOK, [Next]_vars PROVE InputsOK' OBVIOUS
  <2>1. ASSUME NEW l \in ClaudeLines, AppendClaude(l) PROVE InputsOK'
    BY <2>1 DEF InputsOK, AppendClaude, Lines
  <2>2. ASSUME NEW l \in CodexLines, AppendCodex(l) PROVE InputsOK'
    BY <2>2 DEF InputsOK, AppendCodex, Lines
  <2>3. ASSUME NEW r \in Replies, Reply(r) PROVE InputsOK'
    BY <2>3 DEF InputsOK, Reply
  <2>4. ASSUME NEW l \in YamlLines, WriteLine(l) PROVE InputsOK'
    BY <2>4 DEF InputsOK, WriteLine
  <2>5. CASE UNCHANGED vars BY <2>5 DEF InputsOK, vars
  <2> QED BY <2>1, <2>2, <2>3, <2>4, <2>5 DEF Next
<1> QED BY <1>1, <1>2, PTL DEF Spec

\* A Codex event counts with its first record that can be read, and each record
\* is accounted for once, in a log of any length.
THEOREM CodexFirst == Spec => []CodexIsFirstRecord
<1>1. InputsOK => CodexIsFirstRecord
  <2> SUFFICES ASSUME InputsOK PROVE CodexIsFirstRecord OBVIOUS
  <2> DEFINE rows == ReadJsonl(codex)
  <2>1. rows \in Seq(Lines) BY RecordsOfLog DEF InputsOK
  <2>2. CodexInv(rows, Codex!Fold(rows)) BY <2>1, CodexRead
  <2>3. OfCodex(codex) = ParseCodex(rows, Session, Fallback) BY DEF OfCodex, ParseByPath
  <2>4. /\ OfCodex(codex).facts = FactsOf(rows)
        /\ Accounted(OfCodex(codex))
    BY <2>2, <2>3, ParseCodexIsFold DEF CodexInv, Accounted
  <2> HIDE DEF rows
  <2> QED BY <2>4 DEF CodexIsFirstRecord, FactsOf, FirstAt, ReadAt, rows
<1> QED BY <1>1, InputsAreOK, PTL

\* What is appended to a Codex log adds facts to those it has, and takes none away.
LEMMA CodexFactsStay ==
  ASSUME NEW log \in Seq(Lines), NEW l \in Lines
  PROVE  OfCodex(log).facts \subseteq OfCodex(Append(log, l)).facts
<1>1. \A z \in Seq(Lines) : OfCodex(z).facts = FactsOf(ReadJsonl(z))
  <2> SUFFICES ASSUME NEW z \in Seq(Lines) PROVE OfCodex(z).facts = FactsOf(ReadJsonl(z)) OBVIOUS
  <2>1. CodexInv(ReadJsonl(z), Codex!Fold(ReadJsonl(z))) BY RecordsOfLog, CodexRead
  <2>2. OfCodex(z) = ParseCodex(ReadJsonl(z), Session, Fallback) BY DEF OfCodex, ParseByPath
  <2> QED BY <2>1, <2>2, ParseCodexIsFold DEF CodexInv
<1>2. Append(log, l) \in Seq(Lines) OBVIOUS
<1>3. CASE l.kind = "torn" BY <1>1, <1>2, <1>3, RecordsOfLog
<1>4. CASE l.kind # "torn"
  <2>1. ReadJsonl(Append(log, l)) = Append(ReadJsonl(log), l) BY <1>4, RecordsOfLog
  <2>2. ReadJsonl(log) \in Seq(Lines) BY RecordsOfLog
  <2>3. FactsOf(ReadJsonl(log)) \subseteq FactsOf(Append(ReadJsonl(log), l)) BY <2>2, CodexAppend
  <2> QED BY <1>1, <1>2, <2>1, <2>3
<1> QED BY <1>3, <1>4

\* The facts of a Codex log are final.
THEOREM CodexGrows == Spec => CodexOnlyGrows
<1>1. InputsOK /\ [Next]_vars => OfCodex(codex).facts \subseteq OfCodex(codex').facts
  <2> SUFFICES ASSUME InputsOK, [Next]_vars
               PROVE  OfCodex(codex).facts \subseteq OfCodex(codex').facts
    OBVIOUS
  <2>1. ASSUME NEW l \in CodexLines, AppendCodex(l)
        PROVE  OfCodex(codex).facts \subseteq OfCodex(codex').facts
    <3>1. codex' = Append(codex, l) /\ codex \in Seq(Lines) /\ l \in Lines
      BY <2>1 DEF AppendCodex, InputsOK, Lines
    <3> QED BY <3>1, CodexFactsStay
  <2>2. CASE codex' = codex BY <2>2
  <2> QED BY <2>1, <2>2 DEF Next, AppendClaude, WriteLine, Reply, vars
<1> QED BY <1>1, InputsAreOK, PTL DEF Spec, CodexOnlyGrows

(***************************************************************************)
(* Claude logs.                                                            *)
(***************************************************************************)

ClaudeStart == [selected |-> <<>>, duplicates |-> 0, unknown |-> 0]

KeyAt(rows, i) == EventKey(rows[i], Session)

\* Records with counters; the last one of each event.
EventAt(rows) == {i \in DOMAIN rows : rows[i].kind = "usage"}
FinalAt(rows) == {i \in EventAt(rows) : \A j \in EventAt(rows) :
                    KeyAt(rows, i) = KeyAt(rows, j) => j <= i}
KeysOf(rows)  == {KeyAt(rows, i) : i \in EventAt(rows)}

\* What the loop of parseClaude has selected after these records.
ClaudeInv(rows, acc) ==
  /\ acc = [selected |-> acc.selected, duplicates |-> acc.duplicates, unknown |-> acc.unknown]
  /\ DOMAIN acc.selected = KeysOf(rows)
  /\ \A k \in KeysOf(rows) : \E i \in FinalAt(rows) : KeyAt(rows, i) = k
  /\ \A i \in FinalAt(rows) : acc.selected[KeyAt(rows, i)] = rows[i]
  /\ IsFiniteSet(KeysOf(rows))
  /\ acc.duplicates \in Nat /\ acc.unknown \in Nat
  /\ Len(rows) = Cardinality(KeysOf(rows)) + acc.duplicates + acc.unknown

SelectRow(acc, row) ==
  IF row.kind # "usage" THEN [acc EXCEPT !.unknown = @ + 1]
  ELSE LET k == EventKey(row, Session) IN
       [acc EXCEPT !.selected = Put(@, k, row),
                   !.duplicates = IF k \in DOMAIN acc.selected THEN @ + 1 ELSE @]

Claude == INSTANCE FoldTheory WITH
  Op   <- LAMBDA acc, row : SelectRow(acc, row),
  Base <- [selected |-> <<>>, duplicates |-> 0, unknown |-> 0],
  Inv  <- ClaudeInv

\* parseClaude selects in a loop over the records.
LEMMA SelectIsFold == \A rows : Select(rows, Session) = Claude!Fold(rows)
BY DEF Select, SelectRow, FoldLeft, MapThenFoldSet, Max,
       Claude!Fold, Claude!FoldLeft, Claude!MapThenFoldSet, Claude!Max

\* The last record of each event, when another record follows.
LEMMA ClaudeAppend ==
  ASSUME NEW rows \in Seq(Lines), NEW x \in Lines
  PROVE  LET z == Append(rows, x)
             n == Len(rows) + 1
             k == EventKey(x, Session)
         IN /\ x.kind # "usage" => KeysOf(z) = KeysOf(rows) /\ FinalAt(z) = FinalAt(rows)
            /\ x.kind = "usage" =>
                 /\ KeysOf(z) = KeysOf(rows) \cup {k}
                 /\ FinalAt(z) = {i \in FinalAt(rows) : KeyAt(rows, i) # k} \cup {n}
            /\ \A i \in FinalAt(rows) : KeyAt(z, i) = KeyAt(rows, i) /\ z[i] = rows[i]
            /\ KeyAt(z, n) = k /\ z[n] = x
<1> DEFINE z == Append(rows, x)
           n == Len(rows) + 1
           k == EventKey(x, Session)
<1>1. /\ DOMAIN rows = 1 .. Len(rows) /\ DOMAIN z = DOMAIN rows \cup {n}
      /\ z[n] = x /\ \A i \in DOMAIN rows : z[i] = rows[i] /\ i < n /\ i \in Nat
      /\ n \notin DOMAIN rows /\ n \in Nat
  OBVIOUS
<1> HIDE DEF z, n
<1>2. EventAt(z) = IF x.kind = "usage" THEN EventAt(rows) \cup {n} ELSE EventAt(rows)
  BY <1>1 DEF EventAt
<1>3. \A i \in EventAt(rows) : i \in DOMAIN rows /\ KeyAt(z, i) = KeyAt(rows, i) /\ z[i] = rows[i]
  BY <1>1 DEF EventAt, KeyAt
<1>4. KeyAt(z, n) = k BY <1>1 DEF KeyAt
<1>5. FinalAt(rows) \subseteq EventAt(rows) BY DEF FinalAt
<1> HIDE DEF k
<1>6. CASE x.kind # "usage"
  <2>1. EventAt(z) = EventAt(rows) BY <1>2, <1>6
  <2>2. KeysOf(z) = KeysOf(rows) BY <1>3, <2>1 DEF KeysOf
  <2>3. FinalAt(z) = FinalAt(rows) BY <1>3, <2>1 DEF FinalAt
  <2> QED BY <1>1, <1>3, <1>4, <1>5, <1>6, <2>2, <2>3 DEF z, n, k
<1>7. CASE x.kind = "usage"
  <2>1. EventAt(z) = EventAt(rows) \cup {n} BY <1>2, <1>7
  <2>2. KeysOf(z) = KeysOf(rows) \cup {k} BY <1>3, <1>4, <2>1 DEF KeysOf
  <2>3. n \in FinalAt(z) BY <1>1, <1>3, <2>1 DEF FinalAt
  <2>4. \A i \in EventAt(rows) : i \in FinalAt(z) <=> i \in FinalAt(rows) /\ KeyAt(rows, i) # k
    BY <1>1, <1>3, <1>4, <2>1 DEF FinalAt
  <2>5. FinalAt(z) \subseteq EventAt(rows) \cup {n} BY <2>1 DEF FinalAt
  <2>6. FinalAt(z) = {i \in FinalAt(rows) : KeyAt(rows, i) # k} \cup {n}
    BY <1>5, <2>3, <2>4, <2>5
  <2> QED BY <1>1, <1>3, <1>4, <1>5, <1>7, <2>2, <2>6 DEF z, n, k
<1> QED BY <1>6, <1>7

\* The loop of parseClaude keeps ClaudeInv.
LEMMA ClaudeSelected ==
  ASSUME NEW rows \in Seq(Lines)
  PROVE  ClaudeInv(rows, Claude!Fold(rows))
<1>1. ClaudeInv(<<>>, ClaudeStart)
  <2>1. EventAt(<<>>) = {} /\ FinalAt(<<>>) = {} BY DEF EventAt, FinalAt
  <2>2. KeysOf(<<>>) = {} BY <2>1 DEF KeysOf
  <2>3. /\ ClaudeStart.selected = <<>> /\ ClaudeStart.duplicates = 0 /\ ClaudeStart.unknown = 0
        /\ ClaudeStart = [selected |-> <<>>, duplicates |-> 0, unknown |-> 0]
    BY DEF ClaudeStart
  <2>4. DOMAIN <<>> = {} /\ Len(<<>>) = 0 OBVIOUS
  <2>5. IsFiniteSet(KeysOf(<<>>)) /\ Cardinality(KeysOf(<<>>)) = 0 BY <2>2, FS_EmptySet
  <2> QED BY <2>1, <2>2, <2>3, <2>4, <2>5 DEF ClaudeInv
<1>2. ASSUME NEW z \in Seq(Lines), NEW x \in Lines, NEW acc, ClaudeInv(z, acc)
      PROVE  ClaudeInv(Append(z, x), SelectRow(acc, x))
  <2> DEFINE y == Append(z, x)
             n == Len(z) + 1
             k == EventKey(x, Session)
             next == SelectRow(acc, x)
  <2>1. Len(y) = n /\ n = Len(z) + 1 /\ Len(z) \in Nat OBVIOUS
  <2>2. /\ x.kind # "usage" => KeysOf(y) = KeysOf(z) /\ FinalAt(y) = FinalAt(z)
        /\ x.kind = "usage" =>
             /\ KeysOf(y) = KeysOf(z) \cup {k}
             /\ FinalAt(y) = {i \in FinalAt(z) : KeyAt(z, i) # k} \cup {n}
        /\ \A i \in FinalAt(z) : KeyAt(y, i) = KeyAt(z, i) /\ y[i] = z[i]
        /\ KeyAt(y, n) = k /\ y[n] = x
    BY ClaudeAppend
  <2>3. /\ acc = [selected |-> acc.selected, duplicates |-> acc.duplicates, unknown |-> acc.unknown]
        /\ DOMAIN acc.selected = KeysOf(z)
        /\ \A e \in KeysOf(z) : \E i \in FinalAt(z) : KeyAt(z, i) = e
        /\ \A i \in FinalAt(z) : acc.selected[KeyAt(z, i)] = z[i]
        /\ IsFiniteSet(KeysOf(z))
        /\ acc.duplicates \in Nat /\ acc.unknown \in Nat
        /\ Len(z) = Cardinality(KeysOf(z)) + acc.duplicates + acc.unknown
    BY <1>2 DEF ClaudeInv
  <2>4. next = IF x.kind # "usage" THEN [acc EXCEPT !.unknown = @ + 1]
               ELSE [acc EXCEPT !.selected = Put(@, k, x),
                                !.duplicates = IF k \in DOMAIN acc.selected THEN @ + 1 ELSE @]
    BY DEF SelectRow
  <2>5. /\ IsFiniteSet(KeysOf(z) \cup {k}) /\ Cardinality(KeysOf(z)) \in Nat
        /\ Cardinality(KeysOf(z) \cup {k}) =
             IF k \in KeysOf(z) THEN Cardinality(KeysOf(z)) ELSE Cardinality(KeysOf(z)) + 1
    BY <2>3, FS_AddElement, FS_CardinalityType
  <2>6. SUFFICES ClaudeInv(y, next) BY DEF y, next
  <2> HIDE DEF y, n, k, next
  <2>7. CASE x.kind # "usage"
    <3>1. next = [selected |-> acc.selected, duplicates |-> acc.duplicates,
                  unknown |-> acc.unknown + 1]
      BY <2>3, <2>4, <2>7
    <3>2. KeysOf(y) = KeysOf(z) /\ FinalAt(y) = FinalAt(z) BY <2>2, <2>7
    <3>3. Len(y) = Cardinality(KeysOf(y)) + acc.duplicates + (acc.unknown + 1)
      BY <2>1, <2>3, <2>5, <3>2
    <3> QED BY <2>2, <2>3, <3>1, <3>2, <3>3 DEF ClaudeInv
  <2>8. CASE x.kind = "usage"
    <3> DEFINE map == Put(acc.selected, k, x)
               d   == IF k \in KeysOf(z) THEN acc.duplicates + 1 ELSE acc.duplicates
    <3>1. next = [selected |-> map, duplicates |-> d, unknown |-> acc.unknown]
      BY <2>3, <2>4, <2>8
    <3>2. KeysOf(y) = KeysOf(z) \cup {k}
          /\ FinalAt(y) = {i \in FinalAt(z) : KeyAt(z, i) # k} \cup {n}
      BY <2>2, <2>8
    <3>3. DOMAIN map = KeysOf(y) BY <2>3, <3>2 DEF Put
    <3>4. map[k] = x /\ \A e \in KeysOf(z) : e # k => map[e] = acc.selected[e]
      BY <2>3 DEF Put
    <3>5. d \in Nat BY <2>3
    <3>6. Len(y) = Cardinality(KeysOf(y)) + d + acc.unknown
      BY <2>1, <2>3, <2>5, <3>2
    <3> HIDE DEF map, d
    <3>7. \A e \in KeysOf(y) : \E i \in FinalAt(y) : KeyAt(y, i) = e BY <2>2, <2>3, <3>2
    <3>8. ASSUME NEW i \in FinalAt(y) PROVE map[KeyAt(y, i)] = y[i]
      <4>1. CASE i = n BY <2>2, <3>4, <4>1
      <4>2. CASE i \in FinalAt(z) /\ KeyAt(z, i) # k
        <5>1. KeyAt(z, i) \in KeysOf(z) BY <4>2 DEF KeysOf, FinalAt
        <5> QED BY <2>2, <2>3, <3>4, <4>2, <5>1
      <4> QED BY <3>2, <4>1, <4>2
    <3> QED BY <2>3, <2>5, <3>1, <3>2, <3>3, <3>5, <3>6, <3>7, <3>8 DEF ClaudeInv
  <2> QED BY <2>7, <2>8
<1> QED BY <1>1, <1>2, Claude!FoldKeeps DEF ClaudeStart

\* Parsed facts are those of the last records that can be used, and as many.
LEMMA ClaudeFacts ==
  ASSUME NEW rows \in Seq(Lines)
  PROVE  LET p == ParseClaude(rows, Session, Fallback)
         IN /\ p.facts = {ClaudeFact(rows[i], Session, Fallback) :
                            i \in {j \in FinalAt(rows) : ClaudeValid(rows[j])}}
            /\ Accounted(p)
<1> DEFINE s == Select(rows, Session)
           ok == {k \in DOMAIN s.selected : ClaudeValid(s.selected[k])}
           made(k) == ClaudeFact(s.selected[k], Session, Fallback)
           facts == {made(k) : k \in ok}
           p == ParseClaude(rows, Session, Fallback)
<1>1. ClaudeInv(rows, s) BY ClaudeSelected, SelectIsFold
<1>2. p = [facts |-> facts, considered |-> Len(rows), duplicates |-> s.duplicates,
           malformed |-> Cardinality(DOMAIN s.selected \ ok), unknown |-> s.unknown]
  BY DEF ParseClaude
<1> HIDE DEF s
<1>3. /\ DOMAIN s.selected = KeysOf(rows) /\ IsFiniteSet(KeysOf(rows))
      /\ \A k \in KeysOf(rows) : \E i \in FinalAt(rows) : KeyAt(rows, i) = k
      /\ \A i \in FinalAt(rows) : s.selected[KeyAt(rows, i)] = rows[i]
      /\ \A i \in FinalAt(rows) : KeyAt(rows, i) \in KeysOf(rows)
      /\ s.duplicates \in Nat /\ s.unknown \in Nat
      /\ Len(rows) = Cardinality(KeysOf(rows)) + s.duplicates + s.unknown
  BY <1>1 DEF ClaudeInv, KeysOf, FinalAt
<1>4. facts = {ClaudeFact(rows[i], Session, Fallback) :
                 i \in {j \in FinalAt(rows) : ClaudeValid(rows[j])}}
  <2>1. ASSUME NEW k \in ok
        PROVE  \E i \in {j \in FinalAt(rows) : ClaudeValid(rows[j])} :
                 made(k) = ClaudeFact(rows[i], Session, Fallback)
    BY <1>3, <2>1
  <2>2. ASSUME NEW i \in {j \in FinalAt(rows) : ClaudeValid(rows[j])}
        PROVE  \E k \in ok : made(k) = ClaudeFact(rows[i], Session, Fallback)
    <3>1. KeyAt(rows, i) \in ok BY <1>3
    <3> QED BY <1>3, <3>1
  <2> QED BY <2>1, <2>2
\* A fact has the key of its record in its id.
<1>5. \A j, k \in ok : made(j) = made(k) => j = k
  <2>1. ASSUME NEW k \in ok
        PROVE  made(k).id = <<"claude", k[1], k[2]>> /\ k = <<k[1], k[2]>>
    <3>1. PICK i \in FinalAt(rows) : k = KeyAt(rows, i) /\ s.selected[k] = rows[i] BY <1>3
    <3>2. k = <<SessionOf(rows[i], Session), rows[i].id>> BY <3>1 DEF KeyAt, EventKey
    <3>3. made(k).id = <<"claude", SessionOf(rows[i], Session), rows[i].id>>
      BY <3>1 DEF ClaudeFact, FactId
    <3> QED BY <3>2, <3>3
  <2> QED BY <2>1
<1>6. /\ IsFiniteSet(ok) /\ IsFiniteSet(DOMAIN s.selected \ ok)
      /\ Cardinality(ok) \in Nat /\ Cardinality(DOMAIN s.selected \ ok) \in Nat
      /\ Cardinality(DOMAIN s.selected) = Cardinality(ok) + Cardinality(DOMAIN s.selected \ ok)
  <2>1. IsFiniteSet(DOMAIN s.selected) /\ ok \in SUBSET DOMAIN s.selected BY <1>3
  <2>2. IsFiniteSet(ok) /\ IsFiniteSet(DOMAIN s.selected \ ok) BY <2>1, FS_Subset
  <2>3. ok \cup (DOMAIN s.selected \ ok) = DOMAIN s.selected
        /\ ok \cap (DOMAIN s.selected \ ok) = {}
    BY <2>1
  <2>4. Cardinality(ok) \in Nat /\ Cardinality(DOMAIN s.selected \ ok) \in Nat
    BY <2>2, FS_CardinalityType
  <2> HIDE DEF ok
  <2>5. Cardinality(ok \cup (DOMAIN s.selected \ ok)) =
          Cardinality(ok) + Cardinality(DOMAIN s.selected \ ok) - Cardinality({})
    BY <2>2, <2>3, FS_Union
  <2>6. Cardinality({}) = 0 BY FS_EmptySet
  <2>7. Cardinality(DOMAIN s.selected) =
          Cardinality(ok) + Cardinality(DOMAIN s.selected \ ok) - 0
    BY <2>3, <2>5, <2>6
  <2> QED BY <2>2, <2>4, <2>7
<1>7. Cardinality(facts) = Cardinality(ok)
  <2> HIDE DEF ok, made
  <2> DEFINE g == [k \in ok |-> made(k)]
  <2>1. g \in [ok -> facts] OBVIOUS
  <2>2. \A j, k \in ok : g[j] = g[k] => j = k BY <1>5
  <2>3. \A f \in facts : \E k \in ok : g[k] = f OBVIOUS
  <2>4. g \in Bijection(ok, facts)
    BY <2>1, <2>2, <2>3 DEF Bijection, Injection, Surjection, IsInjective
  <2>5. ExistsBijection(ok, facts) BY <2>4 DEF ExistsBijection
  <2> QED BY <1>6, <2>5, FS_Bijection
<1> HIDE DEF ok, facts, p
<1> QED BY <1>2, <1>3, <1>4, <1>6, <1>7 DEF Accounted, p

\* A Claude event counts with its last record and only with that one, and each
\* record is accounted for once, in a log of any length.
THEOREM ClaudeLast == Spec => []ClaudeIsLastRecord
<1>1. InputsOK => ClaudeIsLastRecord
  <2> SUFFICES ASSUME InputsOK PROVE ClaudeIsLastRecord OBVIOUS
  <2> DEFINE rows == ReadJsonl(claude)
  <2>1. rows \in Seq(Lines) BY RecordsOfLog DEF InputsOK
  <2>2. OfClaude(claude) = ParseClaude(rows, Session, Fallback) BY DEF OfClaude, ParseByPath
  <2> HIDE DEF rows
  <2>3. /\ OfClaude(claude).facts = {ClaudeFact(rows[i], Session, Fallback) :
                                       i \in {j \in FinalAt(rows) : ClaudeValid(rows[j])}}
        /\ Accounted(OfClaude(claude))
    BY <2>1, <2>2, ClaudeFacts
  <2> QED BY <2>3 DEF ClaudeIsLastRecord, FinalAt, EventAt, KeyAt, rows
<1> QED BY <1>1, InputsAreOK, PTL

(***************************************************************************)
(* Requests to the declared endpoint, under the declared limits.           *)
(***************************************************************************)

Sources == Fetch!LoadCatalogSources(declared)
Limits  == Sources.fetch

\* Bytes that may be kept.
Within(bytes) == bytes \in Int /\ (bytes > 0 => bytes <= Limits.maxBytes)

KeepChunk(acc, n) ==
  IF ~acc.ok \/ acc.bytes + n > Limits.maxBytes THEN [acc EXCEPT !.ok = FALSE]
  ELSE [acc EXCEPT !.bytes = @ + n]

Body == INSTANCE FoldTheory WITH
  Op   <- LAMBDA acc, n : KeepChunk(acc, n),
  Base <- [bytes |-> 0, ok |-> TRUE],
  Inv  <- LAMBDA s, acc : acc \in [bytes : Nat, ok : BOOLEAN] /\ Within(acc.bytes)

\* No body that is kept exceeds the cap, however it is cut into chunks.
LEMMA BodyWithin ==
  ASSUME Limits.maxBytes \in Int, NEW chunks \in Seq(Nat)
  PROVE  Within(Body!Fold(chunks).bytes)
<1>1. [bytes |-> 0, ok |-> TRUE] \in [bytes : Nat, ok : BOOLEAN]
      /\ Within([bytes |-> 0, ok |-> TRUE].bytes)
  BY DEF Within
<1>2. ASSUME NEW acc \in [bytes : Nat, ok : BOOLEAN], Within(acc.bytes), NEW n \in Nat
      PROVE  KeepChunk(acc, n) \in [bytes : Nat, ok : BOOLEAN] /\ Within(KeepChunk(acc, n).bytes)
  <2>1. CASE ~acc.ok \/ acc.bytes + n > Limits.maxBytes
    <3>1. KeepChunk(acc, n) = [acc EXCEPT !.ok = FALSE] BY <2>1 DEF KeepChunk
    <3>2. [acc EXCEPT !.ok = FALSE] \in [bytes : Nat, ok : BOOLEAN]
          /\ [acc EXCEPT !.ok = FALSE].bytes = acc.bytes
      OBVIOUS
    <3> QED BY <1>2, <3>1, <3>2
  <2>2. CASE acc.ok /\ ~(acc.bytes + n > Limits.maxBytes)
    <3> DEFINE next == [acc EXCEPT !.bytes = @ + n]
    <3>1. KeepChunk(acc, n) = next BY <2>2 DEF KeepChunk
    <3>2. next \in [bytes : Nat, ok : BOOLEAN] /\ next.bytes = acc.bytes + n OBVIOUS
    <3>3. Within(next.bytes) BY <2>2, <3>2 DEF Within
    <3> QED BY <3>1, <3>2, <3>3
  <2> QED BY <2>1, <2>2
<1> QED BY <1>1, <1>2, Body!FoldKeeps

\* A body is read in a loop over its chunks.
LEMMA ReadCappedIsFold ==
  \A reply : Fetch!ReadCapped(reply, Limits) =
    IF reply.declared # None /\ reply.declared > Limits.maxBytes THEN [bytes |-> 0, ok |-> FALSE]
    ELSE Body!Fold(reply.chunks)
BY DEF Fetch!ReadCapped, KeepChunk, Fetch!FoldLeft, Fetch!MapThenFoldSet, Fetch!Max,
       Body!Fold, Body!FoldLeft, Body!MapThenFoldSet, Body!Max

\* The URLs that can be asked for.
Urls == {Sources.api.url} \cup {r.location : r \in Replies}

\* What fetchLimited has done after these replies.
FetchInv(s, f) ==
  /\ f = [sent |-> f.sent, result |-> f.result, bytes |-> f.bytes]
  /\ f.sent \in Seq(Urls) /\ Len(f.sent) \in 1 .. MaxHops + 1
  /\ f.sent[1] = Sources.api.url
  /\ \A n \in 2 .. Len(f.sent) : Limits.onlyWithin => Fetch!Allowed(f.sent[n], Limits)
  /\ Within(f.bytes)

Chain == INSTANCE FoldTheory WITH
  Op   <- LAMBDA f, reply : Fetch!Receive(f, reply, Limits),
  Base <- Fetch!Ask(Sources.api.url),
  Inv  <- FetchInv

\* fetchLimited is a loop over the replies.
LEMMA FetchLimitedIsFold ==
  Fetch!FetchLimited(Sources.api.url, replies, Limits) =
    IF ~Fetch!Allowed(Sources.api.url, Limits) THEN Fetch!Ended("failed")
    ELSE Chain!Fold(replies)
BY DEF Fetch!FetchLimited, Fetch!FoldLeft, Fetch!MapThenFoldSet, Fetch!Max,
       Chain!Fold, Chain!FoldLeft, Chain!MapThenFoldSet, Chain!Max

\* No chain of replies leads outside the limits.
LEMMA ChainWithin ==
  ASSUME Limits.maxBytes \in Int, replies \in Seq(Replies)
  PROVE  FetchInv(replies, Chain!Fold(replies))
<1> USE ReadersOK
<1>1. FetchInv(<<>>, Fetch!Ask(Sources.api.url))
  <2> DEFINE f == Fetch!Ask(Sources.api.url)
  <2>1. f = [sent |-> <<Sources.api.url>>, result |-> "pending", bytes |-> 0] BY DEF Fetch!Ask
  <2> HIDE DEF f
  <2>2. f.sent = <<Sources.api.url>> /\ f.bytes = 0 BY <2>1
  <2>3. <<Sources.api.url>> \in Seq(Urls) BY DEF Urls
  <2>4. Len(<<Sources.api.url>>) = 1 /\ <<Sources.api.url>>[1] = Sources.api.url OBVIOUS
  <2>5. Within(0) BY DEF Within
  <2> QED BY <2>1, <2>2, <2>3, <2>4, <2>5 DEF FetchInv, f
<1>2. ASSUME NEW s, NEW f, FetchInv(s, f), NEW r \in Replies
      PROVE  FetchInv(Append(s, r), Fetch!Receive(f, r, Limits))
  <2> DEFINE next == Fetch!Receive(f, r, Limits)
             stop == [f EXCEPT !.result = "failed"]
  <2>1. FetchInv(Append(s, r), f) BY <1>2 DEF FetchInv
  <2>2. FetchInv(Append(s, r), stop)
    <3>1. stop = [sent |-> f.sent, result |-> "failed", bytes |-> f.bytes] BY <1>2 DEF FetchInv
    <3> QED BY <1>2, <3>1 DEF FetchInv
  <2>3. next = CASE f.result # "pending" -> f
                 [] f.result = "pending" /\ r.kind = "redirect" ->
                      IF r.location = None THEN stop ELSE Fetch!Follow(f, r.location, Limits)
                 [] f.result = "pending" /\ r.kind = "answer" ->
                      [f EXCEPT !.result = IF Fetch!ReadCapped(r, Limits).ok THEN "body" ELSE "failed",
                                !.bytes = Fetch!ReadCapped(r, Limits).bytes]
                 [] OTHER -> stop
    BY DEF Fetch!Receive
  <2>4. SUFFICES FetchInv(Append(s, r), next) OBVIOUS
  <2> HIDE DEF next, stop
  <2>5. CASE f.result # "pending"
    <3>1. next = f BY <2>3, <2>5
    <3> QED BY <2>1, <3>1
  <2>6. CASE f.result = "pending" /\ r.kind = "redirect"
    <3> DEFINE far == [f EXCEPT !.sent = Append(@, r.location)]
    <3>1. CASE next = stop BY <2>2, <3>1
    <3>2. CASE /\ next = far
               /\ Limits.onlyWithin => Fetch!Allowed(r.location, Limits)
               /\ ~(Len(f.sent) > MaxHops)
      <4>1. far = [sent |-> Append(f.sent, r.location), result |-> f.result, bytes |-> f.bytes]
        <5>1. f = [sent |-> f.sent, result |-> f.result, bytes |-> f.bytes] BY <1>2 DEF FetchInv
        <5> DEFINE more == Append(f.sent, r.location)
        <5> HIDE DEF more
        <5>2. [f EXCEPT !.sent = more] = [sent |-> more, result |-> f.result, bytes |-> f.bytes]
          BY <5>1
        <5> QED BY <5>2 DEF more
      <4>2. r.location \in Urls BY DEF Urls
      <4>3. /\ Append(f.sent, r.location) \in Seq(Urls)
            /\ Len(Append(f.sent, r.location)) = Len(f.sent) + 1
            /\ Append(f.sent, r.location)[Len(f.sent) + 1] = r.location
            /\ \A n \in 1 .. Len(f.sent) : Append(f.sent, r.location)[n] = f.sent[n]
            /\ Len(f.sent) + 1 \in 1 .. MaxHops + 1
        BY <1>2, <3>2, <4>2 DEF FetchInv
      <4> HIDE DEF far
      <4>4. \A n \in 2 .. Len(f.sent) + 1 :
              Limits.onlyWithin => Fetch!Allowed(Append(f.sent, r.location)[n], Limits)
        BY <1>2, <3>2, <4>3 DEF FetchInv
      <4>5. Append(f.sent, r.location)[1] = Sources.api.url BY <1>2, <4>3 DEF FetchInv
      <4> QED BY <1>2, <3>2, <4>1, <4>3, <4>4, <4>5 DEF FetchInv
    <3>3. next = stop \/ (/\ next = far
                          /\ Limits.onlyWithin => Fetch!Allowed(r.location, Limits)
                          /\ ~(Len(f.sent) > MaxHops))
      BY <2>3, <2>6 DEF Fetch!Follow, stop
    <3> QED BY <3>1, <3>2, <3>3
  <2>7. CASE f.result = "pending" /\ r.kind = "answer"
    <3> DEFINE body == Fetch!ReadCapped(r, Limits)
    <3>1. Within(body.bytes)
      <4>1. r.chunks \in Seq(Nat) BY <2>7
      <4>2. Within(0) BY DEF Within
      <4>3. Within(Body!Fold(r.chunks).bytes) BY <4>1, BodyWithin
      <4> QED BY <4>2, <4>3, ReadCappedIsFold
    <3> HIDE DEF body
    <3>2. next = [f EXCEPT !.result = IF body.ok THEN "body" ELSE "failed", !.bytes = body.bytes]
      BY <2>3, <2>7 DEF body
    <3>3. next = [sent |-> f.sent, result |-> next.result, bytes |-> body.bytes]
      BY <1>2, <3>2 DEF FetchInv
    <3> QED BY <1>2, <3>1, <3>3 DEF FetchInv
  <2>8. CASE f.result = "pending" /\ r.kind \notin {"redirect", "answer"}
    <3>1. next = stop BY <2>3, <2>8
    <3> QED BY <2>2, <3>1
  <2> QED BY <2>5, <2>6, <2>7, <2>8
<1> QED BY <1>1, <1>2, Chain!FoldKeeps

\* What the file says when an endpoint is asked.
LEMMA AskedAsDeclared ==
  ASSUME InputsOK, Sources # None, Fetch!Attempt(Sources) = "asked"
  PROVE  /\ declared.head /\ declared.api.enabled # FALSE
         /\ declared.api.credential \in Credentials
         /\ Sources.api.url = declared.api.url
         /\ Limits.allowedHosts = IF declared.hosts = None THEN {} ELSE declared.hosts
         /\ Limits.onlyWithin = (declared.within # FALSE)
         /\ Limits.requireHttps = (declared.https # FALSE)
         /\ Limits.maxBytes = IF declared.bytes = None THEN DefaultBytes ELSE declared.bytes
         /\ Limits.maxBytes \in Int
<1> USE ReadersOK
<1>1. ~Fetch!Rejected(declared) BY DEF Sources, Fetch!LoadCatalogSources
<1>2. Sources = [api |-> IF declared.api = None THEN None ELSE Fetch!ModelApi(declared.api),
                 fetch |-> [allowedHosts |-> Fetch!OrElse(declared.hosts, {}),
                            onlyWithin |-> Fetch!On(declared.within),
                            requireHttps |-> Fetch!On(declared.https),
                            maxBytes |-> Fetch!OrElse(declared.bytes, DefaultBytes)]]
  BY <1>1 DEF Sources, Fetch!LoadCatalogSources
<1>3. declared # None /\ declared.head /\ declared.bytes # Bad BY <1>1 DEF Fetch!Rejected
<1>4. /\ Sources.api # None /\ Sources.api.enabled /\ Sources.api.credential \in Credentials
  BY DEF Fetch!Attempt
<1>5. Sources.api = Fetch!ModelApi(declared.api) BY <1>2, <1>4
<1>6. /\ Sources.api.url = declared.api.url /\ declared.api.enabled # FALSE
      /\ declared.api.credential \in Credentials
  <2> DEFINE api == declared.api
  <2>1. Sources.api = [url |-> api.url, enabled |-> api.enabled # FALSE,
                       optional |-> api.optional # FALSE,
                       credential |-> IF api.credential = Bad THEN None ELSE api.credential]
    BY <1>5 DEF Fetch!ModelApi, Fetch!On
  <2>2. /\ Sources.api.url = api.url /\ Sources.api.enabled = (api.enabled # FALSE)
        /\ Sources.api.credential = IF api.credential = Bad THEN None ELSE api.credential
    BY <2>1
  <2>3. None \notin Credentials OBVIOUS
  <2> QED BY <1>4, <2>2, <2>3
<1>7. /\ Limits.allowedHosts = IF declared.hosts = None THEN {} ELSE declared.hosts
      /\ Limits.onlyWithin = (declared.within # FALSE)
      /\ Limits.requireHttps = (declared.https # FALSE)
      /\ Limits.maxBytes = IF declared.bytes = None THEN DefaultBytes ELSE declared.bytes
  BY <1>2 DEF Limits, Fetch!OrElse, Fetch!On
<1>8. Limits.maxBytes \in Int BY <1>3, <1>7 DEF InputsOK
<1> QED BY <1>3, <1>6, <1>7, <1>8

\* Requests stay within what the operator's file allows, whatever chain of
\* replies comes back.
THEOREM FetchAllowed == Spec => []FetchStaysAllowed
<1>1. InputsOK => FetchStaysAllowed
  <2> SUFFICES ASSUME InputsOK PROVE FetchStaysAllowed OBVIOUS
  <2> DEFINE f == Fetch!CheckEndpoint(declared, replies)
  <2>0. ASSUME f.sent = <<>>, f.bytes = 0 PROVE FetchStaysAllowed
    <3>1. DOMAIN f.sent = {} /\ Len(f.sent) = 0 BY <2>0
    <3> HIDE DEF f
    <3> QED BY <2>0, <3>1, ReadersOK DEF FetchStaysAllowed, f
  <2>1. \A result : Fetch!Ended(result).sent = <<>> /\ Fetch!Ended(result).bytes = 0
    BY DEF Fetch!Ended
  <2>2. CASE Sources = None
    <3>1. f = Fetch!Ended("failed") BY <2>2 DEF Fetch!CheckEndpoint, Sources
    <3> QED BY <2>0, <2>1, <3>1
  <2>3. CASE Sources # None /\ Fetch!Attempt(Sources) # "asked"
    <3>1. f = Fetch!Ended(Fetch!Attempt(Sources)) BY <2>3 DEF Fetch!CheckEndpoint, Sources
    <3> QED BY <2>0, <2>1, <3>1
  <2>4. CASE Sources # None /\ Fetch!Attempt(Sources) = "asked"
    <3>1. f = Fetch!FetchLimited(Sources.api.url, replies, Limits)
      BY <2>4 DEF Fetch!CheckEndpoint, Sources, Limits
    <3>2. CASE ~Fetch!Allowed(Sources.api.url, Limits)
      <4>1. f = Fetch!Ended("failed") BY <3>1, <3>2, FetchLimitedIsFold
      <4> QED BY <2>0, <2>1, <4>1
    <3>3. CASE Fetch!Allowed(Sources.api.url, Limits)
      <4>1. f = Chain!Fold(replies) BY <3>1, <3>3, FetchLimitedIsFold
      <4>2. FetchInv(replies, f) BY <2>4, <4>1, AskedAsDeclared, ChainWithin DEF InputsOK
      <4> HIDE DEF f
      <4>3. /\ declared.head /\ declared.api.enabled # FALSE
            /\ declared.api.credential \in Credentials
            /\ f.sent[1] = declared.api.url
        BY <2>4, <4>2, AskedAsDeclared DEF FetchInv
      <4>4. ASSUME NEW n \in DOMAIN f.sent, ~(n > 1 /\ declared.within = FALSE)
            PROVE  f.sent[n].host \in declared.hosts /\ (f.sent[n].secure \/ declared.https = FALSE)
        <5>1. Fetch!Allowed(f.sent[n], Limits)
          <6>1. n \in 1 .. Len(f.sent) BY <4>2 DEF FetchInv
          <6>2. CASE n = 1 BY <3>3, <4>2, <6>2 DEF FetchInv
          <6>3. CASE n # 1
            <7>1. n \in 2 .. Len(f.sent) /\ n > 1
              <8>1. Len(f.sent) \in Int BY <4>2 DEF FetchInv
              <8> QED BY <6>1, <6>3, <8>1
            <7>2. declared.within # FALSE BY <4>4, <7>1
            <7>3. Limits.onlyWithin BY <2>4, <7>2, AskedAsDeclared
            <7> QED BY <4>2, <7>1, <7>3 DEF FetchInv
          <6> QED BY <6>2, <6>3
        <5> QED BY <2>4, <5>1, AskedAsDeclared DEF Fetch!Allowed
      <4>5. Len(f.sent) <= MaxHops + 1 BY <4>2, ReadersOK DEF FetchInv
      <4>6. f.bytes > 0 => f.bytes <= IF declared.bytes # None THEN declared.bytes ELSE DefaultBytes
        BY <2>4, <4>2, AskedAsDeclared DEF FetchInv, Within
      <4> QED BY <4>3, <4>4, <4>5, <4>6 DEF FetchStaysAllowed, f
    <3> QED BY <3>2, <3>3
  <2> QED BY <2>2, <2>3, <2>4
<1> QED BY <1>1, InputsAreOK, PTL

(***************************************************************************)
(* Sums of usage.                                                          *)
(***************************************************************************)

Amounts == [DOMAIN NoUsage -> Int]

Usage == INSTANCE FoldTheory WITH
  Op   <- LAMBDA acc, t : Plus(t, acc),
  Base <- NoUsage,
  Inv  <- LAMBDA s, acc : TRUE

Counts == INSTANCE FoldTheory WITH
  Op   <- LAMBDA acc, n : n + acc,
  Base <- 0,
  Inv  <- LAMBDA s, acc : TRUE

\* Finite sets are those the folds are about.
LEMMA FiniteSets ==
  \A S : IsFiniteSet(S) => Usage!IsFiniteSet(S) /\ Counts!IsFiniteSet(S)
BY DEF IsFiniteSet, Usage!IsFiniteSet, Counts!IsFiniteSet

\* The sums of the report are such folds.
LEMMA SumsAreFolds ==
  /\ \A rows : TotalOf(rows, Prices) = Usage!Over(rows, [f \in rows |-> Contribution(f, Prices)])
  /\ \A groups : Sums(groups) = Usage!Over(DOMAIN groups, groups)
  /\ \A w : SumFunction(w) = Counts!Over(DOMAIN w, w)
<1>1. \A rows : DOMAIN [f \in rows |-> Contribution(f, Prices)] = rows OBVIOUS
<1>2. \A rows : TotalOf(rows, Prices) = Usage!Over(rows, [f \in rows |-> Contribution(f, Prices)])
  BY <1>1 DEF TotalOf, FoldFunction, FoldFunctionOnSet, MapThenFoldSet,
              Usage!Over, Usage!FoldFunctionOnSet, Usage!MapThenFoldSet
<1>3. \A groups : Sums(groups) = Usage!Over(DOMAIN groups, groups)
  BY DEF Sums, FoldFunction, FoldFunctionOnSet, MapThenFoldSet,
         Usage!Over, Usage!FoldFunctionOnSet, Usage!MapThenFoldSet
<1>4. \A w : SumFunction(w) = Counts!Over(DOMAIN w, w)
  BY DEF SumFunction, SumFunctionOnSet, FoldFunctionOnSet, MapThenFoldSet,
         Counts!Over, Counts!FoldFunctionOnSet, Counts!MapThenFoldSet
<1> QED BY <1>2, <1>3, <1>4

\* Usage is added field by field.
LEMMA PlusAdds == Usage!Adds(Amounts)
<1>1. NoUsage \in Amounts /\ \A c \in DOMAIN NoUsage : NoUsage[c] = 0 BY DEF NoUsage, Amounts
<1>2. \A s, t \in Amounts : Plus(s, t) \in Amounts BY DEF Plus, Amounts
<1>3. \A s, t, u \in Amounts : Plus(u, Plus(t, s)) = Plus(t, Plus(u, s))
  <2> SUFFICES ASSUME NEW s \in Amounts, NEW t \in Amounts, NEW u \in Amounts
               PROVE  Plus(u, Plus(t, s)) = Plus(t, Plus(u, s))
    OBVIOUS
  <2> QED BY DEF Plus, Amounts
<1>4. \A s, t, u \in Amounts : Plus(u, Plus(t, s)) = Plus(Plus(u, t), s)
  <2> SUFFICES ASSUME NEW s \in Amounts, NEW t \in Amounts, NEW u \in Amounts
               PROVE  Plus(u, Plus(t, s)) = Plus(Plus(u, t), s)
    OBVIOUS
  <2> QED BY DEF Plus, Amounts
<1>5. \A s \in Amounts : Plus(NoUsage, s) = s
  <2> SUFFICES ASSUME NEW s \in Amounts PROVE Plus(NoUsage, s) = s OBVIOUS
  <2>1. s = [c \in DOMAIN NoUsage |-> s[c]] BY DEF Amounts
  <2>2. \A c \in DOMAIN NoUsage : NoUsage[c] + s[c] = s[c] BY <1>1 DEF Amounts
  <2> QED BY <2>1, <2>2 DEF Plus
<1> QED BY <1>1, <1>2, <1>3, <1>4, <1>5 DEF Usage!Adds, Usage!Commutes

\* A sum of numbers is a number.
LEMMA SumIsNumber ==
  ASSUME NEW S, IsFiniteSet(S), NEW w, DOMAIN w = S, \A x \in S : w[x] \in Int
  PROVE  SumFunction(w) \in Int
<1>1. Counts!Commutes(Int) BY DEF Counts!Commutes
<1>2. Counts!Over(S, w) \in Int BY <1>1, FiniteSets, Counts!OverAnyOrder
<1> QED BY <1>2, SumsAreFolds

\* Facts as the parsers make them.
Fact(f) ==
  /\ f.at \in Int /\ f.provider \in {"claude", "openai"}
  /\ \A p \in Parts \cup {"reasoning"} : f[p] \in Int

\* Math.round gives a number.
LEMMA RoundIsNumber ==
  ASSUME NEW n \in Int
  PROVE  RoundHalfUp(n, Mtok) \in Int
BY ReportOK DEF RoundHalfUp

\* What a fact adds is made of numbers, whatever its rates.
LEMMA ContributionIsAmount ==
  ASSUME NEW f, Fact(f)
  PROVE  Contribution(f, Prices) \in Amounts
<1> DEFINE rates == Prices[f.model]
           priced == f.model \in DOMAIN Prices
<1>1. IsFiniteSet(Parts) /\ IsFiniteSet(Parts \ {"output"})
  <2>1. IsFiniteSet({}) BY FS_EmptySet
  <2>2. Parts = ((((({} \cup {"input"}) \cup {"w5m"}) \cup {"w1h"}) \cup {"wother"}) \cup {"read"})
                  \cup {"output"}
    BY DEF Parts
  <2>3. \A S, x : IsFiniteSet(S) => IsFiniteSet(S \cup {x}) BY FS_AddElement
  <2>4. IsFiniteSet(Parts) BY <2>1, <2>2, <2>3
  <2> QED BY <2>4, FS_RemoveElement
<1>2. \A p \in Parts : f[p] \in Int BY DEF Fact
<1>3. priced => \A p \in Parts : rates[p] \in Int BY LinesOK
<1>4. priced => EstimateCost(f, rates) \in Int
  <2> SUFFICES ASSUME priced PROVE EstimateCost(f, rates) \in Int OBVIOUS
  <2> DEFINE w == [p \in Parts |-> RoundHalfUp(f[p] * rates[p], Mtok)]
  <2>1. ASSUME NEW p \in Parts PROVE w[p] \in Int
    <3>1. f[p] * rates[p] \in Int BY <1>2, <1>3
    <3> QED BY <3>1, RoundIsNumber
  <2>2. DOMAIN w = Parts OBVIOUS
  <2> HIDE DEF w
  <2>3. SumFunction(w) \in Int BY <1>1, <2>1, <2>2, SumIsNumber
  <2> QED BY <2>3 DEF EstimateCost, w
<1>5. priced => UncachedEquivalent(f, rates) \in Int
  <2> SUFFICES ASSUME priced PROVE UncachedEquivalent(f, rates) \in Int OBVIOUS
  <2> DEFINE w == [p \in Parts \ {"output"} |-> f[p]]
  <2>1. DOMAIN w = Parts \ {"output"} /\ \A p \in Parts \ {"output"} : w[p] \in Int BY <1>2
  <2> HIDE DEF w
  <2>2. SumFunction(w) \in Int BY <1>1, <2>1, SumIsNumber
  <2>3. "input" \in Parts /\ "output" \in Parts BY DEF Parts
  <2>4. rates.input \in Int /\ rates.output \in Int /\ f.output \in Int BY <1>2, <1>3, <2>3
  <2>5. RoundHalfUp(SumFunction(w) * rates.input, Mtok) \in Int
        /\ RoundHalfUp(f.output * rates.output, Mtok) \in Int
    BY <2>2, <2>4, RoundIsNumber
  <2> QED BY <2>5 DEF UncachedEquivalent, w
<1>6. /\ f.input \in Int /\ f.w5m \in Int /\ f.w1h \in Int /\ f.wother \in Int
      /\ f.read \in Int /\ f.output \in Int /\ f.reasoning \in Int
  BY DEF Fact, Parts
<1> QED BY <1>4, <1>5, <1>6 DEF Contribution, Amounts, NoUsage

(***************************************************************************)
(* The window and its buckets.                                             *)
(***************************************************************************)

\* Division rounds down.
LEMMA Quotient ==
  ASSUME NEW n \in Int, NEW b \in Nat \ {0}
  PROVE  n \div b \in Int /\ (n \div b) * b <= n /\ n < (n \div b) * b + b
OBVIOUS

\* Multiples of b that are less than b apart are one.
LEMMA QuotientIsOnly ==
  ASSUME NEW n \in Int, NEW b \in Nat \ {0}, NEW q \in Int, q * b <= n, n < q * b + b
  PROVE  n \div b = q
<1> DEFINE r == n \div b
<1>1. r \in Int /\ r * b <= n /\ n < r * b + b BY Quotient
<1> HIDE DEF r
<1>2. ASSUME NEW k \in Int, NEW m \in Int, k < m PROVE k * b + b <= m * b
  <2>1. PICK d \in Nat : m = k + 1 + d
    <3>1. m - (k + 1) \in Nat /\ m = k + 1 + (m - (k + 1)) BY <1>2
    <3> QED BY <3>1
  <2>2. m * b = k * b + b + d * b BY <2>1
  <2>3. d * b >= 0 BY <2>1
  <2>4. k * b \in Int /\ d * b \in Int OBVIOUS
  <2> QED BY <2>2, <2>3, <2>4
<1>3. q * b \in Int /\ r * b \in Int BY <1>1
<1>4. ~(q < r) /\ ~(r < q) BY <1>1, <1>2, <1>3
<1> QED BY <1>1, <1>4 DEF r

\* The window ends with the bucket Now is in, and is made of whole buckets.
LEMMA WindowOf ==
  ASSUME NEW r \in DOMAIN RangeOf
  PROVE  /\ WindowStart(r, Now) \in Int /\ WindowEnd(r, Now) \in Int
         /\ BucketOf[r] \in Nat \ {0} /\ BucketCount(r) \in Nat /\ RangeOf[r] \in Nat
         /\ WindowEnd(r, Now) = WindowStart(r, Now) + RangeOf[r]
         /\ RangeOf[r] = BucketCount(r) * BucketOf[r]
         /\ Now <= WindowEnd(r, Now) /\ WindowEnd(r, Now) < Now + BucketOf[r]
<1> DEFINE b == BucketOf[r]
           q == (-Now) \div b
           n == RoundHalfUp(RangeOf[r], b)
<1>1. b \in Nat \ {0} /\ RangeOf[r] \in Nat /\ Now \in Int BY ReportOK, LinesOK
<1>2. PICK k \in 1 .. RangeOf[r] : RangeOf[r] = k * b BY ReportOK
<1> HIDE DEF b
<1>3. q \in Int /\ q * b <= -Now /\ -Now < q * b + b
  <2>1. -Now \in Int BY <1>1
  <2> QED BY <1>1, <2>1, Quotient
<1> HIDE DEF q
<1>4. WindowEnd(r, Now) = -(q * b) BY <1>1, <1>3 DEF WindowEnd, b, q
<1>5. q * b \in Int BY <1>1, <1>3
<1>6. BucketCount(r) = k
  <2>1. n = k
    <3>1. 2 * b \in Nat \ {0} /\ 2 * (k * b) + b \in Int /\ k \in Int BY <1>1, <1>2
    <3>2. k * (2 * b) = 2 * (k * b) BY <1>1, <3>1
    <3>3. k * (2 * b) <= 2 * (k * b) + b /\ 2 * (k * b) + b < k * (2 * b) + 2 * b
      <4>1. k * b \in Int BY <1>1, <3>1
      <4> QED BY <1>1, <3>2, <4>1
    <3>4. (2 * (k * b) + b) \div (2 * b) = k BY <3>1, <3>3, QuotientIsOnly
    <3> QED BY <1>2, <3>4 DEF RoundHalfUp
  <2>2. k \in {1, n} /\ \A y \in {1, n} : k >= y BY <1>1, <2>1
  <2>3. \A m \in {1, n} : (\A y \in {1, n} : m >= y) => m = k BY <1>1, <2>1, <2>2
  <2>4. Max({1, n}) = k
    <3> HIDE DEF n
    <3> QED BY <2>2, <2>3 DEF Max
  <2> QED BY <2>4 DEF BucketCount, n, b
<1>7. k * b \in Int /\ k \in Nat BY <1>1
<1>8. WindowStart(r, Now) = WindowEnd(r, Now) - RangeOf[r] BY DEF WindowStart
<1> QED BY <1>1, <1>2, <1>3, <1>4, <1>5, <1>6, <1>7, <1>8 DEF b

\* The amounts of a set of facts.
LEMMA TotalIsAmount ==
  ASSUME NEW rows, IsFiniteSet(rows), \A f \in rows : Fact(f)
  PROVE  TotalOf(rows, Prices) \in Amounts
<1> DEFINE w == [f \in rows |-> Contribution(f, Prices)]
<1>1. \A f \in rows : w[f] \in Amounts BY ContributionIsAmount
<1> HIDE DEF w
<1>2. Usage!Over(rows, w) \in Amounts
  BY <1>1, FiniteSets, PlusAdds, Usage!OverAnyOrder DEF Usage!Adds
<1> QED BY <1>2, SumsAreFolds DEF w

\* A total is the sum of the totals of its groups.
LEMMA TotalRegroups ==
  ASSUME NEW rows, IsFiniteSet(rows), \A f \in rows : Fact(f),
         NEW groups, IsFiniteSet(DOMAIN groups), NEW k, \A f \in rows : k[f] \in DOMAIN groups,
         \A g \in DOMAIN groups : groups[g] = TotalOf({f \in rows : k[f] = g}, Prices)
  PROVE  TotalOf(rows, Prices) = Sums(groups)
<1> DEFINE w == [f \in rows |-> Contribution(f, Prices)]
           G == DOMAIN groups
           of(g) == {f \in rows : k[f] = g}
           sums == [g \in G |-> Usage!Over(of(g), w)]
<1>1. \A f \in rows : w[f] \in Amounts BY ContributionIsAmount
<1>2. Usage!IsFiniteSet(rows) /\ Usage!IsFiniteSet(G) BY FiniteSets
<1>3. Usage!Over(rows, w) = Usage!Over(G, sums)
  <2> HIDE DEF w
  <2> QED BY <1>1, <1>2, PlusAdds, Usage!OverRegroups
<1>4. \A g \in G : sums[g] = groups[g]
  <2> SUFFICES ASSUME NEW g \in G PROVE sums[g] = groups[g] OBVIOUS
  <2> DEFINE v == [f \in of(g) |-> Contribution(f, Prices)]
  <2>1. Usage!IsFiniteSet(of(g))
    <3>1. of(g) \in SUBSET rows OBVIOUS
    <3>2. IsFiniteSet(of(g)) BY <3>1, FS_Subset
    <3> QED BY <3>2, FiniteSets
  <2>2. \A f \in of(g) : w[f] = v[f] OBVIOUS
  <2>3. TotalOf(of(g), Prices) = Usage!Over(of(g), v) BY SumsAreFolds
  <2> HIDE DEF w, v, of
  <2>4. Usage!Over(of(g), w) = Usage!Over(of(g), v) BY <2>1, <2>2, Usage!OverUnfolds
  <2> QED BY <2>3, <2>4 DEF of
<1> HIDE DEF sums
<1>5. Usage!Over(G, sums) = Usage!Over(G, groups) BY <1>2, <1>4, Usage!OverUnfolds
<1> QED BY <1>3, <1>5, SumsAreFolds

\* The events of a total are its facts.
LEMMA TotalCounts ==
  ASSUME NEW rows, IsFiniteSet(rows), \A f \in rows : Fact(f)
  PROVE  TotalOf(rows, Prices).events = Cardinality(rows)
<1> DEFINE w == [f \in rows |-> Contribution(f, Prices)]
           F == {A \in SUBSET rows : Usage!Over(A, w).events = Cardinality(A)}
<1>1. \A f \in rows : w[f] \in Amounts BY ContributionIsAmount
<1>2. \A f \in rows : w[f].events = 1 BY DEF Contribution
<1>3. \A A \in SUBSET rows : IsFiniteSet(A) /\ Usage!IsFiniteSet(A)
  <2> SUFFICES ASSUME NEW A \in SUBSET rows PROVE IsFiniteSet(A) /\ Usage!IsFiniteSet(A) OBVIOUS
  <2>1. IsFiniteSet(A) BY FS_Subset
  <2> QED BY <2>1, FiniteSets
<1> HIDE DEF w
<1>4. {} \in F
  <2>1. Usage!Over({}, w) = NoUsage BY <1>3, Usage!OverUnfolds
  <2>2. Cardinality({}) = 0 BY FS_EmptySet
  <2> QED BY <2>1, <2>2 DEF NoUsage
<1>5. ASSUME NEW A \in SUBSET rows, NEW f \in A, A \ {f} \in F PROVE A \in F
  <2> DEFINE rest == Usage!Over(A \ {f}, w)
  <2>1. Usage!Over(A, w) = Plus(w[f], rest)
    <3>1. Usage!Commutes(Amounts) BY PlusAdds DEF Usage!Adds
    <3>2. Usage!IsFiniteSet(A) /\ \A x \in A : w[x] \in Amounts BY <1>1, <1>3
    <3>3. \A x \in A : Usage!Over(A, w) = Plus(w[x], Usage!Over(A \ {x}, w))
      BY <3>1, <3>2, Usage!OverAnyOrder
    <3> QED BY <3>3
  <2>2. Plus(w[f], rest).events = w[f].events + rest.events BY DEF Plus, NoUsage
  <2>3. Cardinality(A \ {f}) = Cardinality(A) - 1 /\ Cardinality(A) \in Nat
    BY <1>3, FS_RemoveElement, FS_CardinalityType
  <2>4. rest.events = Cardinality(A \ {f}) BY <1>5
  <2> HIDE DEF rest
  <2>5. Usage!Over(A, w).events = Cardinality(A) BY <1>2, <2>1, <2>2, <2>3, <2>4
  <2> QED BY <2>5
<1> HIDE DEF F
<1>6. rows \in F BY <1>3, <1>4, <1>5, Usage!SetInduction
<1> QED BY <1>6, SumsAreFolds DEF F, w

\* The facts of the two logs are finitely many, and their times and counters numbers.
LEMMA FactsOfLogs ==
  ASSUME InputsOK, ClaudeIsLastRecord, CodexIsFirstRecord
  PROVE  /\ IsFiniteSet(OfClaude(claude).facts \cup OfCodex(codex).facts)
         /\ \A f \in OfClaude(claude).facts \cup OfCodex(codex).facts : Fact(f)
<1>1. \A t : t = None \/ t \in Int => TimestampOf(t, Fallback) \in Int BY LinesOK DEF TimestampOf
<1>2. IsFiniteSet(OfClaude(claude).facts) /\ \A f \in OfClaude(claude).facts : Fact(f)
  <2> DEFINE rows == ReadJsonl(claude)
             I == {i \in FinalAt(rows) : ClaudeValid(rows[i])}
             facts == OfClaude(claude).facts
             g == [i \in I |-> ClaudeFact(rows[i], Session, Fallback)]
  <2>1. facts = {ClaudeFact(rows[i], Session, Fallback) : i \in I}
    BY DEF ClaudeIsLastRecord, FinalAt, EventAt, KeyAt
  <2>2. /\ rows \in Seq(Lines) /\ DOMAIN rows = 1 .. Len(rows) /\ Len(rows) \in Nat
        /\ \A i \in DOMAIN rows : rows[i] \in ClaudeLines
    BY RecordsOfLog DEF InputsOK
  <2> HIDE DEF rows
  <2>3. I \in SUBSET (1 .. Len(rows)) /\ \A i \in I : rows[i].kind = "usage"
    BY <2>2 DEF FinalAt, EventAt
  <2>4. IsFiniteSet(I)
    <3>1. IsFiniteSet(1 .. Len(rows)) BY <2>2, FS_Interval
    <3> HIDE DEF I
    <3> QED BY <2>3, <3>1, FS_Subset
  <2> HIDE DEF I, facts
  <2>5. g \in Surjection(I, facts) BY <2>1 DEF Surjection
  <2>6. IsFiniteSet(facts) BY <2>4, <2>5, FS_Surjection
  <2>7. ASSUME NEW i \in I PROVE Fact(ClaudeFact(rows[i], Session, Fallback))
    <3> DEFINE l == rows[i]
    <3>1. l \in ClaudeLines /\ l.kind = "usage" BY <2>2, <2>3
    <3> HIDE DEF l
    <3>2. /\ {l.input, l.w5m, l.w1h, l.fallback, l.read, l.output, l.thinking} \subseteq Int
          /\ l.time = None \/ l.time \in Int
      BY <3>1, LinesOK
    <3>3. TimestampOf(l.time, Fallback) \in Int BY <1>1, <3>2
    <3>4. Fact(ClaudeFact(l, Session, Fallback)) BY <3>2, <3>3 DEF Fact, ClaudeFact, Parts
    <3> QED BY <3>4 DEF l
  <2> QED BY <2>1, <2>6, <2>7 DEF facts
<1>3. IsFiniteSet(OfCodex(codex).facts) /\ \A f \in OfCodex(codex).facts : Fact(f)
  <2> DEFINE rows == ReadJsonl(codex)
             I == {i \in FirstAt(rows) : rows[i].model # Bad}
             facts == OfCodex(codex).facts
             g == [i \in I |-> CodexFact(rows[i], Session, Fallback)]
  <2>1. facts = {CodexFact(rows[i], Session, Fallback) : i \in I}
    BY DEF CodexIsFirstRecord, FirstAt, ReadAt
  <2>2. /\ rows \in Seq(Lines) /\ DOMAIN rows = 1 .. Len(rows) /\ Len(rows) \in Nat
        /\ \A i \in DOMAIN rows : rows[i] \in CodexLines
    BY RecordsOfLog DEF InputsOK
  <2> HIDE DEF rows
  <2>3. I \in SUBSET (1 .. Len(rows)) /\ \A i \in I : rows[i].kind = "usage"
    BY <2>2 DEF FirstAt, ReadAt
  <2>4. IsFiniteSet(I)
    <3>1. IsFiniteSet(1 .. Len(rows)) BY <2>2, FS_Interval
    <3> HIDE DEF I
    <3> QED BY <2>3, <3>1, FS_Subset
  <2> HIDE DEF I, facts
  <2>5. g \in Surjection(I, facts) BY <2>1 DEF Surjection
  <2>6. IsFiniteSet(facts) BY <2>4, <2>5, FS_Surjection
  <2>7. ASSUME NEW i \in I PROVE Fact(CodexFact(rows[i], Session, Fallback))
    <3> DEFINE l == rows[i]
    <3>1. l \in CodexLines /\ l.kind = "usage" BY <2>2, <2>3
    <3> HIDE DEF l
    <3>2. /\ {l.input, l.cached, l.write, l.output, l.reasoning} \subseteq Int
          /\ l.time = None \/ l.time \in Int
      BY <3>1, LinesOK
    <3>3. TimestampOf(l.time, Fallback) \in Int BY <1>1, <3>2
    <3>4. Fact(CodexFact(l, Session, Fallback)) BY <3>2, <3>3 DEF Fact, CodexFact, Parts
    <3> QED BY <3>4 DEF l
  <2> QED BY <2>1, <2>6, <2>7 DEF facts
<1>4. IsFiniteSet(OfClaude(claude).facts \cup OfCodex(codex).facts) BY <1>2, <1>3, FS_Union
<1> QED BY <1>2, <1>3, <1>4

\* A summary of any such facts, over any range, agrees with itself and with them.
LEMMA SummaryAgrees ==
  ASSUME NEW facts, IsFiniteSet(facts), \A f \in facts : Fact(f),
         NEW range \in DOMAIN RangeOf,
         NEW s, s = SummarizeUsage(facts, Prices, range, Now)
  PROVE  Agrees(s, facts, range)
<1> DEFINE rows == Rows(facts, range, Now)
           first == WindowStart(range, Now)
           size == BucketOf[range]
           count == BucketCount(range)
           index(f) == BucketIndex(f, range, Now)
           in(b) == {f \in rows : index(f) = b}
           of(S, p) == {f \in S : ProviderOf(f) = p}
           P == {"claude", "openai"}
<1>1. /\ s.totals = TotalOf(rows, Prices)
      /\ s.perProvider = [p \in P |-> TotalOf(of(rows, p), Prices)]
      /\ s.models = [m \in {f.model : f \in rows} |-> TotalOf({f \in rows : f.model = m}, Prices)]
      /\ s.buckets = [b \in 0 .. count - 1 |->
                        [start |-> first + b * size,
                         usage |-> [p \in P |-> TotalOf(of(in(b), p), Prices)]]]
  BY DEF SummarizeUsage
<1>2. /\ first \in Int /\ size \in Nat \ {0} /\ count \in Nat /\ RangeOf[range] \in Nat
      /\ WindowEnd(range, Now) \in Int /\ WindowEnd(range, Now) = first + RangeOf[range]
      /\ RangeOf[range] = count * size /\ Now \in Int
      /\ Now <= WindowEnd(range, Now) /\ WindowEnd(range, Now) < Now + size
  BY WindowOf, LinesOK
<1>3. /\ rows \in SUBSET facts
      /\ \A f \in facts : f \in rows <=> first <= f.at /\ f.at < first + count * size
  BY <1>2 DEF Rows
<1> HIDE DEF rows, first, size, count, index
<1>4. IsFiniteSet(P)
  <2>1. P = ({} \cup {"claude"}) \cup {"openai"} OBVIOUS
  <2> QED BY <2>1, FS_EmptySet, FS_AddElement
<1>5. \A f \in facts : ProviderOf(f) = f.provider /\ ProviderOf(f) \in P BY DEF ProviderOf, Fact
\* A fact falls into the bucket whose times contain its own.
<1>6. \A f \in facts : /\ index(f) \in Int
                       /\ first + index(f) * size <= f.at
                       /\ f.at < first + index(f) * size + size
                       /\ \A b \in Int : first + b * size <= f.at /\ f.at < first + b * size + size
                            => index(f) = b
  <2> SUFFICES ASSUME NEW f \in facts
               PROVE  /\ index(f) \in Int
                      /\ first + index(f) * size <= f.at
                      /\ f.at < first + index(f) * size + size
                      /\ \A b \in Int : first + b * size <= f.at /\ f.at < first + b * size + size
                           => index(f) = b
    OBVIOUS
  <2> DEFINE n == f.at - first
             q == n \div size
  <2>1. f.at \in Int /\ n \in Int BY <1>2 DEF Fact
  <2>2. index(f) = q BY DEF index, BucketIndex, first, size
  <2>3. q \in Int /\ q * size <= n /\ n < q * size + size BY <1>2, <2>1, Quotient
  <2>4. ASSUME NEW b \in Int, b * size <= n, n < b * size + size PROVE q = b
    BY <1>2, <2>1, <2>4, QuotientIsOnly
  <2> HIDE DEF q
  <2>5. q * size \in Int /\ \A b \in Int : b * size \in Int BY <1>2, <2>3
  <2>6. first + q * size <= f.at /\ f.at < first + q * size + size BY <1>2, <2>1, <2>3, <2>5
  <2>7. ASSUME NEW b \in Int, first + b * size <= f.at, f.at < first + b * size + size PROVE q = b
    <3>1. b * size <= n /\ n < b * size + size BY <1>2, <2>1, <2>5, <2>7
    <3> QED BY <2>4, <3>1
  <2> QED BY <2>2, <2>3, <2>6, <2>7
\* The window is made of the buckets.
<1>7. ASSUME NEW f \in facts, NEW b \in Int, first + b * size <= f.at, f.at < first + b * size + size
      PROVE  f \in rows <=> b \in 0 .. count - 1
  <2>1. f.at \in Int /\ b * size \in Int /\ count * size \in Int BY <1>2 DEF Fact
  <2>2. \A k, m \in Int : k < m => k * size + size <= m * size
    <3> SUFFICES ASSUME NEW k \in Int, NEW m \in Int, k < m PROVE k * size + size <= m * size OBVIOUS
    <3>1. PICK d \in Nat : m = k + 1 + d
      <4>1. m - (k + 1) \in Nat /\ m = k + 1 + (m - (k + 1)) OBVIOUS
      <4> QED BY <4>1
    <3>2. m * size = k * size + size + d * size BY <1>2, <3>1
    <3>3. d * size \in Nat /\ k * size \in Int BY <1>2, <3>1
    <3> QED BY <1>2, <3>2, <3>3
  <2>3. 0 * size = 0 BY <1>2
  <2>4. CASE b < 0
    <3>1. b * size + size <= 0 BY <2>2, <2>3, <2>4
    <3> QED BY <1>2, <1>3, <1>7, <2>1, <2>4, <3>1
  <2>5. CASE count < b \/ count = b
    <3>1. count * size <= b * size BY <1>2, <2>1, <2>2, <2>5
    <3>2. f \notin rows BY <1>2, <1>3, <1>7, <2>1, <3>1
    <3> QED BY <1>2, <2>5, <3>2
  <2>6. CASE 0 <= b /\ b < count
    <3>1. b * size + size <= count * size BY <1>2, <2>2, <2>6
    <3>2. 0 <= b * size
      <4>1. b = 0 \/ 0 < b BY <2>6
      <4>2. 0 < b => 0 * size + size <= b * size BY <2>2
      <4> QED BY <1>2, <2>1, <2>3, <4>1, <4>2
    <3>3. f \in rows BY <1>2, <1>3, <1>7, <2>1, <3>1, <3>2
    <3> QED BY <1>2, <2>6, <3>3
  <2> QED BY <1>2, <2>4, <2>5, <2>6
<1>8. IsFiniteSet(rows) /\ \A f \in rows : Fact(f) BY <1>3, FS_Subset
<1>9. s.totals = Sums(s.perProvider)
  <2> DEFINE k == [f \in rows |-> ProviderOf(f)]
             groups == s.perProvider
  <2>1. DOMAIN groups = P /\ \A f \in rows : k[f] \in P BY <1>1, <1>3, <1>5
  <2>2. \A p \in P : {f \in rows : k[f] = p} = of(rows, p) OBVIOUS
  <2>3. \A p \in P : groups[p] = TotalOf({f \in rows : k[f] = p}, Prices) BY <1>1, <2>2, ZenonT(40)
  <2> HIDE DEF k, groups, P, of
  <2>4. TotalOf(rows, Prices) = Sums(groups) BY <1>4, <1>8, <2>1, <2>3, TotalRegroups
  <2> QED BY <1>1, <2>4 DEF groups
<1>10. s.totals = Sums(s.models)
  <2> DEFINE k == [f \in rows |-> f.model]
             models == {f.model : f \in rows}
             groups == s.models
  <2>1. k \in Surjection(rows, models) BY DEF Surjection
  <2>2. IsFiniteSet(models)
    <3> HIDE DEF k, models
    <3> QED BY <1>8, <2>1, FS_Surjection
  <2>3. DOMAIN groups = models /\ \A f \in rows : k[f] \in models BY <1>1
  <2>4. \A m \in models : {f \in rows : k[f] = m} = {f \in rows : f.model = m} OBVIOUS
  <2>5. \A m \in models : groups[m] = TotalOf({f \in rows : k[f] = m}, Prices) BY <1>1, <2>4
  <2> HIDE DEF k, groups, models
  <2>6. TotalOf(rows, Prices) = Sums(groups) BY <1>8, <2>2, <2>3, <2>5, TotalRegroups
  <2> QED BY <1>1, <2>6 DEF groups
<1>11. ASSUME NEW b \in DOMAIN s.buckets, NEW p \in P
       PROVE  s.buckets[b].usage[p] =
                TotalOf({f \in facts : /\ s.buckets[b].start <= f.at
                                       /\ f.at < s.buckets[b].start + size
                                       /\ f.provider = p}, Prices)
  <2>1. b \in 0 .. count - 1 /\ b \in Int BY <1>1, <1>2
  <2>2. s.buckets[b].start = first + b * size
        /\ s.buckets[b].usage[p] = TotalOf(of(in(b), p), Prices)
    BY <1>1, <2>1
  <2>3. ASSUME NEW f \in facts
        PROVE  f \in of(in(b), p) <=> /\ first + b * size <= f.at
                                      /\ f.at < first + b * size + size
                                      /\ f.provider = p
    <3>1. f \in of(in(b), p) <=> f \in rows /\ index(f) = b /\ f.provider = p BY <1>5
    <3>2. f \in rows /\ index(f) = b => first + b * size <= f.at /\ f.at < first + b * size + size
      BY <1>6
    <3>3. first + b * size <= f.at /\ f.at < first + b * size + size => f \in rows /\ index(f) = b
      BY <1>6, <1>7, <2>1
    <3> QED BY <3>1, <3>2, <3>3
  <2>4. of(in(b), p) \subseteq facts BY <1>3
  <2> HIDE DEF of, in
  <2>5. of(in(b), p) = {f \in facts : /\ first + b * size <= f.at
                                      /\ f.at < first + b * size + size
                                      /\ f.provider = p}
    BY <2>3, <2>4
  <2> QED BY <2>2, <2>5
<1>12. s.totals.events >= Cardinality({f \in facts :
                             Now - RangeOf[range] + size <= f.at + 1 /\ f.at < Now})
  <2> DEFINE recent == {f \in facts : Now - RangeOf[range] + size <= f.at + 1 /\ f.at < Now}
  <2>1. ASSUME NEW f \in recent PROVE f \in rows
    <3>1. f.at \in Int /\ f \in facts BY DEF Fact
    <3>2. first <= f.at /\ f.at < first + RangeOf[range] BY <1>2, <3>1
    <3> QED BY <1>2, <1>3, <3>1, <3>2
  <2> HIDE DEF recent
  <2>2. recent \in SUBSET rows BY <2>1
  <2>3. Cardinality(recent) <= Cardinality(rows) /\ IsFiniteSet(recent) BY <1>8, <2>2, FS_Subset
  <2>4. Cardinality(recent) \in Nat /\ Cardinality(rows) \in Nat BY <1>8, <2>3, FS_CardinalityType
  <2>5. s.totals.events = Cardinality(rows) BY <1>1, <1>8, TotalCounts
  <2> QED BY <2>3, <2>4, <2>5 DEF recent
<1>13. s.totals = Sums([b \in DOMAIN s.buckets |-> Sums(s.buckets[b].usage)])
  <2> DEFINE k == [f \in rows |-> index(f)]
             D == 0 .. count - 1
             groups == [b \in DOMAIN s.buckets |-> Sums(s.buckets[b].usage)]
  <2>1. DOMAIN groups = D BY <1>1
  <2>2. \A f \in rows : k[f] \in D BY <1>3, <1>6, <1>7
  <2>3. IsFiniteSet(D) BY <1>2, FS_Interval
  <2>4. ASSUME NEW b \in D PROVE groups[b] = TotalOf({f \in rows : k[f] = b}, Prices)
    <3> DEFINE j == [f \in in(b) |-> ProviderOf(f)]
               usage == s.buckets[b].usage
    <3>1. usage = [p \in P |-> TotalOf(of(in(b), p), Prices)] BY <1>1
    <3>2. in(b) \in SUBSET rows /\ in(b) = {f \in rows : k[f] = b} OBVIOUS
    <3>3. IsFiniteSet(in(b)) /\ \A f \in in(b) : Fact(f) BY <1>8, <3>2, FS_Subset
    <3>4. \A p \in P : {f \in in(b) : j[f] = p} = of(in(b), p) OBVIOUS
    <3>5. DOMAIN usage = P /\ \A f \in in(b) : j[f] \in P BY <1>3, <1>5, <3>1
    <3>6. \A p \in P : usage[p] = TotalOf({f \in in(b) : j[f] = p}, Prices) BY <3>1, <3>4
    <3>7. groups[b] = Sums(usage) BY <2>1
    <3> HIDE DEF in, of, usage, j, P
    <3>8. TotalOf(in(b), Prices) = Sums(usage) BY <1>4, <3>3, <3>5, <3>6, TotalRegroups
    <3> QED BY <3>2, <3>7, <3>8
  <2> HIDE DEF k, D, groups
  <2>5. TotalOf(rows, Prices) = Sums(groups) BY <1>8, <2>1, <2>2, <2>3, <2>4, TotalRegroups
  <2> QED BY <1>1, <2>5 DEF groups
<1> QED BY <1>9, <1>10, <1>11, <1>12, <1>13 DEF Agrees, size

\* The dashboard's totals, providers, models and buckets count the same usage,
\* each fact once and in its bucket, whatever the logs, the rates and the ranges.
THEOREM TotalsAlwaysAgree == Spec => []TotalsAgree
<1>1. InputsOK /\ ClaudeIsLastRecord /\ CodexIsFirstRecord => TotalsAgree
  <2> SUFFICES ASSUME InputsOK, ClaudeIsLastRecord, CodexIsFirstRecord PROVE TotalsAgree OBVIOUS
  <2> DEFINE facts == OfClaude(claude).facts \cup OfCodex(codex).facts
  <2>1. IsFiniteSet(facts) /\ \A f \in facts : Fact(f) BY FactsOfLogs
  <2> HIDE DEF facts
  <2>2. \A range \in DOMAIN RangeOf :
          Agrees(SummarizeUsage(facts, Prices, range, Now), facts, range)
    BY <2>1, SummaryAgrees
  <2> QED BY <2>2 DEF TotalsAgree, facts
<1> QED BY <1>1, InputsAreOK, ClaudeLast, CodexFirst, PTL

=============================================================================
