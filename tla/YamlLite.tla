------------------------------ MODULE YamlLite ------------------------------
(***************************************************************************)
(* The reader of the operator-edited catalog configuration (yaml-lite.ts). *)
(*                                                                         *)
(* A line is a record:                                                     *)
(*   mark    "text", "start" (---) or "end" (...)                          *)
(*   indent  the column of its first character                             *)
(*   item    it starts with a dash                                         *)
(*   inner   the column of its key or value: indent when there is no dash, *)
(*           more when there is, by as many blanks as follow it            *)
(*   key     the key of `key: value`, or None                              *)
(*   value   what follows the key or the dash, None when nothing does, or  *)
(*           Unsupported (anchors, tags, flow and block collections)       *)
(* A document is its outline: its keys, dashes and values in order, each   *)
(* as <<depth, token>>.  The outcome of a parser is a record               *)
(* [err, node, at]: at is the line after what it consumed.                 *)
(***************************************************************************)
EXTENDS Integers, SequencesExt

CONSTANTS None, Unsupported

Scan(raw) ==
  FoldLeft(LAMBDA lines, l : IF l.mark = "text" THEN Append(lines, l) ELSE lines, <<>>, raw)

\* A document marker after content starts a second document.
SecondDocument(raw) ==
  \E i, j \in DOMAIN raw : i < j /\ raw[i].mark = "text" /\ raw[j].mark = "start"

Failed == [err |-> TRUE, node |-> <<>>, at |-> 0]
Parsed(node, at) == [err |-> FALSE, node |-> node, at |-> at]

Null          == <<>>
Scalar(value) == <<<<0, value>>>>

\* A key or dash with the value below it.
Under(label, node) ==
  <<<<0, label>>>> \o [n \in DOMAIN node |-> <<node[n][1] + 1, node[n][2]>>]

HasKey(mapping, key) == \E n \in DOMAIN mapping : mapping[n] = <<0, key>>

\* Is there a line at index i, and at this indent?
At(lines, i, indent) == i <= Len(lines) /\ lines[i].indent = indent

-----------------------------------------------------------------------------
(* The recursive descent: blocks[i][kind][indent] is what is read from     *)
(* line i on of a block of this kind whose lines are at this indent.       *)

Kinds == {"map", "seq"}

ParseNode(blocks, lines, i, indent) ==
  blocks[i][IF lines[i].item THEN "seq" ELSE "map"][indent]

\* Mutant: a child may start at the column of its parent.
ChildAtParent(blocks, lines, i, indent) ==
  IF i > Len(lines) \/ lines[i].indent < indent THEN Parsed(Null, i)
  ELSE ParseNode(blocks, lines, i, lines[i].indent)

ParseChild(blocks, lines, i, indent) ==
  IF i > Len(lines) \/ lines[i].indent <= indent THEN Parsed(Null, i)
  ELSE ParseNode(blocks, lines, i, lines[i].indent)

\* The value after a key or a dash, or the block below it.
ParseValue(blocks, lines, i, indent) ==
  CASE lines[i].value = None        -> ParseChild(blocks, lines, i + 1, indent)
    [] lines[i].value = Unsupported -> Failed
    [] OTHER                        -> Parsed(Scalar(lines[i].value), i + 1)

\* A key at this column, its value, and the other entries of its mapping.
ParseEntries(blocks, lines, i, column) ==
  LET v      == ParseValue(blocks, lines, i, column)
      others == blocks[v.at]["map"][column]
  IN IF v.err \/ others.err \/ HasKey(others.node, lines[i].key) THEN Failed
     ELSE Parsed(Under(lines[i].key, v.node) \o others.node, others.at)

ParseMapping(blocks, lines, i, indent) ==
  IF ~At(lines, i, indent) THEN Parsed(Null, i)
  ELSE IF lines[i].item \/ lines[i].key = None THEN Failed
  ELSE ParseEntries(blocks, lines, i, indent)

\* `- key: value` opens a mapping two columns from the dash, where its key is
\* when one blank follows the dash; wherever the key is, this is its column.
ParseSequence(blocks, lines, i, indent) ==
  IF ~At(lines, i, indent) \/ ~lines[i].item THEN Parsed(Null, i)
  ELSE LET v      == IF lines[i].key = None THEN ParseValue(blocks, lines, i, indent)
                     ELSE ParseEntries(blocks, lines, i, indent + 2)
           others == blocks[v.at]["seq"][indent]
       IN IF v.err \/ others.err THEN Failed
          ELSE Parsed(Under("-", v.node) \o others.node, others.at)

Block(blocks, lines, i, kind, indent) ==
  IF kind = "map" THEN ParseMapping(blocks, lines, i, indent)
  ELSE ParseSequence(blocks, lines, i, indent)

Blocks(lines) ==
  LET blocks[i \in 1 .. Len(lines) + 1] ==
        [kind \in Kinds |-> [indent \in Nat |-> Block(blocks, lines, i, kind, indent)]]
  IN blocks

\* All lines have to be consumed.
ParseYaml(raw) ==
  LET lines == Scan(raw)
      doc   == ParseNode(Blocks(lines), lines, 1, lines[1].indent)
  IN IF SecondDocument(raw) THEN Failed
     ELSE IF lines = <<>> THEN Parsed(Null, 1)
     ELSE IF doc.err \/ doc.at <= Len(lines) THEN Failed ELSE doc
=============================================================================
