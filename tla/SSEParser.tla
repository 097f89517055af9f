------------------------------ MODULE SSEParser ------------------------------
(***************************************************************************)
(* createSSEParser: text arrives in chunks that may end anywhere, lines    *)
(* are cut out of it and collected to records, and the data of a record is *)
(* given to the caller at the blank line behind it. A character is the     *)
(* first or the second half of the data line of an event, a line without   *)
(* data (a comment, another field), or part of a line's end.               *)
(***************************************************************************)
EXTENDS Arrays, SequencesExt

CONSTANT MaxRecords   \* bound: records of a stream

ASSUME SSEAssumption == MaxRecords \in Nat

VARIABLES
  records,    \* the stream: the events of its records, 0 for one without data
  ending,     \* how its lines end
  fed,        \* how many characters were read
  buffer,     \* the beginning of a line
  data,       \* the data lines of the record
  delivered,  \* the events given to the caller
  finished

parserVars == <<records, ending, fed, buffer, data, delivered, finished>>

-----------------------------------------------------------------------------
Char(kind, n) == [kind |-> kind, event |-> n]
CR == Char("cr", 0)
LF == Char("lf", 0)
Comment == 0

\* The backend writes one data line and a blank line; the parser takes other
\* ends of lines as well.
Endings == {<<LF>>, <<CR>>, <<CR, LF>>}
Text(n) ==
  (IF n = Comment THEN <<Char("comment", 0)>> ELSE <<Char("first", n), Char("second", n)>>)
    \o ending \o ending

Stream == FlattenSeq([i \in DOMAIN records |-> Text(records[i])])
Events == 1..MaxRecords
Sent == Kept(records, Events)
\* The events whose records were read to their end.
Due ==
  LET read(i) == Len(FlattenSeq([j \in 1..i |-> Text(records[j])])) <= fed
  IN Kept(SubSeq(records, 1, Cardinality({i \in DOMAIN records : read(i)})), Events)

SSEInit ==
  /\ \E n \in 0..MaxRecords :
       records \in {r \in [1..n -> 0..n] :
                      \A i \in 1..n : r[i] \in {Comment, i}}
  /\ ending \in Endings
  /\ fed = 0 /\ buffer = <<>> /\ data = <<>> /\ delivered = <<>> /\ finished = FALSE

-----------------------------------------------------------------------------
\* dispatchRecord: what is not the text of one whole event is left out.
Dispatched(lines) ==
  IF Len(lines) = 1 /\ lines[1] # Comment THEN lines ELSE <<>>

\* Mutant of DataAfterBlank: the record is not begun anew.
DataAfterBlankKept(lines) == lines

DataAfterBlank(lines) == <<>>

\* consumeLine. A data line that lacks its second half is no event.
ConsumeLine(parser) ==
  LET line == parser.line
  IN IF line = <<>>
     THEN [parser EXCEPT !.data = DataAfterBlank(@), !.out = @ \o Dispatched(parser.data)]
     ELSE IF line[1].kind = "comment" THEN [parser EXCEPT !.line = <<>>]
     ELSE [parser EXCEPT !.line = <<>>,
             !.data = Append(@, IF Len(line) = 2 THEN line[1].event ELSE Comment)]

\* What the parser goes on from; nothing of a chunk was read yet.
Parser == [line |-> buffer, data |-> data, out |-> delivered, behind |-> Char("none", 0)]

\* A line ends at CR LF, CR or LF; the LF behind a CR belongs to it if both are
\* in the buffer.
ConsumeChar(parser, char) ==
  LET next == IF char = LF /\ parser.behind = CR THEN parser
              ELSE IF char \in {CR, LF} THEN ConsumeLine(parser)
              ELSE [parser EXCEPT !.line = Append(@, char)]
  IN [next EXCEPT !.behind = char]

Consume(chunk) == FoldLeft(ConsumeChar, Parser, chunk)

Push ==
  /\ ~finished
  /\ \E upto \in fed + 1..Len(Stream) :
       LET parser == Consume(SubSeq(Stream, fed + 1, upto))
       IN /\ fed' = upto
          /\ buffer' = parser.line /\ data' = parser.data /\ delivered' = parser.out
  /\ UNCHANGED <<records, ending, finished>>

\* The stream ends, perhaps in the middle: what is left is taken as a record.
Finish ==
  LET last == IF buffer = <<>> THEN Parser ELSE ConsumeLine(Parser)
  IN /\ ~finished
     /\ finished' = TRUE
     /\ delivered' = last.out \o Dispatched(last.data)
     /\ buffer' = <<>> /\ data' = <<>>
     /\ UNCHANGED <<records, ending, fed>>

SSENext == Push \/ Finish

-----------------------------------------------------------------------------
SSETypeOK ==
  /\ fed \in 0..Len(Stream) /\ Len(buffer) <= 2
  /\ \A i \in DOMAIN delivered : delivered[i] \in Events

\* Where the chunks end does not matter, nor where the stream ends: the events
\* given to the caller are the first that were sent, each once and in order,
\* and all whose records were read.
ChunksDoNotMatter == IsPrefix(Due, delivered) /\ IsPrefix(delivered, Sent)
=============================================================================
