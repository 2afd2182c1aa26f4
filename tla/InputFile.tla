------------------------------- MODULE InputFile -------------------------------
(***************************************************************************)
(* The line reader of inputfile.cc.  A file is a sequence of characters;   *)
(* readLine() takes a buffer full of them at a time and keeps what follows *)
(* the first line for the next call.  A character stands for any text      *)
(* without a line break.                                                   *)
(*                                                                         *)
(* The end of the data is the end of the file or the first error of the    *)
(* decompressor: BZ2_bzRead() returns 0 in both cases.                     *)
(***************************************************************************)
EXTENDS Naturals, Sequences

CONSTANTS
  NewLine,   \* '\n'
  Capacity   \* min(sizeof(Storage), bufferSize - 1)

ASSUME InputFileAssumption == Capacity \in Nat \ {0}

OpenInput(text) == [data |-> text, storage |-> <<>>, line |-> 0]

PositionsOfNewLine(s) == {i \in DOMAIN s : s[i] = NewLine}

\* The line that is read (its characters), or the end of the file.  What is in
\* the buffer is dropped when there is no line break in it: this happens at the
\* end of a file whose last line has none, and for a line that is too long.
RECURSIVE ReadLine(_)
ReadLine(f) ==
  LET room  == Capacity - Len(f.storage)
      count == IF Len(f.data) < room THEN Len(f.data) ELSE room
      chunk == f.storage \o SubSeq(f.data, 1, count)
      left  == SubSeq(f.data, count + 1, Len(f.data))
      found == PositionsOfNewLine(chunk)
      first == CHOOSE i \in found : \A j \in found : i <= j
  IN IF chunk = <<>>
     THEN [eof |-> TRUE, text |-> <<>>, file |-> [f EXCEPT !.data = left]]
     ELSE IF found = {}
     THEN ReadLine([f EXCEPT !.data = left, !.storage = <<>>])
     ELSE [eof  |-> FALSE,
           text |-> SubSeq(chunk, 1, first - 1),
           file |-> [data    |-> left,
                     storage |-> SubSeq(chunk, first + 1, Len(chunk)),
                     line    |-> f.line + 1]]
================================================================================
