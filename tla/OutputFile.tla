------------------------------ MODULE OutputFile -------------------------------
(***************************************************************************)
(* The results files of outputfile.cc.  A file holds the rows that reached *)
(* it; a failed write leaves the error mark of the stream, which the       *)
(* compressor finds when it is closed.                                     *)
(***************************************************************************)
EXTENDS Sequences

Formats == {"None", "Plain", "BZip2"}

NewFile(format) ==
  [format |-> format, open |-> format # "None", packing |-> format = "BZip2",
   rows |-> <<>>, failed |-> FALSE, writeError |-> FALSE]

Exists(file) == file.open

\* write(): the caller of printf() ignores what it returns.  The compressor
\* refuses everything after an error, a plain file goes on.
Write(file, row, okay) ==
  IF ~Exists(file) THEN file
  ELSE IF okay /\ ~(file.packing /\ file.failed)
  THEN [file EXCEPT !.rows = Append(@, row)]
  ELSE [file EXCEPT !.failed = TRUE]

FinishUnchecked(file, closeFile) ==
  [file EXCEPT !.packing = FALSE, !.open = @ /\ ~closeFile, !.failed = FALSE]

\* finish(): the end of the compression finds an error of the stream; the
\* rewind() of a file that stays open clears it.
Finish(file, closeFile) ==
  LET error == file.writeError \/ (file.packing /\ file.failed)
  IN [file EXCEPT !.packing = FALSE, !.writeError = error,
                  !.open = @ /\ ~closeFile, !.failed = FALSE]
================================================================================
