----------------------------- MODULE CreateSummary -----------------------------
(***************************************************************************)
(* The program createsummary: it obeys the commands on its standard input, *)
(* reads scalar files into a red-black tree of ScalarNodes, and writes one *)
(* results file per scalar name, the rows in the order of the tree.        *)
(*                                                                         *)
(* A line of a scalar file is one character of InputFile.  A scalar is     *)
(* what getAggregate() leaves of it: the base of its name, a number at its *)
(* end (0: none) and the numbers of its objects.  Its value is the place   *)
(* where it is read, so that all values differ.                            *)
(***************************************************************************)
EXTENDS RedBlackTree, InputFile

CONSTANTS
  Files,        \* the texts of scalar files
  Values,       \* --values=
  StatusFiles,  \* --statusfile=
  Skippable,     \* --skip=, the base of a scalar name
  OldResults,   \* the results files of an earlier call
  MaxInputs,    \* bound on the number of --input= commands
  MaxOptions,   \* bound on the number of options in force
  MaxLength     \* bound on the length of two files together

ASSUME CreateSummaryAssumption ==
  /\ Files \subseteq Seq([kind : {"scalar", "statistic", "field", "run",
                                  "other", "bad", "newline"},
                          base : Nat, number : Nat, agg : Nat])
  /\ NewLine.kind = "newline"
  /\ Values \subseteq Nat \ {0} /\ StatusFiles \subseteq Nat \ {0}
  /\ Skippable \subseteq Nat
  /\ \A f \in OldResults : f[2] \in BOOLEAN
  /\ {MaxInputs, MaxOptions, MaxLength} \subseteq Nat

None == 0

VARIABLES
  pc,         \* what main() is doing
  exitCode,   \* 0 or 1, or Running
  opts,       \* scalarSplittingMode, ignoreScalarFileErrors, and whether
              \* compressionLevel > 0
  cmd,        \* varValues and statusFileName, or None
  skip,       \* SkipList, by the base of its prefix
  input,      \* the open scalar file, run and the last "statistic"
  storage,    \* StatisticsStorage
  valueSet,   \* ScalarNode::ValueSet, by key
  spare,      \* NextScalarNode # nullptr
  fileError,  \* scalarFileError
  results,    \* the results directory: <<name, compressed?>> |-> rows
  dump,       \* node and lastStatisticsName of dumpScalars()
  unlinked,   \* status files that were removed
  inputs      \* history: the scalar files and how they were to be read

vars == <<pc, exitCode, opts, cmd, skip, input, storage, valueSet, spare,
          fileError, results, dump, unlinked, inputs>>

Running == 2
NoInput == [file |-> OpenInput(<<>>), run |-> 0, statistic |-> <<>>]
NoName  == <<>>

-----------------------------------------------------------------------------
(* Scalar nodes, by their keys.                                            *)

\* The number at the end of the name becomes the SplitName, if that is wanted.
SplitName(scalar, splitting) == IF splitting THEN scalar.number ELSE 0

\* The key that scalarNodeComparisonFunction() looks at.
Key(scalar, splitting, values, run) ==
  <<scalar.base, scalar.number - SplitName(scalar, splitting),
    SplitName(scalar, splitting), scalar.agg, values, run>>

KeyLength == 6

NameOf(key) == <<key[1], key[2]>>

RunFirst(x, y) ==
  \/ x[6] < y[6]
  \/ /\ x[6] = y[6]
     /\ \E i \in 1..5 : x[i] < y[i] /\ \A j \in 1..(i - 1) : x[j] = y[j]

\* scalarNodeComparisonFunction(): the name is compared first.
ScalarNodeComparison(x, y) ==
  \E i \in 1..KeyLength : x[i] < y[i] /\ \A j \in 1..(i - 1) : x[j] = y[j]

TypeOK ==
  /\ pc \in {"commands", "reading", "dumping", "cleaning", "exited"}
  /\ exitCode \in {0, 1, Running}
  /\ opts \in [splitting : BOOLEAN, ignoring : BOOLEAN, compressed : BOOLEAN]
  /\ cmd \in [values : Values \cup {None}, statusFile : StatusFiles \cup {None}]
  /\ skip \subseteq Skippable
  /\ Linked(storage) = DOMAIN valueSet
  /\ \A key \in DOMAIN valueSet : valueSet[key] # <<>>
  /\ spare \in BOOLEAN /\ fileError \in BOOLEAN
  /\ \A f \in DOMAIN results : f[2] \in BOOLEAN
  /\ dump.node \in DOMAIN valueSet \cup {Null}
  /\ unlinked \subseteq StatusFiles
  /\ Len(inputs) <= MaxInputs

\* The options of the command line that have a command, too, are left to it.
Init ==
  /\ pc = "commands" /\ exitCode = Running
  /\ opts \in [splitting : {FALSE}, ignoring : {FALSE}, compressed : BOOLEAN]
  /\ cmd = [values |-> None, statusFile |-> None]
  /\ skip = {}
  /\ input = NoInput
  /\ storage = New /\ valueSet = <<>> /\ spare = FALSE
  /\ fileError = FALSE
  /\ results = [f \in OldResults |-> <<"old">>]
  /\ dump = [node |-> Null, last |-> NoName]
  /\ unlinked = {}
  /\ inputs = <<>>

Exit(code) == pc' = "exited" /\ exitCode' = code

-----------------------------------------------------------------------------
(* The commands.                                                           *)

Reading == pc = "commands"

SetValues(v) ==
  /\ Reading
  /\ cmd' = [cmd EXCEPT !.values = v]
  /\ UNCHANGED <<pc, exitCode, opts, skip, input, storage, valueSet, spare,
                 fileError, results, dump, unlinked, inputs>>

\* Bound: few of the following four commands together.
FewOptions ==
  MaxOptions > Cardinality(skip)
               + (IF opts.splitting THEN 1 ELSE 0)
               + (IF opts.ignoring THEN 1 ELSE 0)
               + (IF cmd.statusFile # None THEN 1 ELSE 0)

\* Each simulation run has a status file of its own.
SetStatusFile(s) ==
  /\ Reading /\ FewOptions
  /\ \A n \in DOMAIN inputs : inputs[n].statusFile # s
  /\ cmd' = [cmd EXCEPT !.statusFile = s]
  /\ UNCHANGED <<pc, exitCode, opts, skip, input, storage, valueSet, spare,
                 fileError, results, dump, unlinked, inputs>>

Skip(base) ==
  /\ Reading /\ FewOptions
  /\ skip' = skip \cup {base}
  /\ UNCHANGED <<pc, exitCode, opts, cmd, input, storage, valueSet, spare,
                 fileError, results, dump, unlinked, inputs>>

SplitAll ==
  /\ Reading /\ FewOptions
  /\ opts' = [opts EXCEPT !.splitting = TRUE]
  /\ UNCHANGED <<pc, exitCode, cmd, skip, input, storage, valueSet, spare,
                 fileError, results, dump, unlinked, inputs>>

IgnoreScalarFileErrors ==
  /\ Reading /\ FewOptions
  /\ opts' = [opts EXCEPT !.ignoring = TRUE]
  /\ UNCHANGED <<pc, exitCode, cmd, skip, input, storage, valueSet, spare,
                 fileError, results, dump, unlinked, inputs>>

\* Wrong quotation always ends the program, as does an unknown command in batch
\* mode and --input= without values.
RefuseCommand ==
  /\ Reading
  /\ Exit(1)
  /\ UNCHANGED <<opts, cmd, skip, input, storage, valueSet, spare, fileError,
                 results, dump, unlinked, inputs>>

\* --input=, as far as the call of initialize().
OpenScalarFile(text) ==
  /\ Reading
  /\ cmd.values # None
  /\ Len(inputs) < MaxInputs
  /\ \A i \in DOMAIN inputs : Len(inputs[i].text) + Len(text) <= MaxLength
  /\ pc' = "reading"
  /\ input' = [NoInput EXCEPT !.file = OpenInput(text)]
  /\ inputs' = Append(inputs, [text |-> text, values |-> cmd.values,
                               statusFile |-> cmd.statusFile, opened |-> TRUE,
                               splitting |-> opts.splitting, skip |-> skip])
  /\ UNCHANGED <<exitCode, opts, cmd, skip, storage, valueSet, spare, fileError,
                 results, dump, unlinked>>

\* What main() does when handleScalarFile() has returned.
AfterFileKeepingStatusFile(success) ==
  /\ pc' = "commands"
  /\ cmd' = [cmd EXCEPT !.values = None]
  /\ fileError' = (fileError \/ ~success)
  /\ unlinked' = unlinked \cup
       (IF success \/ cmd.statusFile = None THEN {} ELSE {cmd.statusFile})
  /\ input' = NoInput

AfterFile(success) ==
  /\ pc' = "commands"
  /\ cmd' = [values |-> None, statusFile |-> None]
  /\ fileError' = (fileError \/ ~success)
  /\ unlinked' = unlinked \cup
       (IF success \/ cmd.statusFile = None THEN {} ELSE {cmd.statusFile})
  /\ input' = NoInput

\* The scalar file cannot be opened.
NoScalarFile ==
  /\ Reading
  /\ cmd.values # None
  /\ Len(inputs) < MaxInputs
  /\ AfterFile(FALSE)
  /\ inputs' = Append(inputs, [text |-> <<>>, values |-> cmd.values,
                               statusFile |-> cmd.statusFile, opened |-> FALSE,
                               splitting |-> opts.splitting, skip |-> skip])
  /\ UNCHANGED <<exitCode, opts, skip, storage, valueSet, spare, results, dump>>

-----------------------------------------------------------------------------
(* handleScalarFile(), line by line.                                       *)

\* addScalar(): NextScalarNode is used up unless its key is known.
AddScalar(key, value) ==
  LET known == Find(storage, key) = key IN
  /\ storage' = Insert(storage, key)
  /\ valueSet' = IF known THEN [valueSet EXCEPT ![key] = Append(@, value)]
                 ELSE valueSet @@ key :> <<value>>
  /\ spare' = known

\* handleScalar(): scalars with a prefix of the skip list are dropped.
HandleScalar(scalar, value) ==
  IF scalar.base \in skip THEN UNCHANGED <<storage, valueSet, spare>>
  ELSE AddScalar(Key(scalar, opts.splitting, cmd.values, input.run), value)

ReadScalarFile ==
  LET read  == ReadLine(input.file)
      line  == Head(read.text)
      value == <<Len(inputs), read.file.line>>
      wrong == line.kind = "bad" \/ (line.kind = "field" /\ input.statistic = <<>>)
      scalar == IF line.kind = "field" THEN input.statistic[1] ELSE line
  IN /\ pc = "reading"
     /\ \/ /\ read.eof
           /\ AfterFile(TRUE)
           /\ UNCHANGED <<storage, valueSet, spare>>
        \/ /\ ~read.eof /\ wrong
           /\ AfterFile(FALSE)
           /\ UNCHANGED <<storage, valueSet, spare>>
        \/ /\ ~read.eof /\ ~wrong
           /\ input' = [file |-> read.file,
                        run  |-> input.run + (IF line.kind = "run" THEN 1 ELSE 0),
                        statistic |-> IF line.kind = "statistic" THEN <<line>>
                                      ELSE input.statistic]
           /\ IF line.kind \in {"scalar", "field"} THEN HandleScalar(scalar, value)
              ELSE UNCHANGED <<storage, valueSet, spare>>
           /\ UNCHANGED <<pc, cmd, fileError, unlinked>>
     /\ UNCHANGED <<exitCode, opts, skip, results, dump, inputs>>

-----------------------------------------------------------------------------
(* dumpScalars().                                                          *)

\* The end of the commands.
EndOfCommands ==
  /\ Reading
  /\ IF fileError /\ ~opts.ignoring
     THEN Exit(1) /\ UNCHANGED dump
     ELSE /\ pc' = "dumping"
          /\ dump' = [node |-> GetFirst(storage), last |-> NoName]
          /\ UNCHANGED exitCode
  /\ UNCHANGED <<opts, cmd, skip, input, storage, valueSet, spare, fileError,
                 results, unlinked, inputs>>

FileOf(name) == <<name, opts.compressed>>
TwinOf(name) == <<name, ~opts.compressed>>

Rows(key) == [i \in DOMAIN valueSet[key] |-> <<key, i, valueSet[key][i]>>]

Without(files) == [f \in DOMAIN results \ files |-> results[f]]

\* The rows of one node.  With the first one of another name, the last file is
\* closed, the file of the other format is removed and a new file is begun.
DumpScalar ==
  LET name  == NameOf(dump.node)
      isNew == name # dump.last
      base  == IF isNew THEN Without({TwinOf(name)}) ELSE results
      rows  == IF isNew THEN Rows(dump.node)
               ELSE results[FileOf(name)] \o Rows(dump.node)
  IN /\ pc = "dumping" /\ dump.node # Null
     /\ results' = [f \in DOMAIN base \cup {FileOf(name)} |->
                      IF f = FileOf(name) THEN rows ELSE base[f]]
     /\ dump' = [node |-> GetNext(storage, dump.node), last |-> name]
     /\ UNCHANGED <<pc, exitCode, opts, cmd, skip, input, storage, valueSet,
                    spare, fileError, unlinked, inputs>>

\* The last file is closed, and the spare node is deleted.
DumpEnds ==
  /\ pc = "dumping" /\ dump.node = Null
  /\ pc' = "cleaning"
  /\ spare' = FALSE
  /\ UNCHANGED <<exitCode, opts, cmd, skip, input, storage, valueSet, fileError,
                 results, dump, unlinked, inputs>>

\* finish() of the last file fails, and removes it.
CloseFails ==
  /\ pc = "dumping"
  /\ dump.last # NoName
  /\ IF dump.node = Null THEN TRUE ELSE NameOf(dump.node) # dump.last
  /\ results' = Without({FileOf(dump.last)})
  /\ Exit(1)
  /\ UNCHANGED <<opts, cmd, skip, input, storage, valueSet, spare, fileError,
                 dump, unlinked, inputs>>

\* A new file cannot be opened, or a row cannot be written: what was written
\* before stays.
WriteFails ==
  /\ pc = "dumping" /\ dump.node # Null
  /\ LET name  == NameOf(dump.node)
         base  == IF name # dump.last THEN Without({TwinOf(name)}) ELSE results
     IN \/ name # dump.last /\ results' = base
        \/ \E n \in 0..(Len(valueSet[dump.node]) - 1) :
             results' = [f \in DOMAIN base \cup {FileOf(name)} |->
                           IF f # FileOf(name) THEN base[f]
                           ELSE (IF name = dump.last THEN base[f] ELSE <<>>)
                                \o SubSeq(Rows(dump.node), 1, n)]
  /\ Exit(1)
  /\ UNCHANGED <<opts, cmd, skip, input, storage, valueSet, spare, fileError,
                 dump, unlinked, inputs>>

CleanUpDeletingOnly ==
  LET first == GetFirst(storage) IN
  /\ pc = "cleaning"
  /\ IF first = Null THEN Exit(0) /\ UNCHANGED valueSet
     ELSE /\ valueSet' = [k \in DOMAIN valueSet \ {first} |-> valueSet[k]]
          /\ UNCHANGED <<pc, exitCode>>
  /\ UNCHANGED <<opts, cmd, skip, input, storage, spare, fileError, results,
                 dump, unlinked, inputs>>

\* The nodes are removed from the tree and deleted, from the first one on; with
\* the last one the program ends.
CleanUp ==
  LET first == GetFirst(storage) IN
  /\ pc = "cleaning"
  /\ IF first = Null THEN Exit(0) /\ UNCHANGED <<storage, valueSet>>
     ELSE /\ storage' = Remove(storage, first)
          /\ valueSet' = [k \in DOMAIN valueSet \ {first} |-> valueSet[k]]
          /\ UNCHANGED <<pc, exitCode>>
  /\ UNCHANGED <<opts, cmd, skip, input, spare, fileError, results, dump,
                 unlinked, inputs>>

Next ==
  \/ \E v \in Values : SetValues(v)
  \/ \E s \in StatusFiles : SetStatusFile(s)
  \/ \E b \in Skippable : Skip(b)
  \/ SplitAll \/ IgnoreScalarFileErrors \/ RefuseCommand
  \/ \E text \in Files : OpenScalarFile(text)
  \/ NoScalarFile
  \/ ReadScalarFile
  \/ EndOfCommands \/ DumpScalar \/ DumpEnds \/ CloseFails \/ WriteFails
  \/ CleanUp

Spec == Init /\ [][Next]_vars

-----------------------------------------------------------------------------
(* What the results should be, told from the inputs as a whole.            *)

\* The lines of a text that end with a line break.
Lines(text) == SelectSeq(text, LAMBDA c : c # NewLine)
LinesOf(in) ==
  IF in.text # <<>> /\ in.text[Len(in.text)] # NewLine
  THEN SubSeq(Lines(in.text), 1, Len(Lines(in.text)) - 1)
  ELSE Lines(in.text)

\* The lines before line i that are of this kind.
EarlierOf(lines, i, kind) == {j \in 1..(i - 1) : lines[j].kind = kind}

IsWrong(lines, i) ==
  \/ lines[i].kind = "bad"
  \/ lines[i].kind = "field" /\ EarlierOf(lines, i, "statistic") = {}

Failed(in) ==
  ~in.opened \/ \E i \in DOMAIN LinesOf(in) : IsWrong(LinesOf(in), i)

ScalarAt(lines, i) ==
  IF lines[i].kind = "scalar" THEN lines[i]
  ELSE LET above == EarlierOf(lines, i, "statistic")
       IN lines[CHOOSE j \in above : \A k \in above : k <= j]

\* The values read from input n: those of its scalars and fields before the
\* first wrong line, unless they are skipped.
ValuesOf(n) ==
  LET in    == inputs[n]
      lines == LinesOf(in)
      good  == {i \in DOMAIN lines : \A j \in 1..i : ~IsWrong(lines, j)}
      taken == {i \in good : /\ lines[i].kind \in {"scalar", "field"}
                             /\ ScalarAt(lines, i).base \notin in.skip}
  IN {[key |-> Key(ScalarAt(lines, i), in.splitting, in.values,
                   Cardinality(EarlierOf(lines, i, "run"))),
       value |-> <<n, i>>] : i \in taken}

AllValues == UNION {ValuesOf(n) : n \in DOMAIN inputs}

ReadBefore(x, y) == x[1] < y[1] \/ (x[1] = y[1] /\ x[2] < y[2])

\* The rows of a name: its values, numbered by key in the order of reading.
ExpectedRows(name) ==
  {<<x.key, 1 + Cardinality({y \in AllValues : /\ y.key = x.key
                                               /\ ReadBefore(y.value, x.value)}),
     x.value>> : x \in {y \in AllValues : NameOf(y.key) = name}}

Sorted(rows) ==
  \A i \in 1..(Len(rows) - 1) :
    \/ ScalarNodeComparison(rows[i][1], rows[i + 1][1])
    \/ rows[i][1] = rows[i + 1][1] /\ rows[i][2] < rows[i + 1][2]

-----------------------------------------------------------------------------
(* Properties.                                                             *)

IsSound(t, keys) ==
  /\ Verify(t)
  /\ Linked(t) = keys
  /\ LET order == InOrder(t) IN
     /\ Len(order) = Cardinality(keys)
     /\ \A i \in 1..(Len(order) - 1) : ScalarNodeComparison(order[i], order[i + 1])

\* The storage is a red-black tree with the nodes in their order, and it stays
\* one when any two of its nodes are removed.
StorageIsSound ==
  LET keys == DOMAIN valueSet IN
  /\ IsSound(storage, keys)
  /\ keys # {} => InternalFind(storage, GetLast(storage), "right") = Null
  /\ pc = "commands" =>
       \A x \in keys :
         LET t == Remove(storage, x) IN
         /\ IsSound(t, keys \ {x})
         /\ \A y \in keys \ {x} : IsSound(Remove(t, y), keys \ {x, y})

\* At a good end, the results hold each value that was read exactly once, in the
\* one file of its name, sorted and numbered; there is no file of the same name
\* in the other format, and nothing is left in memory.
SummaryIsExact ==
  exitCode = 0 =>
    /\ \A name \in {NameOf(x.key) : x \in AllValues} :
         /\ FileOf(name) \in DOMAIN results
         /\ TwinOf(name) \notin DOMAIN results
         /\ LET rows == results[FileOf(name)] IN
            /\ {rows[i] : i \in DOMAIN rows} = ExpectedRows(name)
            /\ Len(rows) = Cardinality(ExpectedRows(name))
            /\ Sorted(rows)
    /\ ~spare /\ IsEmpty(storage)

\* "Not all scalar files have been read -> aborting!": when a file has failed,
\* results are written only if this was asked for; and the status files of the
\* inputs that failed are removed, those of the other ones are not.
FailuresAreNoted ==
  /\ pc \in {"dumping", "cleaning"} \/ exitCode = 0 =>
       opts.ignoring \/ \A n \in DOMAIN inputs : ~Failed(inputs[n])
  /\ pc # "reading" =>
       LET failed == {n \in DOMAIN inputs : Failed(inputs[n])}
           StatusFilesOf(S) == {inputs[n].statusFile : n \in S} \ {None}
       IN /\ unlinked = StatusFilesOf(failed)
          /\ unlinked \cap StatusFilesOf(DOMAIN inputs \ failed) = {}
================================================================================
