---------------------------- MODULE MCCreateSummary ----------------------------
(* Constants for the run of CreateSummary.                                 *)
EXTENDS CreateSummary

Line(kind, base, number, agg) ==
  [kind |-> kind, base |-> base, number |-> number, agg |-> agg]

EndOfLine == Line("newline", 0, 0, 0)

Scalar(base, number, agg) == Line("scalar", base, number, agg)

Text(lines) == [i \in 1..(2 * Len(lines)) |->
                  IF i % 2 = 0 THEN EndOfLine ELSE lines[i \div 2 + (i % 2)]]

A   == Scalar(1, 0, 1)
B   == Scalar(2, 1, 1)
Run == Line("run", 0, 0, 0)
Statistic == Line("statistic", 2, 0, 2)
Field == Line("field", 0, 0, 0)
Bad == Line("bad", 0, 0, 0)

Short == {<<A>>, <<Field>>, <<B>>, <<B, A, Run, A>>, <<Statistic, Field>>,
          <<B, Bad, A>>}

\* Scalars of seven keys, in 42 orders.
Many == <<Scalar(1, 0, 1), Scalar(1, 0, 2), Scalar(1, 1, 1), Scalar(1, 1, 2),
          Scalar(2, 0, 1), Scalar(2, 2, 1), Scalar(2, 2, 2)>>

Ordered(a, b) == [i \in 1..7 |-> Many[1 + ((a * i + b) % 7)]]

\* The last line of some texts has no line break.
SummaryFiles ==
  {Text(s) : s \in Short}
  \cup {SubSeq(Text(s), 1, 3) : s \in {<<A, A>>, <<B, Bad>>}}
  \cup {Text(Ordered(a, b)) : a \in 1..6, b \in 0..6}

\* The files of the first two names, both in the format that is not used last.
OldFiles == {<<<<1, 0>>, TRUE>>, <<<<2, 0>>, FALSE>>}
================================================================================
