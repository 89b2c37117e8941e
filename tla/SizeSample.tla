----------------------------- MODULE SizeSample -----------------------------
(****************************************************************************)
(* The sample attos-size takes of a file (sampleFile): the first rows until *)
(* the sample is full, then each row in place of a random one, or none.     *)
(* A row is its number; how a record is split into a key and a value is     *)
(* left out.                                                                *)
(****************************************************************************)
EXTENDS Integers, Sequences, FiniteSets, Functions

CONSTANTS
    Limits,     \* values of -sample; one that is not positive takes every row
    MaxRows     \* bound: rows of a file

ASSUME SampleAssumption == Limits \subseteq Int /\ MaxRows \in Nat

VARIABLES
    limit,      \* config.sample
    total,      \* rows read
    sample,     \* rows kept
    reading     \* "rows", "done" or "failed"

sampleVars == <<limit, total, sample, reading>>

SampleInit ==
    /\ limit \in Limits
    /\ total = 0 /\ sample = <<>>
    /\ reading = "rows"

\* rng.Int63n(total): total already counts the row.
\* mutant: it does not yet.
DrawsBefore(row) == 0 .. (IF row = 1 THEN 0 ELSE row - 2)
Draws(row) == 0 .. row - 1

HasRoom(s, lim) == lim <= 0 \/ Len(s) < lim

\* mutant: a row that is appended is also drawn for.
AppendAndReplace(s, lim, row, j) ==
    LET longer == IF HasRoom(s, lim) THEN Append(s, row) ELSE s
    IN IF j < Len(longer) THEN [longer EXCEPT ![j + 1] = row] ELSE longer

\* The sample after a row, when j is drawn.
Kept(s, lim, row, j) ==
    IF HasRoom(s, lim) THEN Append(s, row)
    ELSE IF j < lim THEN [s EXCEPT ![j + 1] = row] ELSE s

ReadRow(j) ==
    /\ reading = "rows" /\ total < MaxRows
    /\ total' = total + 1
    /\ sample' = Kept(sample, limit, total + 1, j)
    /\ UNCHANGED <<limit, reading>>

EndOfFile ==
    /\ reading = "rows"
    /\ reading' = "done"
    /\ UNCHANGED <<limit, total, sample>>

\* A malformed record, or one with too few columns.
BadRow ==
    /\ reading = "rows"
    /\ reading' = "failed"
    /\ UNCHANGED <<limit, total, sample>>

SampleNext == (\E j \in Draws(total + 1) : ReadRow(j)) \/ EndOfFile \/ BadRow

SampleSpec == SampleInit /\ [][SampleNext]_sampleVars

----------------------------------------------------------------------------
\* report.Exact
Exact == Len(sample) = total

\* The sample after n rows with draws d.
SampleOf(n, lim, d) ==
    LET s[i \in 0 .. n] == IF i = 0 THEN <<>> ELSE Kept(s[i - 1], lim, i, d[i])
    IN s[n]
DrawsOf(n) == {d \in [1 .. n -> 0 .. n - 1] : \A i \in 1 .. n : d[i] \in Draws(i)}

----------------------------------------------------------------------------
\* Properties.

SampleTypeOK ==
    /\ limit \in Limits /\ total \in 0 .. MaxRows
    /\ sample \in Seq(1 .. total) /\ (limit > 0 => Len(sample) <= limit)
    /\ reading \in {"rows", "done", "failed"}

\* No row is sampled twice, which the Builder would report as a duplicate key, and a report
\* that calls itself exact has every row (run, buildVariants).
RowsOnce ==
    /\ IsInjective(sample)
    /\ Exact => Range(sample) = 1 .. total

\* Every row of the file is as likely to be in the sample as any other: the draws that keep
\* it are as many for each (the replacement step of sampleFile).
DrawsKeeping(row, n, lim) == {d \in DrawsOf(n) : row \in Range(SampleOf(n, lim, d))}
EquallyLikely ==
    \A row, other \in 1 .. total :
        Cardinality(DrawsKeeping(row, total, limit)) = Cardinality(DrawsKeeping(other, total, limit))

\* The sample is one the estimate can be built from: of the size asked for, without repeated
\* rows, and drawn evenly.
SampleFair == SampleTypeOK /\ RowsOnce /\ EquallyLikely
=============================================================================
