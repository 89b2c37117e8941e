----------------------------- MODULE CompileFile -----------------------------
(****************************************************************************)
(* How a compiled blob reaches its path: CompileFile and CompileV1 write a  *)
(* temporary file, sync it and rename it (builder.go), Compile writes in    *)
(* place (builder_v2.go), while other compilers write the same path,        *)
(* readers map it, writes fail and processes and power stop.                *)
(****************************************************************************)
EXTENDS Integers, FiniteSets

CONSTANTS
    Compilers,   \* goroutines or processes that compile to the path
    Readers,     \* that open it
    Formats,     \* the versions compiled: 1 (CompileFile), 2 (Compile)
    MaxFiles,    \* bound: files created
    MaxFaults    \* bound: failed writes, crashes, power losses

ASSUME FormatsAssumption == Formats \subseteq {1, 2}
ASSUME BoundsAssumption == MaxFiles \in Nat \ {0} /\ MaxFaults \in Nat

NoFile == 0
Files == 1 .. MaxFiles

VARIABLES
    version,     \* the version this behaviour compiles
    out,        \* the file (inode) outPath names
    outKept,    \* the one it names after a power loss, unless the rename reached the medium
    content,    \* of a file: unused, part (header or records missing), whole
    synced,     \* the bytes of a file are on the medium
    stage,         \* of a compiler
    fd,         \* the file it writes
    mapping,    \* the file a reader has mapped
    faults

outputVars == <<version, out, outKept, content, synced, stage, fd, mapping, faults>>

\* outPath may hold an earlier blob.
OutputInit ==
    /\ version \in Formats
    /\ out \in {NoFile, 1} /\ outKept = out
    /\ content = [f \in Files |-> IF f = out THEN "whole" ELSE "unused"]
    /\ synced = [f \in Files |-> f = out]
    /\ stage = [c \in Compilers |-> "idle"] /\ fd = [c \in Compilers |-> NoFile]
    /\ mapping = [r \in Readers |-> NoFile]
    /\ faults = 0

Fault == faults < MaxFaults /\ faults' = faults + 1
Step(c, from, to) == stage[c] = from /\ stage' = [stage EXCEPT ![c] = to]

\* mutant: the temporary file's name is not unique.
AnyFile(f) == f # out
FreshFile(f) == content[f] = "unused"

\* c creates a file that no name refers to yet (os.CreateTemp).
NewFile(c, f) ==
    /\ FreshFile(f)
    /\ content' = [content EXCEPT ![f] = "part"]
    /\ synced' = [synced EXCEPT ![f] = FALSE]
    /\ fd' = [fd EXCEPT ![c] = f]

----------------------------------------------------------------------------
\* CompileFile.  The rows are prepared before the first step: BuilderRows.

CreateTemp(c) ==
    /\ version = 1
    /\ Step(c, "idle", "write1")
    /\ \E f \in Files : NewFile(c, f)
    /\ UNCHANGED <<version, out, outKept, mapping, faults>>

\* The last byte of write.
Write(c) ==
    /\ \/ Step(c, "write1", "sync1") \/ Step(c, "write2", "sync2")
    /\ content' = [content EXCEPT ![fd[c]] = "whole"]
    /\ UNCHANGED <<version, out, outKept, synced, fd, mapping, faults>>

\* mutant: the file is renamed before it is synced.
SyncSkipped == FALSE
SyncDone == TRUE

\* tmp.Sync, tmp.Chmod, tmp.Close
SyncTemp(c) ==
    /\ Step(c, "sync1", "rename")
    /\ synced' = [synced EXCEPT ![fd[c]] = SyncDone]
    /\ UNCHANGED <<version, out, outKept, content, fd, mapping, faults>>

\* The deferred clean-up has nothing to do: ok is set.
Rename(c) ==
    /\ Step(c, "rename", "idle")
    /\ out' = fd[c]
    /\ fd' = [fd EXCEPT ![c] = NoFile]
    /\ UNCHANGED <<version, outKept, content, synced, mapping, faults>>

\* A write, sync or rename fails: the temporary file is removed.
Fails(c) ==
    /\ stage[c] \in {"write1", "sync1", "rename"} /\ Fault
    /\ stage' = [stage EXCEPT ![c] = "idle"]
    /\ content' = [content EXCEPT ![fd[c]] = "unused"]
    /\ fd' = [fd EXCEPT ![c] = NoFile]
    /\ UNCHANGED <<version, out, outKept, synced, mapping>>

----------------------------------------------------------------------------
\* CompileWithOptions.

\* os.Create: a new file, or the one outPath names is truncated.
CreateInPlace(c) ==
    /\ version = 2
    /\ Step(c, "idle", "write2")
    /\ IF out = NoFile
       THEN \E f \in Files : NewFile(c, f) /\ out' = f
       ELSE /\ content' = [content EXCEPT ![out] = "part"]
            /\ synced' = [synced EXCEPT ![out] = FALSE]
            /\ fd' = [fd EXCEPT ![c] = out]
            /\ UNCHANGED out
    /\ UNCHANGED <<version, outKept, mapping, faults>>

SyncInPlace(c) ==
    /\ Step(c, "sync2", "idle")
    /\ synced' = [synced EXCEPT ![fd[c]] = TRUE]
    /\ fd' = [fd EXCEPT ![c] = NoFile]
    /\ UNCHANGED <<version, out, outKept, content, mapping, faults>>

\* The error is returned and the file stays as it is.
FailsInPlace(c) ==
    /\ stage[c] \in {"write2", "sync2"} /\ Fault
    /\ stage' = [stage EXCEPT ![c] = "idle"]
    /\ fd' = [fd EXCEPT ![c] = NoFile]
    /\ UNCHANGED <<version, out, outKept, content, synced, mapping>>

----------------------------------------------------------------------------
\* Readers and the machine.

\* openMapping: the size arithmetic of parseHeader rejects a file that is not whole.
Open(r) ==
    /\ out # NoFile /\ content[out] = "whole"
    /\ mapping' = [mapping EXCEPT ![r] = out]
    /\ UNCHANGED <<version, out, outKept, content, synced, stage, fd, faults>>

\* The file system writes the directory back.
WriteBack ==
    /\ outKept' = out
    /\ UNCHANGED <<version, out, content, synced, stage, fd, mapping, faults>>

Crash(c) ==
    /\ stage[c] # "idle" /\ Fault
    /\ stage' = [stage EXCEPT ![c] = "idle"]
    /\ fd' = [fd EXCEPT ![c] = NoFile]
    /\ UNCHANGED <<version, out, outKept, content, synced, mapping>>

\* Every process ends; bytes that were not synced may be missing.
PowerLoss ==
    /\ Fault
    /\ out' \in {out, outKept}
    /\ outKept' = out'
    /\ content' = [f \in Files |-> IF content[f] = "whole" /\ ~synced[f] THEN "part" ELSE content[f]]
    /\ stage' = [c \in Compilers |-> "idle"] /\ fd' = [c \in Compilers |-> NoFile]
    /\ mapping' = [r \in Readers |-> NoFile]
    /\ UNCHANGED <<version, synced>>

OutputNext ==
        \/ \E c \in Compilers : \/ CreateTemp(c) \/ Write(c) \/ SyncTemp(c) \/ Rename(c) \/ Fails(c)
                                \/ CreateInPlace(c) \/ SyncInPlace(c) \/ FailsInPlace(c) \/ Crash(c)
        \/ \E r \in Readers : Open(r)
        \/ WriteBack \/ PowerLoss

OutputSpec == OutputInit /\ [][OutputNext]_outputVars

----------------------------------------------------------------------------
\* Properties.

OutputTypeOK ==
    /\ version \in Formats /\ out \in Files \cup {NoFile} /\ outKept \in Files \cup {NoFile}
    /\ content \in [Files -> {"unused", "part", "whole"}] /\ synced \in [Files -> BOOLEAN]
    /\ stage \in [Compilers -> {"idle", "write1", "sync1", "rename", "write2", "sync2"}]
    /\ fd \in [Compilers -> Files \cup {NoFile}]
    /\ \A c \in Compilers : stage[c] \in {"write1", "sync1", "rename"} =>
          \A d \in Compilers \ {c} : fd[c] # fd[d]
    /\ mapping \in [Readers -> Files \cup {NoFile}]
    /\ faults \in 0 .. MaxFaults

\* CompileFile: outPath never names an incomplete file, whoever else compiles to it,
\* whatever fails, and after a power loss.
OutIntact == version = 1 /\ out # NoFile => content[out] = "whole"

\* CompileFile: a file that a Map has mapped is never changed under it, however often its
\* path is compiled again; a lookup would fault or read half a record.
MappingIntact ==
    version = 1 => \A r \in Readers : mapping[r] # NoFile => content[mapping[r]] = "whole"
=============================================================================
