------------------------------- MODULE MapSpec -------------------------------
(****************************************************************************)
(* What attos.Map promises its callers (the doc comments of reader.go and   *)
(* README.md): a read sees one version of the data, never one older than    *)
(* the version that was current when the read was called; a version stays   *)
(* in memory while any read holds it; and once the Map is closed and empty  *)
(* a new read fails.  HotSwap implements this.                              *)
(****************************************************************************)
EXTENDS Naturals

CONSTANT Readers

VARIABLES
    latest,   \* how many versions have been installed
    live,     \* the versions whose data is in memory
    shut,     \* Close was called
    emptied,  \* Close has removed the current version
    op,       \* what each reader is doing
    since,    \* the oldest version the read may return
    held,     \* the version the read is using, 0 if none
    res       \* the result of the reader's last read

vars == <<latest, live, shut, emptied, op, since, held, res>>

Init ==
    /\ latest \in {0, 1}
    /\ live = 1 .. latest
    /\ shut = FALSE /\ emptied = FALSE
    /\ op = [r \in Readers |-> "idle"]
    /\ since = [r \in Readers |-> 0]
    /\ held = [r \in Readers |-> 0]
    /\ res = [r \in Readers |-> "none"]

\* After Close no version is recent enough for a new read.
Call(r) ==
    /\ op[r] = "idle"
    /\ op' = [op EXCEPT ![r] = "calling"]
    /\ since' = [since EXCEPT ![r] = IF emptied THEN latest + 1 ELSE latest]
    /\ UNCHANGED <<latest, live, shut, emptied, held, res>>

Hold(r) ==
    /\ op[r] = "calling"
    /\ \E v \in live : /\ since[r] <= v
                       /\ held' = [held EXCEPT ![r] = v]
    /\ op' = [op EXCEPT ![r] = "holding"]
    /\ UNCHANGED <<latest, live, shut, emptied, since, res>>

Return(r) ==
    /\ op[r] = "holding"
    /\ op' = [op EXCEPT ![r] = "idle"]
    /\ held' = [held EXCEPT ![r] = 0]
    /\ since' = [since EXCEPT ![r] = 0]
    /\ res' = [res EXCEPT ![r] = "ok"]
    /\ UNCHANGED <<latest, live, shut, emptied>>

\* A read fails only for lack of a version when it was called, or because of Close.
Fail(r) ==
    /\ op[r] = "calling"
    /\ \/ since[r] = 0 /\ res' = [res EXCEPT ![r] = "ErrNoMap"]
       \/ shut /\ res' = [res EXCEPT ![r] = "ErrMapClosed"]
    /\ op' = [op EXCEPT ![r] = "idle"]
    /\ since' = [since EXCEPT ![r] = 0]
    /\ UNCHANGED <<latest, live, shut, emptied, held>>

Install ==
    /\ ~shut
    /\ latest' = latest + 1
    /\ live' = live \cup {latest + 1}
    /\ UNCHANGED <<shut, emptied, op, since, held, res>>

\* A replaced version may go once no read holds it.
Reclaim(v) ==
    /\ v < latest \/ emptied
    /\ \A r \in Readers : held[r] # v
    /\ live' = live \ {v}
    /\ UNCHANGED <<latest, shut, emptied, op, since, held, res>>

Shut ==
    /\ ~shut
    /\ shut' = TRUE
    /\ emptied' = (latest = 0)
    /\ UNCHANGED <<latest, live, op, since, held, res>>

Empty ==
    /\ shut
    /\ emptied' = TRUE
    /\ UNCHANGED <<latest, live, shut, op, since, held, res>>

Next == \/ \E r \in Readers : Call(r) \/ Hold(r) \/ Return(r) \/ Fail(r)
        \/ \E v \in live : Reclaim(v)
        \/ Install \/ Shut \/ Empty

Spec == Init /\ [][Next]_vars
=============================================================================
