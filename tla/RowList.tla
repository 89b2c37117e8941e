------------------------------- MODULE RowList -------------------------------
(****************************************************************************)
(* What a Builder promises (doc comments of BuildFrom, Add, Compile): it is *)
(* a list of rows; a call that fails leaves the list as it was and reports  *)
(* the error the precedence rule names; what is compiled is the list.       *)
(****************************************************************************)
EXTENDS Integers, Sequences

CONSTANTS
    Keys, Values,            \* byte sequences
    Sources,                 \* inputs of BuildFrom: [rows |-> sequence of rows, end |-> how it ends]
    MaxKeyLen, MaxValueLen   \* limits of a row

VARIABLES
    call,      \* the last call, with its argument
    rows,      \* the accepted rows: [key, val, line]
    result,    \* of the last call: [kind, line, first]
    emitted    \* the rows the last call wrote to a file

Row == [key : Keys, val : Values]
Result(kind, line, first) == [kind |-> kind, line |-> line, first |-> first]
Ok == Result("ok", 0, 0)

TooLong(row) == Len(row.key) > MaxKeyLen \/ Len(row.val) > MaxValueLen

Init == call = <<"none">> /\ rows = <<>> /\ result = Result("none", 0, 0) /\ emitted = <<>>

Add(row) ==
    /\ call' = <<"Add", row>>
    /\ IF TooLong(row)
       THEN result' = Result("limit", 0, 0) /\ UNCHANGED rows
       ELSE result' = Ok /\ rows' = Append(rows, [key |-> row.key, val |-> row.val, line |-> 0])
    /\ emitted' = <<>>

\* Row n of list repeats the key of an earlier one.
Repeats(list, n) == \E q \in 1 .. n - 1 : list[q].key = list[n].key

\* The error for row n, which repeats an earlier key: it names the first row that has it.
DuplicateError(list, n) ==
    LET q == CHOOSE m \in 1 .. n - 1 : /\ list[m].key = list[n].key
                                       /\ \A k \in 1 .. m - 1 : list[k].key # list[n].key
    IN Result("dup", list[n].line, list[q].line)

\* The error for the first row after from that is too long or repeats an earlier key.
FirstError(list, from) ==
    LET bad == {n \in from + 1 .. Len(list) : TooLong(list[n]) \/ Repeats(list, n)}
        n == CHOOSE m \in bad : \A k \in bad : m <= k
    IN IF bad = {} THEN Ok
       ELSE IF TooLong(list[n]) THEN Result("limit", list[n].line, 0) ELSE DuplicateError(list, n)

\* "a parse error anywhere in src wins; otherwise the earliest row that exceeds a size
\* limit or repeats an earlier key is reported"
BuildFrom(src) ==
    LET all == rows \o [n \in 1 .. Len(src.rows) |->
                          [key |-> src.rows[n].key, val |-> src.rows[n].val, line |-> n]]
    IN /\ call' = <<"BuildFrom", src>>
       /\ result' = IF src.end # "eof" THEN Result(src.end, 0, 0) ELSE FirstError(all, Len(rows))
       /\ rows' = IF result' = Ok THEN all ELSE rows
       /\ emitted' = <<>>

\* A file is only compiled from rows with distinct keys, and holds all of them.  A
\* duplicate is reported only where there is one; other errors are left open.
Compile ==
    /\ call' = <<"Compile">>
    /\ \/ /\ result' = Ok /\ emitted' = rows
          /\ \A n \in DOMAIN rows : ~Repeats(rows, n)
       \/ /\ \E n \in DOMAIN rows : Repeats(rows, n) /\ result' = DuplicateError(rows, n)
          /\ emitted' = <<>>
       \/ /\ result'.kind \in {"unplaceable", "toolarge", "noentries"}
          /\ emitted' = <<>>
    /\ UNCHANGED rows

Reset == call' = <<"Reset">> /\ rows' = <<>> /\ result' = Ok /\ emitted' = <<>>

Next == \/ \E row \in Row : Add(row)
        \/ \E src \in Sources : BuildFrom(src)
        \/ Compile \/ Reset

Spec == Init /\ [][Next]_<<call, rows, result, emitted>>
=============================================================================
