---------------------------- MODULE TypedValues ----------------------------
(****************************************************************************)
(* Typed values (typed.go): Schema.Encode lays the fields of a value out    *)
(* one after the other, and the accessors find a field again by name,       *)
(* stepping over the fields before it, in the value or in a prefix of it.   *)
(*                                                                          *)
(* A byte is a digit of base Base.  Integers have one byte (U8, I8) or as   *)
(* many as a word, two (U64, I64), and so has the length of a String or     *)
(* Bytes field; the widths in between differ in nothing else.  A float is   *)
(* its bits, of which F32 keeps the high half.                              *)
(****************************************************************************)
EXTENDS Integers, Sequences

CONSTANTS
    Base,        \* 2^8
    Schemas,     \* sequences of fields: a name and a type
    Arguments,   \* values passed to Encode: a dynamic kind and a value
    Error        \* the result of an accessor that returns ErrSchema

VARIABLES
    schema,
    vals,        \* the arguments encoded so far
    encoded,     \* the bytes so far
    outcome      \* "encoding", "done" or "rejected"

valueVars == <<schema, vals, encoded, outcome>>

WordSize == Base * Base
Unsigned == {"U8", "U64"}
Signed == {"I8", "I64"}
Floats == {"F32", "F64"}
Variable == {"String", "Bytes"}
\* How many values w bytes have.
Span(w) == IF w = 1 THEN Base ELSE WordSize
Width(t) == IF t \in {"U8", "I8", "F32", "Bool"} THEN 1 ELSE 2

InRange(n, w) == -(Span(w) \div 2) <= n /\ n < Span(w) \div 2

ASSUME BaseAssumption == Base \in Nat \ {0, 1} /\ Error \notin Nat
ASSUME SchemasAssumption ==
    \A s \in Schemas : /\ Len(s) \in Nat /\ DOMAIN s = 1 .. Len(s)
                       /\ \A i \in DOMAIN s : s[i].type \in Unsigned \cup Signed \cup Floats
                                                          \cup Variable \cup {"Bool"}
ASSUME ArgumentsAssumption ==
    \A x \in Arguments :
        /\ x.kind \in {"uint", "float"} => x.val \in 0 .. WordSize - 1
        /\ x.kind \in {"int", "int32"} => x.val \in Int /\ InRange(x.val, 2)
        /\ x.kind = "bool" => x.val \in BOOLEAN
        /\ x.kind = "bytes" => x.val \in Seq(0 .. Base - 1)

ValuesInit ==
    /\ schema \in Schemas
    /\ vals = <<>> /\ encoded = <<>>
    /\ outcome = "encoding"

----------------------------------------------------------------------------
\* Encode

\* toUint, toInt and toFloat: the dynamic kinds they take.  "int" is int and int64, "int32"
\* the narrower signed kinds, "uint" all unsigned ones.
UintOK(x) == x.kind = "uint" \/ (x.kind = "int" /\ x.val >= 0)
IntOK(x) == x.kind \in {"int", "int32"}
FloatOK(x) == x.kind = "float"

Holds(t, x) ==
    \/ t \in Unsigned /\ UintOK(x) /\ (t = "U64" \/ x.val < Span(Width(t)))
    \/ t \in Signed /\ IntOK(x) /\ (t = "I64" \/ InRange(x.val, Width(t)))
    \/ t \in Floats /\ FloatOK(x)
    \/ t = "Bool" /\ x.kind = "bool"
    \/ t \in Variable /\ x.kind = "bytes" /\ Len(x.val) < WordSize

\* appendUint: the low w bytes, the highest first.
\* mutant: the lowest first.
LowFirst(n, w) == IF w = 1 THEN <<n % Base>> ELSE <<n % Base, (n \div Base) % Base>>
AppendUint(n, w) == IF w = 1 THEN <<n % Base>> ELSE <<(n \div Base) % Base, n % Base>>

FieldBytes(t, x) ==
    CASE t \in Unsigned \cup Signed -> AppendUint(x.val % WordSize, Width(t))
      [] t = "F32"  -> AppendUint(x.val \div Base, 1)
      [] t = "F64"  -> AppendUint(x.val, 2)
      [] t = "Bool" -> <<IF x.val THEN 1 ELSE 0>>
      [] OTHER      -> AppendUint(Len(x.val), 2) \o x.val

Field == schema[Len(vals) + 1]

WrongCount ==
    /\ outcome = "encoding" /\ vals = <<>>
    /\ outcome' = "rejected"
    /\ UNCHANGED <<schema, vals, encoded>>

EncodeField(x) ==
    /\ outcome = "encoding" /\ Len(vals) < Len(schema)
    /\ vals' = Append(vals, x)
    /\ IF Holds(Field.type, x)
       THEN encoded' = encoded \o FieldBytes(Field.type, x) /\ UNCHANGED outcome
       ELSE outcome' = "rejected" /\ UNCHANGED encoded
    /\ UNCHANGED schema

EncodeDone ==
    /\ outcome = "encoding" /\ Len(vals) = Len(schema)
    /\ outcome' = "done"
    /\ UNCHANGED <<schema, vals, encoded>>

ValuesNext == WrongCount \/ EncodeDone \/ \E x \in Arguments : EncodeField(x)

ValuesSpec == ValuesInit /\ [][ValuesNext]_valueVars

----------------------------------------------------------------------------
\* The accessors, on a value v.

U16(v, pos) == v[pos + 1] * Base + v[pos + 2]

VariableSize(v, pos) == 2 + U16(v, pos)

\* locate: the index of the first field of that name and where it begins; the error when the
\* value ends in the length of a field before it.
First(name) == CHOOSE i \in 1 .. Len(schema) :
                   schema[i].name = name /\ \A j \in 1 .. i - 1 : schema[j].name # name
Position(v, i) ==
    LET before[j \in 0 .. i - 1] ==
            IF j = 0 THEN 0
            ELSE LET pos == before[j - 1]
                     t == schema[j].type
                 IN IF pos = Error THEN Error
                    ELSE IF t \notin Variable THEN pos + Width(t)
                    ELSE IF pos + 2 > Len(v) THEN Error
                    ELSE pos + VariableSize(v, pos)
    IN before[i - 1]

\* fixed: the bytes of a field of fixed width.
\* mutant: the end of the value is not looked at beyond the field's first byte.
FirstByteThere(v, pos, w) == pos + 1 <= Len(v)
AllThere(v, pos, w) == pos + w <= Len(v)

Number(v, pos, w) ==
    LET at(i) == IF i <= Len(v) THEN v[i] ELSE 0
    IN IF w = 1 THEN at(pos + 1) ELSE at(pos + 1) * Base + at(pos + 2)
TwosComplement(n, w) == IF n >= Span(w) \div 2 THEN n - Span(w) ELSE n

\* Uint, Int, Float, Bool, Bytes and String, by the type of the field; they reject another.
Read(v, name) ==
    LET i == First(name)
        t == schema[i].type
        pos == Position(v, i)
    IN IF pos = Error THEN Error
       ELSE IF t \in Variable
       THEN IF pos + 2 > Len(v) \/ pos + 2 + U16(v, pos) > Len(v) THEN Error
            ELSE SubSeq(v, pos + 3, pos + 2 + U16(v, pos))
       ELSE IF ~AllThere(v, pos, Width(t)) THEN Error
       ELSE LET num == Number(v, pos, Width(t))
            IN CASE t \in Unsigned -> num
                 [] t \in Signed   -> TwosComplement(num, Width(t))
                 [] t = "F32"      -> num * Base
                 [] t = "F64"      -> num
                 [] OTHER          -> num = 1

----------------------------------------------------------------------------
\* Properties.

ValuesTypeOK ==
    /\ schema \in Schemas
    /\ vals \in Seq(Arguments) /\ Len(vals) <= Len(schema)
    /\ encoded \in Seq(0 .. Base - 1)
    /\ outcome \in {"encoding", "done", "rejected"}

FieldNames == {schema[i].name : i \in 1 .. Len(schema)}

\* The value meant by an argument: a float32 loses the low half of the bits.
Meant(t, x) == IF t = "F32" THEN x.val - (x.val % Base) ELSE x.val

\* What Encode accepts is read back, each field by its name, whatever fields come before it:
\* no value is cut to the width of its field, and no position is off.
ReadsBack ==
    outcome = "done" =>
        \A name \in FieldNames :
            Read(encoded, name) = Meant(schema[First(name)].type, vals[First(name)])

\* A field read from a value that was cut short is an error or the field: never part of it
\* and never bytes of another.
PrefixReads ==
    outcome = "done" =>
        \A k \in 0 .. Len(encoded) : \A name \in FieldNames :
            Read(SubSeq(encoded, 1, k), name) \in {Error, Read(encoded, name)}

\* A value is read as it was encoded, or not at all.
ValuesFaithful == ValuesTypeOK /\ ReadsBack /\ PrefixReads
=============================================================================
