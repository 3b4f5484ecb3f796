------------------------------- MODULE Cursor -------------------------------
(***************************************************************************)
(* cursor.py: the cursor of an offset is its decimal form, padded with zeros *)
(* to a fixed width, after the topic's name.  Postgres and _advance compare  *)
(* cursors as strings; the in-memory store decodes and compares numbers.     *)
(* The topic is the same on both sides of a comparison and is left out.      *)
(***************************************************************************)
LOCAL INSTANCE Integers
LOCAL INSTANCE Sequences

CONSTANTS
    Radix,      \* 10 in the code
    Width       \* _OFFSET_WIDTH

ASSUME CursorAssumption == Radix \in Nat \ {0, 1} /\ Width \in Nat \ {0}

\* How many numbers have n digits: Radix to the n.
Power[n \in Nat] == IF n = 0 THEN 1 ELSE Radix * Power[n - 1]

\* The least number of digits from w on that o fits in.
DigitsFrom(w, o) ==
    CHOOSE n \in w .. w + o : /\ o < Power[n]
                              /\ \A k \in w .. n - 1 : o >= Power[k]

Digits(o, n) == [i \in 1 .. n |-> (o \div Power[n - i]) % Radix]

\* Mutant: the offset is not padded.
EncodeUnpadded(o) == Digits(o, DigitsFrom(1, o))

\* encode: an offset too large for the width takes more digits.
Encode(o) == Digits(o, DigitsFrom(Width, o))

\* Byte-wise lexicographic order.
Precedes(a, b) ==
    \E n \in 0 .. Len(a) :
        /\ n < Len(b)
        /\ \A i \in 1 .. n : a[i] = b[i]
        /\ n = Len(a) \/ a[n + 1] < b[n + 1]
=============================================================================
