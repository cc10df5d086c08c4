----------------------------- MODULE ScanOrder ------------------------------
(* How created_at is stored and ordered. Both tables keep the time as an     *)
(* RFC3339Nano text in the server's zone, and the list queries order by that *)
(* text, not by the time it stands for.                                      *)
EXTENDS Integers, Sequences

CONSTANTS
  Radix,      \* values a digit can take: 10 in the code, fewer in a run
  Offset(_)   \* the zone's distance from UTC, in seconds, at a reading

ASSUME RadixAssumption == Radix \in Nat /\ Radix > 1
-----------------------------------------------------------------------------
\* A reading is an integer number of ticks; two digits make up a second here,
\* nine in the code.
Second == Radix * Radix

\* The characters the layout uses, by their ASCII codes.
Plus == 43
Minus == 45
Dot == 46
Digit(d) == 48 + d
Zulu == 90

\* The layout drops trailing zeros and, with nothing left, the dot as well.
Fraction(t) ==
  LET high == (t \div Radix) % Radix
      low == t % Radix
  IN CASE high = 0 /\ low = 0 -> <<>>
       [] low = 0 /\ high # 0 -> <<Dot, Digit(high)>>
       [] OTHER -> <<Dot, Digit(high), Digit(low)>>

Zone(t) == CASE Offset(t) = 0 -> <<Zulu>>
             [] Offset(t) > 0 -> <<Plus, Offset(t)>>
             [] Offset(t) < 0 -> <<Minus, -Offset(t)>>

\* The fields down to the second have a fixed width: they compare as a number.
Text(t) == <<(t \div Second) + Offset(t)>> \o Fraction(t) \o Zone(t)

\* BINARY collation: byte by byte, a proper prefix first.
TextBefore(a, b) ==
  \E k \in 1..Len(b) :
    /\ k <= Len(a) + 1
    /\ \A j \in 1..(k - 1) : a[j] = b[j]
    /\ k = Len(a) + 1 \/ (k <= Len(a) /\ a[k] < b[k])

\* Variant: without DESC.
ListedBefore_Ascending(table, i, j) ==
  LET ti == Text(table[i].createdAt)
      tj == Text(table[j].createdAt)
  IN TextBefore(ti, tj) \/ (ti = tj /\ i < j)

\* ORDER BY created_at DESC: row i of a table is listed above row j. Rows with
\* the same text stay in the order SQLite's sorter met them.
ListedBefore(table, i, j) ==
  LET ti == Text(table[i].createdAt)
      tj == Text(table[j].createdAt)
  IN TextBefore(tj, ti) \/ (ti = tj /\ i < j)

\* The ids of the table's rows as the list shows them.
NewestTextFirst(table) ==
  CHOOSE list \in [DOMAIN table -> DOMAIN table] :
    \A k, l \in DOMAIN table : k < l => ListedBefore(table, list[k], list[l])
=============================================================================
