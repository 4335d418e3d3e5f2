------------------------------ MODULE Listing ------------------------------
(***************************************************************************)
(* What a listing promises while its table is being written: the answer is *)
(* in order and without repetition, has every row that was there the whole *)
(* time, and no row that never was.                                        *)
(***************************************************************************)
EXTENDS Integers, Sequences

CONSTANT Names   \* what the rows are listed by, in its order

VARIABLES
    rows,     \* the rows of the table
    kept,     \* the rows there since the listing began
    met,      \* the rows there at some moment since
    report    \* the answer, and whether it has been given

listing == <<rows, kept, met, report>>

Ascending(s) == \A i, j \in 1..Len(s) : i < j => s[i] < s[j]
Listed(s) == {s[i] : i \in 1..Len(s)}

NoAnswer == [given |-> FALSE, rows |-> <<>>]
Answered(s) == [given |-> TRUE, rows |-> s]

Init ==
    /\ rows \in SUBSET Names
    /\ kept = rows /\ met = rows
    /\ report = NoAnswer

\* The table as the listing sees it after a row has come or gone.
Write(new) == rows' = new /\ kept' = kept \cap new /\ met' = met \cup new

Insert == \E x \in Names \ rows : Write(rows \cup {x}) /\ UNCHANGED report
Remove == \E x \in rows : Write(rows \ {x}) /\ UNCHANGED report

Answer ==
    /\ ~report.given
    /\ report'.given
    /\ Ascending(report'.rows)
    /\ kept \subseteq Listed(report'.rows) /\ Listed(report'.rows) \subseteq met
    /\ UNCHANGED <<rows, kept, met>>

Next == Insert \/ Remove \/ Answer

Spec == Init /\ [][Next]_listing
=============================================================================
