------------------------------ MODULE Metrics ------------------------------
(***************************************************************************)
(* The usage series of a tenant (pkg/api/service/metrics): its buckets are *)
(* listed page by page, each one's series is asked of the upload service,  *)
(* several at a time, and the series are summed.  Meanwhile buckets are    *)
(* created and deleted, and hilt's clock and the upload service's go on,   *)
(* each on its own.                                                        *)
(*                                                                         *)
(* The listing is ListByTenant under store.Collect: a page has the first   *)
(* rows after the cursor, by name, and carries a cursor if there are more. *)
(* The rows are the ones the request's filters let through.                *)
(*                                                                         *)
(* Time is in ticks, several to a second; a sample is known by the second  *)
(* its bucket of the range ends at.                                        *)
(***************************************************************************)
EXTENDS Integers, Sequences, FiniteSets, FiniteSetsExt

CONSTANTS
    Names,       \* bucket names of the tenant
    Limits,      \* page sizes: the default, or what the caller asks for
    Second,      \* ticks in a second
    Window,      \* the window of the query, in seconds
    Asked,       \* the ranges asked for: <<from, to>> in ticks
    Now,         \* hilt's clock when it reads it, in ticks
    Clocks,      \* the upload service's clock when it is first asked
    LastTick     \* and it is followed up to here

ASSUME MetricsAssumption ==
    /\ Names \subseteq Nat \ {0} /\ IsFiniteSet(Names) /\ Limits \subseteq Nat \ {0}
    /\ Second \in Nat \ {0} /\ Window \in Nat \ {0} /\ Now \in Nat
    /\ Asked \subseteq Nat \X Nat
    /\ LastTick \in Nat /\ Clocks \subseteq 0..LastTick

VARIABLES
    rows, kept, met,     \* the bucket table, and its history as in Listing
    range,               \* what was asked
    items, cursor,       \* the listing so far, and where it goes on
    runs,                \* the series of each listed bucket
    clock,               \* the upload service's clock
    pc,
    series               \* the answer

vars == <<rows, kept, met, range, items, cursor, runs, clock, pc, series>>

NoCursor == 0
NoRun == [asked |-> FALSE, at |-> 0, ends |-> {}]

-----------------------------------------------------------------------------
(***************************************************************************)
(* The range.                                                              *)
(***************************************************************************)
Truncate(tick) == tick \div Second

\* ParseRange: the bounds in whole seconds, the end after the start.
ParseRange(asked) == Truncate(asked[1]) < Truncate(asked[2])

from == Truncate(range[1])

\* Mutant of clamp: the end is left for each call's own clock to cut.
clampLater(to) == Truncate(to)

\* clamp: to the second hilt's clock is in.
clamp(to) == IF Truncate(to) > Truncate(Now) THEN Truncate(Now) ELSE Truncate(to)

end == clamp(range[2])

Init ==
    /\ rows \in SUBSET Names /\ kept = rows /\ met = rows
    /\ range \in {a \in Asked : ParseRange(a)}
    /\ items = <<>> /\ cursor = NoCursor
    /\ runs = <<>>
    /\ clock \in Clocks
    /\ pc = "range"
    /\ series = {}

-----------------------------------------------------------------------------
\* The buckets and the upload service go on meanwhile.
CreateBucket ==
    /\ \E x \in Names \ rows : rows' = rows \cup {x} /\ met' = met \cup {x}
    /\ pc = "list" /\ UNCHANGED <<kept, range, items, cursor, runs, clock, pc, series>>

DeleteBucket ==
    /\ \E x \in rows : rows' = rows \ {x} /\ kept' = kept \ {x}
    /\ pc = "list" /\ UNCHANGED <<met, range, items, cursor, runs, clock, pc, series>>

Tick ==
    /\ pc = "sample" /\ clock < LastTick /\ clock' = clock + 1
    /\ UNCHANGED <<rows, kept, met, range, items, cursor, runs, pc, series>>

-----------------------------------------------------------------------------
\* An emptied range is answered before anything is read.
CheckRange ==
    /\ pc = "range"
    /\ pc' = IF end > from THEN "list" ELSE "empty"
    /\ UNCHANGED <<rows, kept, met, range, items, cursor, runs, clock, series>>

\* Mutant of nextCursor: the first row left out, not the last one returned.
nextCursorAfter(fs, limit) == IF Len(fs) > limit THEN fs[limit + 1] ELSE NoCursor

\* The cursor of a page of limit rows: one row more than that was fetched.
nextCursor(fs, limit) == IF Len(fs) > limit THEN fs[limit] ELSE NoCursor

\* ListByTenant's rows after the cursor, by name.
found ==
    LET after == {x \in rows : x > cursor}
    IN  CHOOSE s \in [1..Cardinality(after) -> after] :
            \A i, j \in DOMAIN s : i < j => s[i] < s[j]

\* Collect: one page after another, until there is no cursor.
Page ==
    /\ pc = "list"
    /\ \E limit \in Limits :
          /\ items' = items \o SubSeq(found, 1, IF Len(found) > limit THEN limit ELSE Len(found))
          /\ cursor' = nextCursor(found, limit)
    /\ pc' = IF cursor' # NoCursor THEN "list"
             ELSE IF items' = <<>> THEN "answered" ELSE "sample"
    /\ runs' = [i \in 1..Len(items') |-> NoRun]
    /\ UNCHANGED <<rows, kept, met, range, clock, series>>

\* The upload service's series: every window of the range, the last one cut short
\* at the range's end or at its own clock.
SampleUsage(lo, hi) ==
    LET last == Min({hi, Truncate(clock)})
    IN  IF last <= lo THEN {}
        ELSE {t \in (lo + 1)..last : (t - lo) % Window = 0} \cup {last}

\* One bucket's series arrives; the calls are under way at once, in any order.
Sample ==
    /\ pc = "sample"
    /\ \E i \in DOMAIN runs :
          /\ ~runs[i].asked
          /\ runs' = [runs EXCEPT ![i] = [asked |-> TRUE, at |-> clock,
                                       ends |-> SampleUsage(from, end)]]
    /\ pc' = IF \A i \in DOMAIN runs : runs'[i].asked THEN "sum" ELSE "sample"
    /\ UNCHANGED <<rows, kept, met, range, items, cursor, clock, series>>

\* A call fails, and with it the request.
SampleFails ==
    /\ pc = "sample" /\ pc' = "failed"
    /\ UNCHANGED <<rows, kept, met, range, items, cursor, runs, clock, series>>

\* The runs with a sample for an instant; a total names the buckets it adds up.
counted(at) == {i \in DOMAIN runs : at \in runs[i].ends}
total(at) == [end |-> at, of |-> [i \in counted(at) |-> items[i]]]

\* Mutant of reported: an instant any run reached.
reportedByAny(at) == counted(at) # {}

\* Only instants every run reached are reported.
reported(at) == Cardinality(counted(at)) = Len(runs)

sum ==
    /\ pc = "sum" /\ pc' = "answered"
    /\ series' = {total(at) : at \in {t \in UNION {runs[i].ends : i \in DOMAIN runs} :
                                         reported(t)}}
    /\ UNCHANGED <<rows, kept, met, range, items, cursor, runs, clock>>

Next == CreateBucket \/ DeleteBucket \/ Tick \/ CheckRange \/ Page \/ Sample \/ SampleFails \/ sum

Spec == Init /\ [][Next]_vars

-----------------------------------------------------------------------------
(***************************************************************************)
(* Properties.                                                             *)
(***************************************************************************)

\* The paged listing is a listing: what it has collected when the last page is
\* read is in name order, without repetition, has every bucket that was there
\* throughout and none that never was, though pages are read at different times.
Answer == INSTANCE Listing WITH
    report <- IF pc \in {"range", "empty", "list"} THEN [given |-> FALSE, rows |-> <<>>]
              ELSE [given |-> TRUE, rows |-> items]
PagesMakeAListing == Answer!Spec

\* A reported total is the tenant's: it adds up every listed bucket once, a bucket
\* that was there throughout among them, even when the upload service's clock cut
\* some of the series short.
TotalsAreWhole ==
    \A t \in series : \A b \in kept :
        Cardinality({i \in DOMAIN t.of : t.of[i] = b}) = 1

\* Unless the upload service's clock is behind hilt's, the series goes up to the end
\* of the range or to the present, whichever is first: no window of it is dropped,
\* and no instant but the last is off the grid, though the service's clock goes on
\* between the calls.
SeriesIsComplete ==
    LET last == Min({Truncate(range[2]), Truncate(Now)})
    IN  pc = "answered" /\ items # <<>> /\ (\A i \in DOMAIN runs : runs[i].at >= Now) =>
            {t.end : t \in series} =
                {x \in (from + 1)..last : (x - from) % Window = 0} \cup {last}
=============================================================================
