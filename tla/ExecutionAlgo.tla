---------------------------- MODULE ExecutionAlgo ----------------------------
(***************************************************************************)
(* TWAP, VWAP and iceberg: a parent order is cut into child orders, which  *)
(* next_slice releases one at a time.  An algorithm is a record; the child *)
(* orders of TWAP and VWAP are the sequence slices, worked out in the      *)
(* constructor; those of an iceberg follow from what is left.              *)
(***************************************************************************)
EXTENDS Integers, Sequences, SequencesExt

CONSTANTS
    NumSlices,       \* num_slices of TWAP
    VolumeProfile,   \* volume_profile of VWAP
    VisibleQty       \* visible_qty of an iceberg

\* "Whole" is TWAP with one slice.
AlgoName == {"Whole", "Twap", "Vwap", "Iceberg"}

Total(seq) == FoldLeft(+, 0, seq)

\* A bug of the constructor: the last slice drops the remainder.
TwapSlicesEven(qty, slices) == [i \in 1 .. slices |-> qty \div slices]

\* Equal slices; the last one absorbs the remainder.
TwapSlices(qty, slices) ==
    LET n == Max({slices, 1})
    IN  [i \in 1 .. n |-> IF i < n THEN qty \div n
                          ELSE qty - (qty \div n) * (n - 1)]

\* Slices in proportion to the profile; the first one gets the remainder.
VwapSlices(qty) ==
    LET weight == Total(VolumeProfile)
        share(i) == (VolumeProfile[i] * qty) \div weight
        shares == [i \in 1 .. Len(VolumeProfile) |-> share(i)]
    IN  IF weight <= 0 THEN <<qty>>
        ELSE [shares EXCEPT ![1] = @ + (qty - Total(shares))]

\* A parent of which nothing was sent.
NewAlgo(name, qty) ==
    [name |-> name, remaining |-> qty, sent |-> 0,
     slices |-> CASE name = "Whole" -> TwapSlices(qty, 1)
                  [] name = "Twap" -> TwapSlices(qty, NumSlices)
                  [] name = "Vwap" -> VwapSlices(qty)
                  [] name = "Iceberg" -> <<>>,
     tranche |-> 0, replenish |-> TRUE]

is_complete(a) == a.remaining = 0

\* Whether next_slice gives a slice to send (possibly of quantity 0).
Ready(a) ==
    /\ ~is_complete(a)
    /\ IF a.name = "Iceberg" THEN a.replenish ELSE a.sent < Len(a.slices)

SliceSize(a) ==
    IF a.name = "Iceberg" THEN Min({Max({VisibleQty, 1}), a.remaining})
    ELSE Min({a.slices[a.sent + 1], a.remaining})

\* The state after next_slice; its quantity is SliceSize.
next_slice(a) ==
    IF a.name = "Iceberg"
    THEN [a EXCEPT !.tranche = SliceSize(a), !.replenish = FALSE,
                   !.sent = @ + 1]
    ELSE [a EXCEPT !.sent = @ + 1]

\* A bug of the iceberg: a partial fill calls for the next tranche.
AlgoOnFillEager(a, qty) ==
    [a EXCEPT !.remaining = @ - Min({qty, @}), !.replenish = TRUE]

AlgoOnFill(a, qty) ==
    LET left == a.remaining - Min({qty, a.remaining})
    IN  IF a.name # "Iceberg" THEN [a EXCEPT !.remaining = left]
        ELSE IF qty >= a.tranche
        THEN [a EXCEPT !.remaining = left, !.tranche = 0, !.replenish = TRUE]
        ELSE [a EXCEPT !.remaining = left, !.tranche = @ - qty]

==============================================================================
