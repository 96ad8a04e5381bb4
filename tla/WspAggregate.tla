--------------------------- MODULE WspAggregate ---------------------------
(***************************************************************************)
(* The aggregation functions of wsp_private.c: the value of one point of a *)
(* coarse archive from the points of the finer archive it covers.  They    *)
(* compute in double; here values are integers, and average divides        *)
(* integers, so instances choose values whose averages are exact.          *)
(***************************************************************************)
EXTENDS WspPoints, FiniteSetsExt

CONSTANTS Method,  \* "average", "sum", "last", "max" or "min"
          Xff      \* x_files_factor, as a fraction [num, den]

ASSUME MethodAssumption == Method \in {"average", "sum", "last", "max", "min"}

ASSUME XffAssumption == Xff.num \in Nat /\ Xff.den \in Nat \ {0}

\* Positions of the points that hold a measurement.
Valid(points) == {i \in DOMAIN points : points[i].value # NaN}

Total(points) == MapThenSumSet(LAMBDA i : points[i].value, Valid(points))

\* valid / count < x_files_factor: too little is known to write a point.
TooSparse(points) ==
    Cardinality(Valid(points)) * Xff.den < Xff.num * Len(points)

\* The value of at least TooSparse's share of known points; with a factor of 0
\* there may be none, which is 0 for a sum and NaN (0.0 / 0 for an average) else.
Combine(points) ==
    LET known == {points[i].value : i \in Valid(points)}
    IN  IF Method = "sum" THEN Total(points)
        ELSE IF known = {} THEN NaN
        ELSE CASE Method = "average" -> Total(points) \div Cardinality(Valid(points))
               [] Method = "max"     -> Max(known)
               [] Method = "min"     -> Min(known)

\* last takes the final point whatever it holds; the others may skip the point.
Aggregate(points) ==
    IF points = <<>> THEN [value |-> NaN, skip |-> FALSE]
    ELSE IF Method = "last" THEN [value |-> points[Len(points)].value, skip |-> FALSE]
    ELSE IF TooSparse(points) THEN [value |-> NaN, skip |-> TRUE]
    ELSE [value |-> Combine(points), skip |-> FALSE]
=============================================================================
