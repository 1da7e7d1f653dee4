----------------------------- MODULE MCThrottle -----------------------------
(***************************************************************************)
(* getConnectionThrottle of Annotations, checked against the reference     *)
(* the annotation documents: spec section 6 says the connection throttle   *)
(* is "clamped to [0,20]", and the comment on annLinodeThrottle says it    *)
(* defaults to 20.  The input is the annotation's string, abstracted as in *)
(* Annotations, with two more kinds of decimal string: one whose value     *)
(* lies below Go's int range and one above it.  strconv.Atoi rejects both  *)
(* with ErrRange, so Atoi (an Int test) treats them as it treats Garbage. *)
(***************************************************************************)
EXTENDS Annotations, FiniteSetsExt

CONSTANTS
    BelowInt,  \* a decimal string below math.MinInt64, e.g. "-9223372036854775809"
    AboveInt   \* a decimal string above math.MaxInt64

VARIABLE throttleAnn  \* the value of the throttle annotation

\* Absent, a string Atoi rejects, and the decimal values around both ends
\* of the clamp.
ThrottleInputs == {Absent, Garbage, BelowInt, AboveInt} \cup -2..22

Init == throttleAnn \in ThrottleInputs
Next == UNCHANGED throttleAnn
Spec == Init /\ [][Next]_throttleAnn

\* The documented throttle of an annotation value: 20 when there is none
\* or it is not a number, else the number clamped to [0, 20].
ClampedThrottle(v) ==
    CASE v = BelowInt -> 0
      [] v = AboveInt -> 20
      [] v \in Int    -> Max({0, Min({20, v})})
      [] OTHER        -> 20

\* getConnectionThrottle clamps every decimal annotation value to [0, 20]
\* and leaves the default 20 only for a value that is absent or not a
\* number: the value the reconciler writes to the NodeBalancer is the one
\* the annotation documents.
ThrottleClamped ==
    getConnectionThrottle([throttle |-> throttleAnn]) = ClampedThrottle(throttleAnn)
=============================================================================
