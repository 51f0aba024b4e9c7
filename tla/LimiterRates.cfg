\* Compensation larger than the interval (the floor of two units holds), two
\* grants per window of five units, a bucket of two.
SPECIFICATION Spec
CONSTANTS
    BaseInterval = 3
    Compensation = 5
    MinInterval = 2
    Window = 5
    Burst = 2
    MaxTime = 12
INVARIANTS WaitBounded RingHoldsRecent KeepsConfiguredRate AvailableBounded
PROPERTY RateSpec
\* The clock stops at MaxTime.
CHECK_DEADLOCK FALSE
