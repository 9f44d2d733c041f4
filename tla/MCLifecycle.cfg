\* No symmetry: a liveness property is checked.
SPECIFICATION Spec
CONSTANTS
    Clients = {c1, c2, c3}
    MaxSignals = 2
INVARIANTS TypeOK CutWithCause ListensOrStops SignalNotLost
PROPERTY EndsAfterSignal
