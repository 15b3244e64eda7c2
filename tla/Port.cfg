CONSTANT MaxAdds = 4
SPECIFICATION Spec
INVARIANTS TypeOK SearchThreadInvariant IteratorValid
PROPERTIES ImplementsSearch StopReturns Cycles
CHECK_DEADLOCK FALSE
