CONSTANT MaxAdds = 3
SPECIFICATION Spec
PROPERTY AddCandidateReturns
CHECK_DEADLOCK FALSE
