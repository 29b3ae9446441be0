CONSTANT MaxLen = 6
SPECIFICATION Spec
INVARIANT ClassifiesWellFormed
