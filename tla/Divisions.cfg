CONSTANT Width = 4
SPECIFICATION Spec
INVARIANTS QuotientIsRight RemainderIsRight
