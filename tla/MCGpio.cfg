SPECIFICATION Spec
CONSTANT NaN = NaN
INVARIANTS PinsStayConfigured LevelIsOwn BusKept
