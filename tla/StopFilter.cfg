SPECIFICATION Spec
CONSTANTS Chars = {a, b} MaxStop = 3 MaxStops = 2 MaxChunk = 2 MaxText = 5
INVARIANTS StreamIsTruncation SameAsGenerate
