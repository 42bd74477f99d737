SPECIFICATION Spec
CONSTANTS
    Values = {a, b, c}
    Zero = Zero
    Capacity = 3
INVARIANT RingClosed
PROPERTY ImplementsFifo
