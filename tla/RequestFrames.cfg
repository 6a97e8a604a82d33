SPECIFICATION Spec
CONSTANTS
    Requests <- MCRequests
    Inputs <- MCInputs
    Fills = {"canned", "pad", "synthetic"}
    Fill = 165
    Numbers <- MCNumbers
    Alphabet = {65, 128, 160, 195, 225, 237, 240, 255}
    TextLength = 4
    MaxSupplied = 2
INVARIANTS ReadsBack EveryWidgetWhole RoundsHalfEven AsciiKept
PROPERTY NeighboursKept
