SPECIFICATION Spec
CONSTANTS Lines = 4 ScrollLine = 2 LineClocks = 768 ScrollPixel = 150 IrqPixel = 174
INVARIANT FastBeamFollowsCpu
