SPECIFICATION Spec
CONSTANTS
    MaxActs = 2
    MaxFaults = 1
PROPERTY NoSpuriousFlip
