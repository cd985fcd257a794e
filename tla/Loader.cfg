SPECIFICATION LoaderSpec
CONSTANTS
    Header <- HeaderBytes
    Images <- SmallImages
    Base = 4
    SizeBytes = 2
    Garbage = {3}
    MaxFaults = 4
    FaultIn = {"header"}
INVARIANT BootsImage
PROPERTY EventuallyBoots
CHECK_DEADLOCK FALSE
