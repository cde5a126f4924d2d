\* Clients as the repository's own: single frames in any order, or stack order.
SPECIFICATION Spec
CONSTANTS
    KernelBase = 2
    KernelSize = 8
    ProcessBase = 10
    ProcessSize = 12
    HoleBase = 14
    HoleSize = 4
    FramesPerInfo = 16
    UIntRange = 64
    Clients = {"single", "stack"}
    MaxRequest = 3
INVARIANTS
    TypeOK
    BitmapAgrees
    FreeCountExact
    HaltsOnlyWhenExhausted
PROPERTIES
    ImplementsAllocator
