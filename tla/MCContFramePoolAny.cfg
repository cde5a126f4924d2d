\* Clients of the documented interface: any number of frames, released in any order.
SPECIFICATION Spec
CONSTANTS
    KernelBase = 2
    KernelSize = 8
    ProcessBase = 10
    ProcessSize = 12
    HoleBase = 14
    HoleSize = 4
    FramesPerInfo = 16
    UIntRange = 64
    Clients = {"any"}
    MaxRequest = 3
INVARIANTS
    SequencesDisjoint
