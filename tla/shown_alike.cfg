SPECIFICATION Spec
CONSTANTS
    Backends = {"embedded", "grpc"}
INVARIANTS
    ShownAlike
