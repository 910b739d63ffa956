CONSTANTS
    Sockets = {s1, s2}
    NoSocket = NoSocket
    PicoErrs <- FewErrors
SPECIFICATION Spec
SYMMETRY Symmetry
INVARIANT TypeOK
INVARIANT OwnError
