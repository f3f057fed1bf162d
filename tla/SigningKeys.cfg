SPECIFICATION Spec
CONSTANTS
    Requests = {r1, r2, r3, r4}
    Replicas = {p1}
    Algorithms = {"ES256", "EdDSA", "Ed25519"}
    None = None
SYMMETRY Symmetry
INVARIANT TypeOK
INVARIANT OneKeyReused
INVARIANT NoWithdrawnKeyUsed
INVARIANT IssuedVerifies
CHECK_DEADLOCK FALSE
