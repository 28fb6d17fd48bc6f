SPECIFICATION OnceSpec
CONSTANTS
  Host = Host
  Nobody = Nobody
  Clients = {c1, c2, c3, c4, c5, c6, c7, c8, c9}
INVARIANTS
  HeldExactly
  InStep
PROPERTY PushonAwaitsFlip
CHECK_DEADLOCK FALSE
