SPECIFICATION Spec
CONSTANTS
  Host = Host
  Nobody = Nobody
  Clients = {c1}
PROPERTY PushonAwaitsFlip
