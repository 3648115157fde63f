CONSTANTS
  q1 = q1  q2 = q2  q3 = q3  q4 = q4
  Keys = {"k1", "k2"}
  Payloads = {"b1", "b2"}
  Requests = {q1, q2, q3}
  NoRequest = NoRequest
  NoPayload = NoPayload
  OutliveTTL = TRUE
SPECIFICATION Spec
SYMMETRY Anyone
CHECK_DEADLOCK FALSE
INVARIANTS IdempotencyInv
PROPERTY ImplementsPromise
