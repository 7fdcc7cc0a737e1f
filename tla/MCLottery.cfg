CONSTANTS
  c1 = c1
  c2 = c2
  None = None
  CPU = {c1, c2}
  NPROC = 3
  Half = 4
  Default = 3
  Tickets = {0, 1, 3}
SYMMETRY Symmetry
SPECIFICATION Spec
INVARIANTS TypeOK RunningIsOnItsCpu
PROPERTIES DispatchHoldsNextTicket WastedOnlyOnLastTicket
