CONSTANTS
  Keys = {0, 1, 3}
  Items = {1, 2, 3}
  Capacity = 2
  Capacities = {1, 2}
  MovesChains = FALSE
  MaxPins = 2
SPECIFICATION Spec
PROPERTIES ImplementsLru
