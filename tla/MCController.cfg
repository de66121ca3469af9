SPECIFICATION ControllerSpec
CONSTANTS
  Galhos = {g1, g2}
  Roots = {r1}
  Tasks = {ticker, operator}
  Ticker = ticker
  Calls <- OperatorCalls
  AnyPhase = FALSE
PROPERTIES TickKeepsGates AutomaticPhasesLeft
