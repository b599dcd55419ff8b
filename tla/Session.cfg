\* An Arm is moved between two ports, leaving requests behind; one device may leave the bus;
\* the program may fork, and then the child's Arm competes for the ports.
SPECIFICATION Spec
CONSTANTS
  a1 = a1
  p1 = p1
  p2 = p2
  Arms <- OneArm
  Ports <- TwoPorts
  Used <- AnyPort
  MaxOpens = 3
  MaxOwed = 1
  MaxPlugs = 1
  MayFork = TRUE
  None = None
INVARIANTS OneReader ReadersAreOwned NothingLeaks ChildIsSilent FactsAreCurrent
