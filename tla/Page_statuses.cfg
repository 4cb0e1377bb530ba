SPECIFICATION Spec
CONSTANTS
  Poll = {"poll1"}
  MaxBuffer = 1
  MaxEvents = 2
  MaxChecks = 1
  Faults = {"arm", "pin", "unpin", "first"}
INVARIANT IInv RoutedWasTrue
PROPERTY PageSettles
