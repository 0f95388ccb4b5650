CONSTANTS
  Card = {1, 2, 3}
  Feed = {1}
  LinkedIn = {2, 3}
  Keyed = {1, 2, 3}
  Anchored = {3}
  Pass = {p1, p2}
  NoCard = NoCard
  MaxMoves = 3
SPECIFICATION Spec
INVARIANTS FoldsEnd SightingsLand ApartNotFolded
PROPERTIES HeldInPlay ActedOnStand
CHECK_DEADLOCK FALSE
