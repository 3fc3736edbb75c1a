CONSTANTS
  a1 = a1
  b1 = b1
  p1 = p1
  g1 = g1
  g2 = g2
  g3 = g3
  Agents = {a1, b1}
  Projects = {p1}
  Menus = {"menu"}
  Machines = {"machine"}
  Starts <- SomeStarts
  MaxChoices = 2
  MaxAccidents = 1
  Lenses = {a1, b1}
  Groups = {g1, g2, g3}
  Documents <- SomeDocuments
  Mediated = {g1}
  Commands = {g3}
SPECIFICATION Spec
INVARIANT PolicySurvives
PROPERTY SavesAreFaithful
PROPERTY AttestedIsConfirmed
PROPERTY EverySaveEnds
\* A session may be left alone for good.
CHECK_DEADLOCK FALSE
