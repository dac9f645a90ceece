CONSTANTS
  Capacity = 3
  Items = {a, b}
  NoItem = NoItem
SPECIFICATION LiveSpec
INVARIANTS
  TypeOK
  NoSlotRace
  AnswersStayTrue
PROPERTIES
  AnswersCanBeActedOn
  ImplementsFifo
  EveryItemLeaves
