\* Two calls at once on each of the three registries, two entries ever added.
CONSTANTS
  Goroutine = {g1, g2}
  Body = {b1}
  Blank = Blank
  Scrambled = Scrambled
  None = None
  Absent = Absent
  Empty = Empty
  Garbage = Garbage
  MaxAdds = 2
  MaxSpare = 0
SPECIFICATION Spec
INVARIANTS SaveOwed QuietMeansSaved
PROPERTIES ListSpec
