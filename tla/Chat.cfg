\* Three messages of one wording, answers of at most two pieces, two hosts.
CONSTANTS
  Text = {t1}
  Host = {h1, h2}
  None = None
  MaxSends = 3
  MaxChunks = 2
SPECIFICATION Spec
INVARIANTS AnswersApart CachedWhole
CHECK_DEADLOCK FALSE
