SPECIFICATION MCSpec
CONSTANTS
  Sources = {s1}
  NoSource = NoSource
  Requests = {r1}
  Worker = worker
  Attempts = 2
  MaxWaiting = 1
  MaxDrafts = 2
  MaxCrashes = 1
  YearTerms = {1, 2}
  YearWeeks = 2
  Reserved = {2}
  Standard <- MCStandard
  Answers <- MCAnswers
  NoTerms = NoTerms
  Editors = {e1}
  MaxWeek = 3
  MaxEdits = 1
INVARIANTS OneEmptyDraft ConsolidatedCanBePublished
PROPERTIES ParsingKeepsJob PendingTaken
CHECK_DEADLOCK FALSE
