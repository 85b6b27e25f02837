\* One date with two versions of its evidence, two processes on the outbox.
CONSTANTS
  Dates = {d1}
  Evidence = {e1, e2}
  Procs = {tick, sync}
  tick = tick
SPECIFICATION MCFairSpec
INVARIANT TypeOK
INVARIANT OneReviewPerDate
INVARIANT TerminalHonest
PROPERTY TerminalFinal
PROPERTY TaskPostedOnce
PROPERTY RunPostedOnce
PROPERTY KnownReviewSettles
