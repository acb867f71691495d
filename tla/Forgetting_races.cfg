\* Two deleters race with each other, a writer that shares a transcript, and
\* the collector; two crashes or failing statements.
SPECIFICATION Spec
CONSTANTS
  m1 = m1
  m2 = m2
  m3 = m3
  b1 = b1
  w1 = w1
  d1 = d1
  d2 = d2
  None = None
  Memory = {m1, m2, m3}
  Existing = {m1, m3}
  Held = {m3}
  Blob = {b1}
  BlobOf <- SharedTranscript
  Writer = {w1}
  Deleter = {d1, d2}
  MaxOps = 4
  MaxFaults = 2
SYMMETRY Symmetry
INVARIANTS
  DeletedIsLedgered
  DeletedIsPurged
  TranscriptKept
CHECK_DEADLOCK FALSE
