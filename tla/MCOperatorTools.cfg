\* One engine that may die twice; two commitments, three calls, a restore, one fault.
SPECIFICATION ToolsSpec
CONSTANTS
  e1 = e1
  brief = brief
  digest = digest
  first = first
  second = second
  r1 = r1
  r2 = r2
  r3 = r3
  r4 = r4
  r5 = r5
  NoRequest = NoRequest
  Engine = {e1}
  Request = {r1, r2, r3, r4, r5}
  Key = {brief, digest, first, second}
  KeyOf <- Keys
  Brief = {brief, digest}
  Earlier = {digest}
  Clash <- Clashes
  MaxCrashes = 2
  c1 = c1
  c2 = c2
  NoDb = NoDb
  Commitment = {c1, c2}
  Asked = {"focused", "waiting"}
  MaxRestores = 1
  MaxChanges = 3
  MaxRestoreFaults = 1
INVARIANTS SentOnce JournalIsTrue FocusConsistent DroppedIsSaved
PROPERTIES RecordsKept NoAccidentalFocus
SYMMETRY Interchangeable
CHECK_DEADLOCK FALSE
