SPECIFICATION FairSpec
CONSTANTS
  doc1 = doc1 doc2 = doc2 s1 = s1 e1 = e1 e2 = e2 e3 = e3
  Docs = {doc1, doc2}
  Simulated = {doc2}
  Sends = {s1}
  Events = {e1, e2, e3}
  Null = Null
INVARIANTS StatusIsBacked SignedHasPdf
PROPERTIES TerminalWithOneDoc SettledDocSettlesContract
CHECK_DEADLOCK FALSE
