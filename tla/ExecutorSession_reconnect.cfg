SPECIFICATION Spec
CONSTANTS
  Targets = {hosted, debugger, mistyped}
  Internal = {hosted}
  Home = hosted
  Unusable = {mistyped}
  AllowUpload = {hosted}
  Sockets = {s1, s2}
  EditorRuns = {e}
  TestRuns = {t}
  MaxVersion = 2
  None = None
INVARIANTS
  SessionIsWhole
  UploadsAreOfThisSession
  ResultsAreOwn
PROPERTIES
  RunsSettle
  ReconnectEnds
