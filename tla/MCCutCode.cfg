\* cutCode ends and main stops after the last pass, so the cutter really
\* stops.
CONSTANTS
  Modules = {"VM"}
  Extras = {"PIPES"}
  MaxLines = 4
  MaxRepeat = 2
SPECIFICATION Spec
INVARIANTS TypeOK CutMatchesDocstring
CHECK_DEADLOCK FALSE
