SPECIFICATION Spec
CONSTANTS
  p1 = p1
  p2 = p2
  Proc = {p1, p2}
  Step <- MCStep
  Top <- MCTop
  Kind <- MCKind
  Body <- MCBody
  Else <- MCElse
  Cond <- MCCond
  EvalCondition <- MCEvalCondition
  WaitFor <- MCWaitFor
  Items = 2
  MaxIter = 2
  OnReject <- MCOnReject
  ContinueOnError <- MCContinue
  Given = {"absent", "go", "bad"}
  MaxStarts = 3
CHECK_DEADLOCK FALSE
SYMMETRY MCSymmetry
INVARIANTS
  NoStepSkipped
  CompletedIsWhole
  AbortHalts
  LatestVisible
  FanOutWhole
