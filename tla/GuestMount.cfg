CONSTANTS
  MaxDevices = 2
  Setups <- MCSetups
SPECIFICATION Spec
INVARIANTS
  UnmountedBeforeReport
  HookFindsMount
  HostKnowsShare
  ForcedOutputEnds
  PromptsInStep
  PassphraseForItsPrompt
PROPERTIES
  KeepsReportPromise
  PromptAnswered
  HostLearnsStatus
CHECK_DEADLOCK FALSE
