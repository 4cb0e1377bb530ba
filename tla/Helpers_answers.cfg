CONSTANTS
  Tables <- MCTables
  Numbers <- MCNumbers
  Trees <- MCTrees
  Limits <- MCLimits
  Documents <- MCDocuments
  Texts <- MCTexts
  Configs <- MCConfigs
  Anchors <- MCAnchors
  Asked <- MCAsked
  Deep = 8
  Answers <- MCAnswers
  Greetings <- MCGreetings
  Grants <- MCGrants
  Tunnelled <- MCTunnelled

SPECIFICATION Spec

\* A session and a question end.
CHECK_DEADLOCK FALSE

INVARIANTS
  RepliesInStep
  LookupRight
  BlocksReplaced
  ActsOnlyWhenAllowed
