CONSTANTS
  Ids <- MCIds
  Root = 0
  Path <- MCPath
  Roots <- MCRoots
  Length <- MCLength
  Trees <- MCTrees
  ShadowRules = {0, 1, 2, 3}
  None = None

SPECIFICATION Spec

INVARIANTS
  DirHashMeaning
  OnlyKnownPanics
  GroupsAreDuplicates
  DuplicatesVisible
  TreeDiffExact
