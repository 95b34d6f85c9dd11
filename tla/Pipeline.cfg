SPECIFICATION FairSpec
CONSTANTS
  W = 5
  Programs <- MCPrograms
  DataImage <- MCDataImage
  PowerUp <- MCPowerUp
  RasTargets <- MCRasTargets
PROPERTIES Sequential KeepsExecuting
