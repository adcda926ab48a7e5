SPECIFICATION Spec
CONSTANTS
  Handler = {h1, h2}
  Chat = {}
  Main = Main
  NoOne = NoOne
  MaxRuns = 2
  StoreFails = FALSE
PROPERTIES
  ResetsAStoppedServer
