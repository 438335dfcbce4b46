SPECIFICATION Spec
CONSTANTS
  p1 = p1
  p2 = p2
  p3 = p3
  Plugins <- MCPlugins
  NoPlugin = NoPlugin
  EntryCount = 2
  MaxGeneration = 4
INVARIANT NoTornImage
