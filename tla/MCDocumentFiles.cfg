CONSTANTS
  Names = {"a.js", "b.html", "H5GG.dylib"}
  Contents = {"one", "two", "unsigned", "signed"}
  ScriptNames = {"a.js", "b.html"}
  Scripts = {"one", "two"}
  Output = "H5GG.dylib"
  Unsigned = "unsigned"
  Signed = "signed"
  Chunks = 2
  MaxFiles = 2
SPECIFICATION Spec
INVARIANTS
  ListingIsTrue
  OutputIsSigned
PROPERTIES
  BuildIsAtomic
  AtomicSpec
