\* Two classes with an ivar each, plain and Swift symbols; the table in every order.
SPECIFICATION Spec
CONSTANTS
  Globals = {"f", "_$s1f"}
  Swift = {"_$s1f"}
  Classes = {"C", "D"}
  Ivars = {"i"}
  NoClass = ""
  Libraries <- AnyLibrary
INVARIANTS TypeOK StubIsComplete NothingInvented IvarsFound
PROPERTIES RoundTrip
CHECK_DEADLOCK FALSE
