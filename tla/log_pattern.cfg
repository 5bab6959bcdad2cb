SPECIFICATION Scanning
CONSTANTS
  Letters = {"m", "x"}
  Others = {" "}
  Items = {"m"}
  MaxLength = 6
INVARIANT PatternOK 
