CONSTANTS
  Name <- MCName
  Root <- MCRoot
  Doc <- MCDoc
  Extension <- MCExtension
  IndexDoc = "home.html"
  File <- MCFile
  Methods = {"GET", "HEAD"}
  Prefix = {"ok.jpg"}
  Nothing = Nothing
SPECIFICATION Spec
INVARIANT TypeOfExtension
CHECK_DEADLOCK FALSE
