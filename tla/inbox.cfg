SPECIFICATION Spec
CONSTANTS
  a = a
  u1 = u1
  w1 = w1
  l1 = l1
  b1 = b1
  None = None
  Uploads = {a}
  Urls = {u1}
  UploadKind <- OnePdf
  UploadId <- OwnId
  Uploaders = {w1}
  UrlHandlers = {l1}
  Bodies = {b1}
  UrlKinds = {"text", "attachment"}
  MaxRequests = 5
  MaxFaults = 1
INVARIANTS
  
  FileKept
  StagedOnce
PROPERTIES
  Settles
