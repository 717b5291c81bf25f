CONSTANTS
  f1 = f1
  f2 = f2
  Files <- MCFiles
  None = None
  Threads = 2
  NumParts = 1
  MaxUploads = 2
  MaxRetries = 1
SPECIFICATION UploadSpec

PROPERTIES UploadsFinish
