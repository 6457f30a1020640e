SPECIFICATION WriterSpec
CONSTANTS
  Installations = {i1}
  MaxReports = 3
PROPERTY OlderNeverAfterNewer
