SPECIFICATION ServerSpec
CONSTANTS
    j1 = j1
    j2 = j2
    Cron = {j1}
    Request = {j2}
    MaxTime = 1
    MaxOdd = 1
INVARIANT DirectoryComesFirst
INVARIANT ReadyIsComplete
PROPERTY CompleteFilesStay
PROPERTY BackupsEnd
