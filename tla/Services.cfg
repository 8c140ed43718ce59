SPECIFICATION Spec
CONSTANTS
 Parts = {"logins", "drive", "clipboard"}
 Workloads <- DriveWork
 ClipLoads <- ClipWork
 drv1 = drv1
 drv2 = drv2
 node1 = node1
 node2 = node2
 fileA = fileA
 dirB = dirB
 own1 = own1
 own2 = own2
 app1 = app1
 app2 = app2
 Drives = {drv1, drv2}
 NodeIds = {node1, node2}
 Names = {fileA, dirB}
 DirNames = {dirB}
 Uniques = {u1, u2}
 Fids = {h1, h2}
 Accesses = {{"read"}, {"write"}}
 InflightMax = 2
 NodeMax = 3
 DirCacheMax = 1
 ListMax = 1
 IndexOffsets = TRUE
 None = None
 Owners = {own1, own2}
 Apps = {app1, app2}
 CopyFmts = {{"text", "files", "other"}, {"html", "image"}}
 OwnerFmts <- ClipOwnerFmts
 Files <- ClipFiles
 FileMax = 2
 IncrMax = 2
 IPs = {ip1, ip2, ip3}
 NoIP = NoIP
 ThrottleMax = 2
 FailMax = 2
 FailWindow = 2
 MaxTime = 4
SYMMETRY Sym
INVARIANTS
 ServicesTypeOK OneEntryPerAddress BackendBudget LimitedForCause
 OneReply HandleIsOwn  AnswersRight FilesRight
CHECK_DEADLOCK FALSE
