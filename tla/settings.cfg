CONSTANTS
  Options = {"proc_ignore", "proc_path", "proc_exe", "proc_maps", "core_filter", "core_exists_seq"}
  Parser <- MCParser
  Given <- MCGiven
  IntHalf = 4
  MaxLines = 3
  Pids = {5}
  Ignore = "proc_ignore"
  Path = "proc_path"
  Exe = "proc_exe"
  Mappings = "proc_maps"
  Tasks = {11, 12, 13}
  NsPid <- MCNsPid
  FirstCapacity = 1
  ProcExe = 6
  ProcLines <- MCProcLines
  Threads = {2, 4}
SPECIFICATION ProcSpec
INVARIANTS
  TypeOK
  ConfMeansLines
  RefusalReported
  OneSource
  GapsReported
  Translates
