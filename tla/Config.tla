-------------------------------- MODULE Config --------------------------------
(***************************************************************************)
(* The configuration file as the sandbox sees it                           *)
(* (src/src/common/Config.cpp, Config.h).  A file is NotAnObject, or a     *)
(* function from the names of its sections to the fields of each.  A field *)
(* of the wrong type is treated as if it were not there.                   *)
(***************************************************************************)
EXTENDS JsonValue

\* A file is any JSON text, or none.
WellFormed(file) ==
  file = NotAnObject \/
  \A s \in DOMAIN file :
    file[s] = NotAnObject \/
    \A key \in DOMAIN file[s] : file[s][key] \in JsonFields

\* loadFromFile: config_data_ has nothing in it when the file cannot be read
\* or parsed, and main goes on with the defaults.
loadFromFile(file) == IF file = NotAnObject THEN << >> ELSE file

configSection(data, name) ==
  IF name \in DOMAIN data /\ data[name] # NotAnObject THEN data[name] ELSE << >>

\* get<T>, for the types of the settings.
get_as(T, field) ==
  CASE T = "bool"     -> get_bool(field)
    [] T = "string"   -> get_string(field)
    [] T = "uint32_t" -> get_uint32(field)
    [] T = "uint64_t" -> get_uint64(field)

get(T, section, key, default) ==
  LET found == IF key \in DOMAIN section THEN get_as(T, section[key]) ELSE {}
  IN  IF found = {} THEN {default} ELSE found

sjudge(data) == configSection(data, "sjudge")

getKeepRunnerWorkDir(data) ==
  get("bool", configSection(data, "testing"), "keep_work_dir", FALSE)

getSjudgeRunUid(data) == get("uint32_t", sjudge(data), "run_uid", 0)
getSjudgeRunGid(data) == get("uint32_t", sjudge(data), "run_gid", 0)

getSjudgeClearSupplementaryGroups(data) ==
  get("bool", sjudge(data), "clear_supplementary_groups", FALSE)

getSjudgeEnableSeccomp(data) ==
  get("bool", sjudge(data), "enable_seccomp", FALSE)

getSjudgeSeccompDenyNetwork(data) ==
  get("bool", sjudge(data), "seccomp_deny_network", TRUE)

getSjudgeSeccompDenyProcessSpawn(data) ==
  get("bool", sjudge(data), "seccomp_deny_process_spawn", TRUE)

getSjudgeCgroupPath(data) == get("string", sjudge(data), "cgroup_path", "")

getSjudgeCgroupMemoryMaxBytes(data) ==
  get("uint64_t", sjudge(data), "cgroup_memory_max_bytes", 0)

getSjudgeCgroupPidsMax(data) ==
  get("uint32_t", sjudge(data), "cgroup_pids_max", 0)

getSjudgeCgroupCpuMaxQuotaUs(data) ==
  get("uint64_t", sjudge(data), "cgroup_cpu_max_quota_us", 0)
=============================================================================
