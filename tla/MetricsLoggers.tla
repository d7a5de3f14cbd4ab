---------------------------- MODULE MetricsLoggers ----------------------------
(***************************************************************************)
(* The CPU and memory loggers of the CQS balancer (metrix/CPU,             *)
(* metrix/Memory): every 2 s each reads its sources, keeps the counters of *)
(* the last good reading of each, and inserts one record with what they    *)
(* grew by (MetricsDB).  A reading may fail, and so may an insert, whose   *)
(* error nobody looks at.  The copies of both packages in CQS/backend and  *)
(* in the RL backend are compiled nowhere: no file imports them.           *)
(*                                                                         *)
(* The sources only meet in the order of their error paths, so a behaviour *)
(* follows one counter of one of them, `watched'.                          *)
(***************************************************************************)
EXTENDS MetricsDB, Integers

CONSTANTS
  Width,         \* counters are uint64: 2^64
  MaxCount       \* bound: the counters in the kernel

CpuSources    == {"rusage", "stat", "selfCtx", "cgroupCPU", "perf"}
MemorySources == {"vmstat", "pause", "cgroupMem"}
Sources       == CpuSources \cup MemorySources
Files         == {"first", "fallback"}

ASSUME MetricsLoggersAssumption ==
  /\ Loggers = {"cpu", "memory"}
  /\ MaxCount \in Nat /\ Width \in Nat /\ Width \div 2 > MaxCount

VARIABLES
  running,       \* loggers whose loop runs
  watched,       \* the source this behaviour follows
  count,         \* its counter in the kernel, in each file it is read from
  prev, havePrev,\* the logger's last good reading
  lastGood,      \* history: the last good reading
  excess,        \* history: growth in the records, less that of the readings
  blank          \* history: memory.events could not be read

sample  == <<prev, havePrev, lastGood, excess, blank>>
logVars == <<running, watched, count, sample>>
loggersVars    == <<dbVars, logVars>>

\* Enabled needs a DSN in the environment.  When the first getrusage fails,
\* the CPU logger inserts that error and ends.
Start ==
  \/ running = {} /\ DBInit({})
  \/ running = Loggers /\ DBInit({})
  \/ running = {"memory"} /\ DBInit({"cpu"})

LoggersInit ==
  /\ Start /\ watched \in Sources
  /\ count = [f \in Files |-> 0]
  /\ prev = 0 /\ lastGood = 0 /\ excess = 0 /\ blank = FALSE
  /\ havePrev = (watched \in {"rusage", "perf"})  \* Getrusage and pc.prev at start

-----------------------------------------------------------------------------
\* The kernel counts while the logger waits for its ticker.
Grown == {c \in [Files -> 0..MaxCount] :
            /\ \A f \in Files : c[f] >= count[f]
            /\ watched # "cgroupCPU" => c["fallback"] = 0}

\* readCgroupCPUStat falls back to the cgroup v1 files.
ReadCgroupCPU(c) == {c[f] : f \in Files}
\* readCgroupMemory leaves the events at 0 when their file cannot be read.
ReadCgroupMem(c) == {c["first"], 0}

Reading(s, c) ==
  CASE s = "cgroupCPU" -> ReadCgroupCPU(c)
    [] s = "cgroupMem" -> ReadCgroupMem(c)
    [] OTHER -> {c["first"]}

Unsigned(d) == d % Width
\* int64(cur - prev), and 0 when that is negative
Signed(d) == IF d % Width >= Width \div 2 THEN 0 ELSE d % Width
\* perfCollector.Delta
PerfDelta(d) == IF d >= 0 THEN d ELSE 0

Delta(s, d) ==
  CASE s = "perf" -> PerfDelta(d)
    [] s \in MemorySources -> Signed(d)
    [] OTHER -> Unsigned(d)

\* What a counter grew by between two readings: it may only look smaller when
\* it is read from another file.
Growth(d) == IF watched # "cgroupCPU" /\ d < 0 THEN 0 ELSE d

Tell(cur) ==
  /\ excess' = IF havePrev
       THEN (excess + Delta(watched, cur - prev) - Growth(cur - lastGood)) % Width
       ELSE excess
  /\ havePrev' = TRUE /\ lastGood' = cur
  /\ blank' = (blank \/ (watched = "cgroupMem" /\ cur < count'["first"]))

\* Mutant: after a failed insert the growth is told again.
TakeAgain(l, cur) ==
  Tell(cur) /\ prev' = IF last[l] = "error" THEN prev ELSE cur

Take(l, cur) == Tell(cur) /\ prev' = cur

Watch(l, taken) ==
  /\ count' \in Grown
  /\ IF taken THEN \E cur \in Reading(watched, count') : Take(l, cur)
              ELSE UNCHANGED sample

\* One turn of StartCPUP95Logger up to the insert.  A failed getrusage replaces
\* the whole record, and the context switches are only looked at when
\* /proc/stat could be read.
CpuTick ==
  /\ "cpu" \in running /\ Insert("cpu") /\ UNCHANGED <<running, watched>>
  /\ IF watched \in CpuSources
       THEN \E ok \in SUBSET {"rusage", "stat", watched} :
              Watch("cpu", /\ {"rusage", watched} \subseteq ok
                           /\ watched = "selfCtx" => "stat" \in ok)
       ELSE UNCHANGED <<count, sample>>

\* One turn of StartMemoryLogger; ReadMemStats cannot fail.
MemoryTick ==
  /\ "memory" \in running /\ Insert("memory") /\ UNCHANGED <<running, watched>>
  /\ IF watched \in MemorySources
       THEN \E ok \in SUBSET {watched} : Watch("memory", watched \in ok \cup {"pause"})
       ELSE UNCHANGED <<count, sample>>

\* The rest of the turn; nobody looks at the result of the insert.
InsertRecord(l) == InsertStep(l) /\ UNCHANGED logVars

Expires == (InitExpires \/ DDLExpires) /\ UNCHANGED logVars

LoggersNext == Expires \/ CpuTick \/ MemoryTick \/ \E l \in Loggers : InsertRecord(l)

LoggersSpec == LoggersInit /\ [][LoggersNext]_loggersVars

\* Goroutines are scheduled, calls to the database have a timeout, and time
\* passes.
LoggersFairness ==
  /\ WF_loggersVars(InitExpires /\ UNCHANGED logVars)
  /\ WF_loggersVars(DDLExpires /\ UNCHANGED logVars)
  /\ WF_loggersVars(CpuTick) /\ WF_loggersVars(MemoryTick)
  /\ \A l \in Loggers : WF_loggersVars(InsertRecord(l))

LoggersFairSpec == LoggersSpec /\ LoggersFairness

-----------------------------------------------------------------------------
\* Whatever readings and inserts fail, everything a counter grew by between
\* two good readings is in exactly one record (CPU.go:133, memory.go:36).  Two
\* cases are left out or weaker: memory.events that could not be read makes
\* the whole total count again, and the CPU logger's subtraction is only right
\* modulo 2^64 when it falls back to another cgroup file.
GrowthToldOnce ==
  ~blank => excess = 0

\* As long as no DDL error is kept beside finished tables, every logger that
\* runs gets rows into the database again after each failure
\* (postgres_metrics.go:94).
InsertsResume ==
  \A l \in Loggers : l \in running /\ <>[]~Latched => []<>(last[l] = "row")

\* postgres_metrics.go:87: "Rate-limit DDL attempts too.": a DDL error delays
\* the inserts, it does not end them.
DDLErrorDelays == \A l \in Loggers : l \in running => []<>(last[l] = "row")
=============================================================================
