---------------------------- MODULE SharedLogger ----------------------------
(***************************************************************************)
(* The process-wide shared logger of pkg/common/log (shared_logger.go):    *)
(*   - SharedLogger() lazily installs a default stdout logger inside       *)
(*     initializeSharedLoggerOnce.Do, but only if deprecatedSharedLogger   *)
(*     is still nil;                                                       *)
(*   - ConfigureSharedLogger(cfg) builds a configured logger with New      *)
(*     (file + masking writer chain) under configureSharedLoggerMutex,     *)
(*     stores it in deprecatedSharedLogger and returns a closer that       *)
(*     closes its log file;                                                *)
(*   - the package functions Info/Error/... and NewEntry read the          *)
(*     variable through SharedLogger() and write through what they read.   *)
(* Goroutines are the main goroutine, which configures, and Workers,       *)
(* which log.  A logger is NoLogger (nil), DefaultLogger, or the k-th      *)
(* configured logger k.  The configured writer masks sensitive fields      *)
(* (MaskSensitiveFields) and writes to a log file; the default one does    *)
(* neither.  The read of deprecatedSharedLogger outside the mutex is a     *)
(* data race; both racing words hold a *Logger, so a racy read yields the  *)
(* old or the new pointer, which the interleaving of atomic steps covers.  *)
(***************************************************************************)
EXTENDS Naturals, FiniteSets

CONSTANTS
    Main,              \* the goroutine that calls ConfigureSharedLogger
    Workers,           \* goroutines that log through the package functions
    NoLogger,          \* nil interface value
    DefaultLogger,     \* the "shared-default" logger built inside Once.Do
    MaxConfigures,     \* bound on ConfigureSharedLogger calls
    MaxLogs,           \* bound on log calls per goroutine
    Startups           \* the program shapes checked: TRUE when main starts the
                       \* workers only after its first configure returned

Procs == {Main} \cup Workers
Configured == 1..MaxConfigures
Loggers == {NoLogger, DefaultLogger} \cup Configured

VARIABLES
    shared,      \* deprecatedSharedLogger
    once,        \* state of initializeSharedLoggerOnce: "idle","running","done"
    configured,  \* number of ConfigureSharedLogger calls that returned
    file,        \* file[k]: log file of configured logger k
    started,     \* main has started the worker goroutines
    pc,          \* program counter of each goroutine
    held,        \* logger value a goroutine obtained and will write through
    next,        \* where a goroutine continues after its write
    callAfter,   \* a configure had returned when the current log call began
    logs,        \* log calls made per goroutine
    events,      \* every event written: which logger, masked, when, lost
    ordered      \* this program starts its workers after configuring

vars == <<shared, once, configured, file, started, pc, held, next, callAfter,
          logs, events, ordered>>

PCs == {"m_init", "m_cfg", "m_spawn", "m_run", "w_idle",
        "once_check", "once_store", "write", "done"}

Event == [logger : Loggers, masked : BOOLEAN, afterCfg : BOOLEAN, lost : BOOLEAN]

TypeOK ==
    /\ shared \in Loggers
    /\ once \in {"idle", "running", "done"}
    /\ configured \in 0..MaxConfigures
    /\ file \in [Configured -> {"none", "open", "closed"}]
    /\ started \in BOOLEAN
    /\ pc \in [Procs -> PCs]
    /\ held \in [Procs -> Loggers]
    /\ next \in [Procs -> PCs]
    /\ callAfter \in [Procs -> BOOLEAN]
    /\ logs \in [Procs -> 0..MaxLogs]
    /\ events \subseteq Event
    /\ ordered \in BOOLEAN

Init ==
    /\ shared = NoLogger
    /\ once = "idle"
    /\ configured = 0
    /\ file = [k \in Configured |-> "none"]
    /\ started = FALSE
    /\ pc = [p \in Procs |-> IF p = Main THEN "m_init" ELSE "w_idle"]
    /\ held = [p \in Procs |-> NoLogger]
    /\ next = [p \in Procs |-> "done"]
    /\ callAfter = [p \in Procs |-> FALSE]
    /\ logs = [p \in Procs |-> 0]
    /\ events = {}
    /\ ordered \in Startups

(* What one zerolog write through logger l produces: the configured chain  *)
(* is Writer{ProcessEvent: MaskEvent} over io.MultiWriter(logFile, out);   *)
(* MultiWriter stops at the first failing writer, so a closed file loses   *)
(* the event for stdout too.                                               *)
Emit(l, after) ==
    [logger   |-> l,
     masked   |-> l \in Configured,
     afterCfg |-> after,
     lost     |-> l \in Configured /\ file[l] = "closed"]

\* Fault variant: a caller does not wait while the once function runs.
CallSharedLoggerNoWait(p, cont) ==
    \/ /\ once \in {"running", "done"}
       /\ held' = [held EXCEPT ![p] = shared]
       /\ pc' = [pc EXCEPT ![p] = cont]
       /\ UNCHANGED once
    \/ /\ once = "idle"
       /\ once' = "running"
       /\ pc' = [pc EXCEPT ![p] = "once_check"]
       /\ UNCHANGED held

(* SharedLogger(): once.Do returns at once when done, blocks while another *)
(* goroutine runs the function, and runs it when idle.                     *)
CallSharedLogger(p, cont) ==
    \/ /\ once = "done"
       /\ held' = [held EXCEPT ![p] = shared]
       /\ pc' = [pc EXCEPT ![p] = cont]
       /\ UNCHANGED once
    \/ /\ once = "idle"
       /\ once' = "running"
       /\ pc' = [pc EXCEPT ![p] = "once_check"]
       /\ UNCHANGED held

\* Fault variant: the once function stores the default without the nil test.
OnceCheckNoNilTest(p) ==
    /\ pc[p] = "once_check"
    /\ pc' = [pc EXCEPT ![p] = "once_store"]
    /\ UNCHANGED <<shared, once, configured, file, started, held, next, callAfter, logs, events>>

(* Inside once.Do: `if deprecatedSharedLogger == nil`, read without the    *)
(* configure mutex.  When it is already set the function returns.          *)
OnceCheck(p) ==
    /\ pc[p] = "once_check"
    /\ IF shared = NoLogger
         THEN /\ pc' = [pc EXCEPT ![p] = "once_store"]
              /\ UNCHANGED <<once, held>>
         ELSE /\ once' = "done"
              /\ held' = [held EXCEPT ![p] = shared]
              /\ pc' = [pc EXCEPT ![p] = "write"]
    /\ UNCHANGED <<shared, configured, file, started, next, callAfter, logs, events>>

(* Store the default logger, log the "logger not configured" warning       *)
(* through deprecatedSharedLogger, mark the Once done and return it.       *)
OnceStore(p) ==
    /\ pc[p] = "once_store"
    /\ shared' = DefaultLogger
    /\ once' = "done"
    /\ events' = events \cup {Emit(DefaultLogger, callAfter[p])}
    /\ held' = [held EXCEPT ![p] = DefaultLogger]
    /\ pc' = [pc EXCEPT ![p] = "write"]
    /\ UNCHANGED <<configured, file, started, next, callAfter, logs>>

(* ConfigureSharedLogger: under the mutex, New opens the log file and      *)
(* builds the masking chain, the logger is stored in                       *)
(* deprecatedSharedLogger, "shared logger configured" is logged through    *)
(* it, and the closer is returned to main, which defers it.  Only main     *)
(* configures, so the mutex never blocks.                                  *)
ConfigureSharedLogger(p) ==
    /\ p = Main
    /\ pc[p] \in {"m_cfg", "m_run"}
    /\ configured < MaxConfigures
    /\ LET k == configured + 1 IN
         /\ shared' = k
         /\ configured' = k
         /\ file' = [file EXCEPT ![k] = "open"]
         /\ events' = events \cup {[Emit(k, configured > 0) EXCEPT !.lost = FALSE]}
    /\ pc' = [pc EXCEPT ![p] = IF pc[p] = "m_cfg" THEN "m_spawn" ELSE "m_run"]
    /\ UNCHANGED <<once, started, held, next, callAfter, logs>>

(* The logger's write of one event (Logger.Info/Error -> zerolog -> the    *)
(* writer chain).                                                          *)
Write(p) ==
    /\ pc[p] = "write"
    /\ events' = events \cup {Emit(held[p], callAfter[p])}
    /\ logs' = [logs EXCEPT ![p] = logs[p] + 1]
    /\ pc' = [pc EXCEPT ![p] = next[p]]
    /\ UNCHANGED <<shared, once, configured, file, started, held, next, callAfter>>

(* Main at init: a log call before configuring.                           *)
MainInitLog ==
    /\ pc[Main] = "m_init"
    /\ next' = [next EXCEPT ![Main] = "m_cfg"]
    /\ callAfter' = [callAfter EXCEPT ![Main] = configured > 0]
    /\ CallSharedLogger(Main, "write")
    /\ UNCHANGED <<shared, configured, file, started, logs, events>>

MainSkipInitLog ==
    /\ pc[Main] = "m_init"
    /\ pc' = [pc EXCEPT ![Main] = "m_cfg"]
    /\ UNCHANGED <<shared, once, configured, file, started, held, next, callAfter, logs, events>>

MainStartWorkers ==
    /\ pc[Main] = "m_spawn"
    /\ started' = TRUE
    /\ pc' = [pc EXCEPT ![Main] = "m_run"]
    /\ UNCHANGED <<shared, once, configured, file, held, next, callAfter, logs, events>>

(* Main logs through SharedLogger().                                       *)
MainLog ==
    /\ pc[Main] = "m_run"
    /\ logs[Main] < MaxLogs
    /\ next' = [next EXCEPT ![Main] = "m_run"]
    /\ callAfter' = [callAfter EXCEPT ![Main] = configured > 0]
    /\ CallSharedLogger(Main, "write")
    /\ UNCHANGED <<shared, configured, file, started, logs, events>>

(* Main returns, running the deferred closers, which close every log file *)
(* it opened.  Nothing waits for the workers: until the process exits they  *)
(* may still write through a logger whose file is closed.                   *)
MainShutdown ==
    /\ pc[Main] = "m_run"
    /\ file' = [k \in Configured |-> IF file[k] = "open" THEN "closed" ELSE file[k]]
    /\ pc' = [pc EXCEPT ![Main] = "done"]
    /\ UNCHANGED <<shared, once, configured, started, held, next, callAfter, logs, events>>

\* Fault variant: the bound on log calls is off by one.
WorkerLogOffByOne(w) ==
    /\ pc[w] = "w_idle"
    /\ started \/ ~ordered
    /\ logs[w] <= MaxLogs
    /\ next' = [next EXCEPT ![w] = "w_idle"]
    /\ callAfter' = [callAfter EXCEPT ![w] = configured > 0]
    /\ CallSharedLogger(w, "write")
    /\ UNCHANGED <<shared, configured, file, started, logs, events>>

(* A worker's log call, e.g. logError in log.go: commonlog.Error ->       *)
(* SharedLogger().Error(...).                                              *)
WorkerLog(w) ==
    /\ pc[w] = "w_idle"
    /\ started \/ ~ordered
    /\ logs[w] < MaxLogs
    /\ next' = [next EXCEPT ![w] = "w_idle"]
    /\ callAfter' = [callAfter EXCEPT ![w] = configured > 0]
    /\ CallSharedLogger(w, "write")
    /\ UNCHANGED <<shared, configured, file, started, logs, events>>

WorkerFinish(w) ==
    /\ pc[w] = "w_idle"
    /\ logs[w] = MaxLogs
    /\ pc' = [pc EXCEPT ![w] = "done"]
    /\ UNCHANGED <<shared, once, configured, file, started, held, next, callAfter, logs, events>>

Proc(p) ==
    \/ OnceCheck(p)
    \/ OnceStore(p)
    \/ Write(p)
    \/ ConfigureSharedLogger(p)
    \/ /\ p = Main
       /\ \/ MainInitLog \/ MainSkipInitLog \/ MainStartWorkers
          \/ MainLog \/ MainShutdown
    \/ /\ p \in Workers
       /\ WorkerLog(p) \/ WorkerFinish(p)

(* The shape of the program does not change while it runs.                *)
Step(p) == Proc(p) /\ UNCHANGED ordered

Next == \E p \in Procs : Step(p)

Spec == Init /\ [][Next]_vars

-----------------------------------------------------------------------------
(* Properties *)

(* A goroutine never writes through a nil logger: SharedLogger() returns   *)
(* only after the Once function has stored a logger, since once.Do blocks  *)
(* concurrent callers until it completes.                                  *)
NeverNilLogger ==
    \A p \in Procs : pc[p] = "write" => held[p] # NoLogger

(* Every event of a log call that began after a ConfigureSharedLogger     *)
(* call had returned goes through a configured (masking) logger: the Once  *)
(* default must not replace or shadow the configured one.                  *)
NoUnmaskedAfterConfigure ==
    \A e \in events : e.afterCfg => e.masked

(* The same, for a program whose workers start only after main's first     *)
(* ConfigureSharedLogger returned: then no worker's SharedLogger() races   *)
(* the configuration and the Once default never shadows it.                *)
OrderedStartupMasked ==
    ordered => NoUnmaskedAfterConfigure

=============================================================================
