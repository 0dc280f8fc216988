---------------------------- MODULE DevenvService ----------------------------
(***************************************************************************)
(* Service.Start / Service.Stop of pkg/common/devenv/service.go, run by    *)
(* concurrent invocations of the developer tool against one service, and  *)
(* the operating system's process table they query and signal.             *)
(*   - PID() runs `ps -eo pid,cmd | awk ...` (linux) and returns the pids  *)
(*     of every live process of the executable, one per line, or an error; *)
(*   - Start: PID; running -> Running; else Build, RunExecutable (starts   *)
(*     the executable without waiting), PID again -> Started or Unknown;   *)
(*   - Stop: PID; none -> NotRunning; else `kill <pid output>`, PID again  *)
(*     -> Stopped or Unknown.                                              *)
(* A killed process exits some time after SIGTERM; a running process may   *)
(* also die on its own (e.g. it cannot bind its port).  The output of PID  *)
(* is the set of pids it lists; kill is given that output as ONE argument, *)
(* so with two pids it fails to parse it.  The cover flag only sets        *)
(* GOCOVERDIR and is left out.                                             *)
(***************************************************************************)
EXTENDS Naturals, FiniteSets

CONSTANTS
    Clients,    \* concurrent invocations of the tool
    Cmd,        \* Cmd[c] \in {"start", "stop"}: what invocation c runs
    MaxPids     \* bound on processes ever created (pids are not reused)

Pids == 1..MaxPids

StartStates == {"running", "started", "unknown", "error"}
StopStates == {"not running", "stopped", "unknown", "error"}

VARIABLES
    proc,      \* proc[i]: "free", "running", "exiting" (got SIGTERM) or "dead"
    nextPid,   \* next pid the OS hands out
    pc,        \* where each invocation is
    seen,      \* the pids the invocation's first PID() call returned
    result     \* the ServiceState an invocation returned, or "none"

vars == <<proc, nextPid, pc, seen, result>>

(* The processes PID() lists: every live process of the executable.        *)
Live == {i \in Pids : proc[i] \in {"running", "exiting"}}

TypeOK ==
    /\ proc \in [Pids -> {"free", "running", "exiting", "dead"}]
    /\ nextPid \in 1..MaxPids + 1
    /\ pc \in [Clients -> {"s_pid", "s_build", "s_run", "s_check",
                           "t_pid", "t_kill", "t_check", "done"}]
    /\ seen \in [Clients -> SUBSET Pids]
    /\ \A c \in Clients :
         result[c] \in {"none"} \cup (IF Cmd[c] = "start" THEN StartStates ELSE StopStates)

(* The service may or may not be running when the tool is invoked.         *)
Init ==
    /\ \E up \in BOOLEAN :
         /\ proc = [i \in Pids |-> IF up /\ i = 1 THEN "running" ELSE "free"]
         /\ nextPid = IF up THEN 2 ELSE 1
    /\ pc = [c \in Clients |-> IF Cmd[c] = "start" THEN "s_pid" ELSE "t_pid"]
    /\ seen = [c \in Clients |-> {}]
    /\ result = [c \in Clients |-> "none"]

Return(c, state) ==
    /\ result' = [result EXCEPT ![c] = state]
    /\ pc' = [pc EXCEPT ![c] = "done"]

(* PID() fails (the command cannot run, or exits with a status other than  *)
(* 1): the calling Start or Stop returns the error.                        *)
PIDError(c) ==
    /\ pc[c] \in {"s_pid", "s_check", "t_pid", "t_check"}
    /\ Return(c, "error")
    /\ UNCHANGED <<proc, nextPid, seen>>
(* A Start that launches without the running check.                         *)
StartPIDUnchecked(c) ==
    /\ pc[c] = "s_pid"
    /\ pc' = [pc EXCEPT ![c] = "s_build"]
    /\ UNCHANGED <<proc, nextPid, seen, result>>

(* Start, first PID() (lines 75-82): a running service is left alone.    *)
StartPID(c) ==
    /\ pc[c] = "s_pid"
    /\ IF Live # {} THEN Return(c, "running")
                    ELSE pc' = [pc EXCEPT ![c] = "s_build"] /\ UNCHANGED result
    /\ UNCHANGED <<proc, nextPid, seen>>

(* Build: `go build` (and the optional codesign) succeeds or fails; it      *)
(* touches no process.                                                      *)
Build(c) ==
    /\ pc[c] = "s_build"
    /\ \/ pc' = [pc EXCEPT ![c] = "s_run"] /\ UNCHANGED result
       \/ Return(c, "error")
    /\ UNCHANGED <<proc, nextPid, seen>>

(* RunExecutable: cmd.Start() forks the executable (a fresh pid) and does   *)
(* not wait for it, or fails to start it.                                   *)
RunExecutable(c) ==
    /\ pc[c] = "s_run"
    /\ nextPid <= MaxPids
    /\ \/ /\ proc' = [proc EXCEPT ![nextPid] = "running"]
          /\ nextPid' = nextPid + 1
          /\ pc' = [pc EXCEPT ![c] = "s_check"]
          /\ UNCHANGED result
       \/ Return(c, "error") /\ UNCHANGED <<proc, nextPid>>
    /\ UNCHANGED seen

(* Start, second PID() (lines 92-101).                                      *)
StartCheck(c) ==
    /\ pc[c] = "s_check"
    /\ Return(c, IF Live # {} THEN "started" ELSE "unknown")
    /\ UNCHANGED <<proc, nextPid, seen>>

(* Stop, first PID() (lines 159-166): nothing to stop, or remember the      *)
(* output for kill.                                                         *)
StopPID(c) ==
    /\ pc[c] = "t_pid"
    /\ IF Live = {} THEN Return(c, "not running") /\ UNCHANGED seen
                    ELSE /\ seen' = [seen EXCEPT ![c] = Live]
                         /\ pc' = [pc EXCEPT ![c] = "t_kill"]
                         /\ UNCHANGED result
    /\ UNCHANGED <<proc, nextPid>>

(* `kill <output>` (lines 168-171).  Two pids are one argument "p1\np2",   *)
(* which kill rejects; a pid that has exited since PID() fails with "no    *)
(* such process"; otherwise the process gets SIGTERM.                       *)
Kill(c) ==
    /\ pc[c] = "t_kill"
    /\ IF Cardinality(seen[c]) = 1 /\ seen[c] \subseteq Live
         THEN /\ proc' = [i \in Pids |-> IF i \in seen[c] THEN "exiting" ELSE proc[i]]
              /\ pc' = [pc EXCEPT ![c] = "t_check"]
              /\ UNCHANGED result
         ELSE Return(c, "error") /\ UNCHANGED proc
    /\ UNCHANGED <<nextPid, seen>>

(* Stop, second PID() (lines 173-182): the signalled process may not have  *)
(* exited yet.                                                              *)
StopCheckWrongState(c) ==
    /\ pc[c] = "t_check"
    /\ Return(c, IF Live = {} THEN "stopped" ELSE "started")
    /\ UNCHANGED <<proc, nextPid, seen>>

StopCheck(c) ==
    /\ pc[c] = "t_check"
    /\ Return(c, IF Live = {} THEN "stopped" ELSE "unknown")
    /\ UNCHANGED <<proc, nextPid, seen>>

(* The operating system: a signalled process exits; a running one may die  *)
(* on its own.                                                              *)
ProcessExit(i) ==
    /\ proc[i] = "exiting"
    /\ proc' = [proc EXCEPT ![i] = "dead"]
    /\ UNCHANGED <<nextPid, pc, seen, result>>

ProcessCrash(i) ==
    /\ proc[i] = "running"
    /\ proc' = [proc EXCEPT ![i] = "dead"]
    /\ UNCHANGED <<nextPid, pc, seen, result>>

Client(c) ==
    \/ PIDError(c) \/ StartPID(c) \/ Build(c) \/ RunExecutable(c)
    \/ StartCheck(c) \/ StopPID(c) \/ Kill(c) \/ StopCheck(c)

(* Every invocation has returned and no process is left to exit.           *)
Terminated ==
    /\ \A c \in Clients : pc[c] = "done"
    /\ \A i \in Pids : proc[i] # "exiting"
    /\ UNCHANGED vars

Next ==
    \/ \E c \in Clients : Client(c)
    \/ \E i \in Pids : ProcessExit(i) \/ ProcessCrash(i)
    \/ Terminated

Spec == Init /\ [][Next]_vars

-----------------------------------------------------------------------------
(* Refinement: the number of live processes behaves as ServiceControl's    *)
(* `instances`.                                                             *)
Abs == INSTANCE ServiceControl WITH instances <- Cardinality(Live)

(* Start's doc comment "if the service is already running, it does         *)
(* nothing": whatever invocations interleave, the service never runs as    *)
(* two processes, and a process appears only when none was live.           *)
ServiceRefinement == Abs!Spec

====
