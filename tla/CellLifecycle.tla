---------------------------- MODULE CellLifecycle ----------------------------
(***************************************************************************)
(* The lifecycle commands of the terminal-cell CLI and what they work on:  *)
(* LaunchCell creates a runtime directory, spawns the daemon and polls for *)
(* its sockets; the daemon binds them, starts its session and records the  *)
(* child's pid; CloseCell reads the pids back from the files and signals   *)
(* whoever has them; the session selector looks for a live directory.      *)
(*                                                                         *)
(* CLI, daemon, child and kernel run side by side. They share files, which *)
(* std::fs::write first truncates and then fills, and pids, which the      *)
(* kernel gives away again. Daemons fail, children exit or ignore SIGTERM, *)
(* and every wait of the CLI has a deadline.                               *)
(*                                                                         *)
(* A runtime directory is named by its launch: directory names end in the  *)
(* millisecond of the launch, and launches of the same name in the same    *)
(* millisecond are left out.                                               *)
(***************************************************************************)
EXTENDS Integers, FiniteSets

CONSTANTS
    Launches,    \* LaunchCell commands, and their runtime directories
    Closers,     \* CloseCell commands
    Strangers,   \* processes that have nothing to do with any cell
    Pids         \* process ids the kernel can give out

ASSUME LifecycleAssumption ==
    /\ IsFiniteSet(Pids)
    /\ Pids \subseteq Nat \ {0}

VARIABLES
    launch,      \* launch[l]: where the LaunchCell command is
    files,       \* files[l]: what the runtime directory holds
    daemon,      \* daemon[l]: where the daemon's start-up is
    process,     \* process[i]: pid, state and pending signal of a process
    closer       \* closer[k]: a CloseCell command

vars == <<launch, files, daemon, process, closer>>

----------------------------------------------------------------------------
(* Files and processes *)

Absent == 0    \* no such file
Empty  == -1   \* created or truncated, content not yet written
NoPid  == 0

Daemon(l) == <<"daemon", l>>
Child(l)  == <<"child", l>>
Stranger(s) == <<"stranger", s>>

Processes == {Daemon(l) : l \in Launches} \union {Child(l) : l \in Launches}
                \union {Stranger(s) : s \in Strangers}

PidFile == Pids \union {Absent, Empty}

Directory == [control : BOOLEAN, data : BOOLEAN, daemonPid : PidFile, childPid : PidFile]

EmptyDirectory == [control |-> FALSE, data |-> FALSE, daemonPid |-> Absent, childPid |-> Absent]

LaunchStages ==
    {"new", "configured", "spawned", "recording", "waiting", "ready", "launched", "failed"}

DaemonStages == {"none", "loaded", "control", "bound", "started", "recording", "serving"}

CloserStages ==
    {"idle", "located", "named", "checking", "terminating", "terminatingGroup", "waiting",
     "killing", "killingGroup", "killed", "reporting", "closed", "failed"}

Closer == [stage : CloserStages, cell : Launches \union {NoPid}, target : {"child", "daemon"},
           daemonPid : Pids \union {NoPid}, childPid : Pids \union {NoPid},
           daemonWasLive : BOOLEAN, childWasLive : BOOLEAN,
           childTerminated : BOOLEAN, terminated : BOOLEAN]

IdleCloser == [stage |-> "idle", cell |-> NoPid, target |-> "child",
               daemonPid |-> NoPid, childPid |-> NoPid,
               daemonWasLive |-> FALSE, childWasLive |-> FALSE,
               childTerminated |-> FALSE, terminated |-> FALSE]

Process == [pid : Pids \union {NoPid}, state : {"none", "live", "zombie", "gone"},
            signal : {"none", "TERM", "KILL"}]

NoProcess == [pid |-> NoPid, state |-> "none", signal |-> "none"]

TypeOK ==
    /\ launch \in [Launches -> LaunchStages]
    /\ files \in [Launches -> Directory]
    /\ daemon \in [Launches -> DaemonStages]
    /\ process \in [Processes -> Process]
    /\ closer \in [Closers -> Closer]

Init ==
    /\ launch = [l \in Launches |-> "new"]
    /\ files = [l \in Launches |-> EmptyDirectory]
    /\ daemon = [l \in Launches |-> "none"]
    /\ process = [i \in Processes |-> NoProcess]
    /\ closer = [k \in Closers |-> IdleCloser]

Running(i) == process[i].state = "live"
Listed(i)  == process[i].state \in {"live", "zombie"}
Dead(i)    == process[i].state \in {"zombie", "gone"}

FreePids == Pids \ {process[i].pid : i \in {j \in Processes : Listed(j)}}

\* /proc has an entry for the pid.
InProc(p) == \E i \in Processes : Listed(i) /\ process[i].pid = p

\* A pid is live when /proc has it and it is no zombie.
Live(p) == \E i \in Processes : Running(i) /\ process[i].pid = p

\* The kernel gives a new process any free pid.
Spawned(i, p) == process' = [process EXCEPT ![i] = [pid |-> p, state |-> "live", signal |-> "none"]]

Exit(i) == process' = [process EXCEPT ![i] = [@ EXCEPT !.state = "zombie", !.signal = "none"]]

\* kill(1) on a pid: who has it now gets the signal, and nobody is a silent
\* failure.
Signal(p, signal) ==
    process' = [i \in Processes |->
                   IF Running(i) /\ process[i].pid = p /\ process[i].signal # "KILL"
                   THEN [process[i] EXCEPT !.signal = signal]
                   ELSE process[i]]

\* kill(1) on a process group: daemons and children lead one of their own, and a
\* stranger may. Other members are left out.
SignalGroup(p, signal) ==
    \/ Signal(p, signal)
    \/ /\ \E s \in Strangers : process[Stranger(s)].pid = p
       /\ UNCHANGED process

----------------------------------------------------------------------------
(* LaunchCell *)

LaunchMoves(l, from, to) == launch[l] = from /\ launch' = [launch EXCEPT ![l] = to]

\* The directory, then its metadata and the daemon's configuration.
CreateSession(l) ==
    /\ LaunchMoves(l, "new", "configured")
    /\ UNCHANGED <<files, daemon, process, closer>>

SpawnDaemon(l) ==
    /\ LaunchMoves(l, "configured", "spawned")
    /\ \E p \in FreePids : Spawned(Daemon(l), p)
    /\ daemon' = [daemon EXCEPT ![l] = "loaded"]
    /\ UNCHANGED <<files, closer>>

CreateDaemonPid(l) ==
    /\ LaunchMoves(l, "spawned", "recording")
    /\ files' = [files EXCEPT ![l].daemonPid = Empty]
    /\ UNCHANGED <<daemon, process, closer>>

\* Mutant of WriteDaemonPid: waits for the sockets with the pid file unwritten.
WriteDaemonPidLater(l) ==
    /\ LaunchMoves(l, "recording", "waiting")
    /\ UNCHANGED <<files, daemon, process, closer>>

WriteDaemonPid(l) ==
    /\ LaunchMoves(l, "recording", "waiting")
    /\ files' = [files EXCEPT ![l].daemonPid = process[Daemon(l)].pid]
    /\ UNCHANGED <<daemon, process, closer>>

SocketsPresent(l) == files[l].control /\ files[l].data

SeesSockets(l) ==
    /\ LaunchMoves(l, "waiting", "ready")
    /\ SocketsPresent(l)
    /\ UNCHANGED <<files, daemon, process, closer>>

\* Mutant of ReadyTimeout: the poll goes on until there are sockets.
ReadyTimeoutNever(l) ==
    /\ LaunchMoves(l, "waiting", "failed")
    /\ SocketsPresent(l)
    /\ UNCHANGED <<files, daemon, process, closer>>

\* The deadline ends the poll without a last look, and leaves the daemon alone.
ReadyTimeout(l) ==
    /\ LaunchMoves(l, "waiting", "failed")
    /\ UNCHANGED <<files, daemon, process, closer>>

\* A child.pid that is created but not yet written does not parse.
ReadLaunchedChild(l) ==
    /\ LaunchMoves(l, "ready", IF files[l].childPid = Empty THEN "failed" ELSE "launched")
    /\ UNCHANGED <<files, daemon, process, closer>>

\* An I/O error in one of the steps up to the pid file.
LaunchFails(l) ==
    /\ launch[l] \in {"configured", "spawned", "recording"}
    /\ launch' = [launch EXCEPT ![l] = "failed"]
    /\ UNCHANGED <<files, daemon, process, closer>>

LaunchCell(l) ==
    \/ SpawnDaemon(l) \/ CreateDaemonPid(l) \/ WriteDaemonPid(l)
    \/ SeesSockets(l) \/ ReadyTimeout(l) \/ ReadLaunchedChild(l)

----------------------------------------------------------------------------
(* The daemon *)

DaemonMoves(l, from, to) ==
    /\ Running(Daemon(l))
    /\ daemon[l] = from
    /\ daemon' = [daemon EXCEPT ![l] = to]

BindControl(l) ==
    /\ DaemonMoves(l, "loaded", "control")
    /\ files' = [files EXCEPT ![l].control = TRUE]
    /\ UNCHANGED <<launch, process, closer>>

BindData(l) ==
    /\ DaemonMoves(l, "control", "bound")
    /\ files' = [files EXCEPT ![l].data = TRUE]
    /\ UNCHANGED <<launch, process, closer>>

SpawnChild(l) ==
    /\ DaemonMoves(l, "bound", "started")
    /\ \E p \in FreePids : Spawned(Child(l), p)
    /\ UNCHANGED <<launch, files, closer>>

CreateChildPid(l) ==
    /\ DaemonMoves(l, "started", "recording")
    /\ files' = [files EXCEPT ![l].childPid = Empty]
    /\ UNCHANGED <<launch, process, closer>>

WriteChildPid(l) ==
    /\ DaemonMoves(l, "recording", "serving")
    /\ files' = [files EXCEPT ![l].childPid = process[Child(l)].pid]
    /\ UNCHANGED <<launch, process, closer>>

\* A configuration, bind or start-up error, or a crash. The sockets stay.
DaemonFails(l) ==
    /\ Running(Daemon(l))
    /\ Exit(Daemon(l))
    /\ UNCHANGED <<launch, files, daemon, closer>>

\* By itself, or by the SIGHUP of a terminal whose daemon is gone.
ChildExits(l) ==
    /\ Running(Child(l))
    /\ Exit(Child(l))
    /\ UNCHANGED <<launch, files, daemon, closer>>

DaemonSteps(l) ==
    \/ BindControl(l) \/ BindData(l) \/ SpawnChild(l) \/ CreateChildPid(l)
    \/ WriteChildPid(l) \/ DaemonFails(l) \/ ChildExits(l)

----------------------------------------------------------------------------
(* The kernel *)

SignalArrives(i) ==
    /\ Running(i)
    /\ process[i].signal # "none"
    /\ Exit(i)
    /\ UNCHANGED <<launch, files, daemon, closer>>

\* The parent of a daemon is the launching CLI, which never waits for it, and
\* init once the CLI has ended. The parent of a child is the daemon, whose exit
\* watcher waits for it once the session has started, and then init.
Collected(i) ==
    CASE i[1] = "daemon"   -> launch[i[2]] \in {"launched", "failed"}
      [] i[1] = "child"    -> daemon[i[2]] = "serving" \/ ~Running(Daemon(i[2]))
      [] i[1] = "stranger" -> TRUE

Reap(i) ==
    /\ process[i].state = "zombie"
    /\ Collected(i)
    /\ process' = [process EXCEPT ![i] = [@ EXCEPT !.state = "gone", !.pid = NoPid]]
    /\ UNCHANGED <<launch, files, daemon, closer>>

StrangerStarts(s) ==
    /\ process[Stranger(s)].state = "none"
    /\ \E p \in FreePids : Spawned(Stranger(s), p)
    /\ UNCHANGED <<launch, files, daemon, closer>>

----------------------------------------------------------------------------
(* CloseCell *)

CloserMoves(k, from, changed) ==
    /\ closer[k].stage = from
    /\ closer' = [closer EXCEPT ![k] = changed]

Failed(k) == [IdleCloser EXCEPT !.stage = "failed", !.cell = closer[k].cell]

Locate(k, l) ==
    /\ launch[l] # "new"
    /\ CloserMoves(k, "idle", [IdleCloser EXCEPT !.stage = "located", !.cell = l])
    /\ UNCHANGED <<launch, files, daemon, process>>

\* Mutant of ReadDaemonPid: takes a truncated file for a pid.
ReadDaemonPidUnparsed(k) ==
    /\ closer[k].stage = "located"
    /\ files[closer[k].cell].daemonPid # Absent
    /\ CloserMoves(k, "located",
           [closer[k] EXCEPT !.stage = "named", !.daemonPid = files[closer[k].cell].daemonPid])
    /\ UNCHANGED <<launch, files, daemon, process>>

\* No daemon.pid, or one that does not parse, is an error.
ReadDaemonPid(k) ==
    /\ closer[k].stage = "located"
    /\ LET read == files[closer[k].cell].daemonPid IN
       CloserMoves(k, "located",
           IF read \in Pids
           THEN [closer[k] EXCEPT !.stage = "named", !.daemonPid = read]
           ELSE Failed(k))
    /\ UNCHANGED <<launch, files, daemon, process>>

\* No child.pid means that there is no child to terminate.
ReadChildPid(k) ==
    /\ closer[k].stage = "named"
    /\ LET read == files[closer[k].cell].childPid IN
       CloserMoves(k, "named",
           CASE read \in Pids  -> [closer[k] EXCEPT !.stage = "checking", !.childPid = read]
             [] read = Absent  -> [closer[k] EXCEPT !.stage = "checking", !.target = "daemon"]
             [] read = Empty   -> Failed(k))
    /\ UNCHANGED <<launch, files, daemon, process>>

Target(k) == IF closer[k].target = "child" THEN closer[k].childPid ELSE closer[k].daemonPid

\* The child is dealt with first, then the daemon, then the reply is made.
Finished(c) ==
    IF c.target = "child" THEN [c EXCEPT !.stage = "checking", !.target = "daemon"]
                          ELSE [c EXCEPT !.stage = "reporting"]

TerminateChecks(k) ==
    LET live == Live(Target(k))
        seen == IF closer[k].target = "child" THEN [closer[k] EXCEPT !.childWasLive = live]
                                              ELSE [closer[k] EXCEPT !.daemonWasLive = live]
    IN  /\ CloserMoves(k, "checking", IF live THEN [seen EXCEPT !.stage = "terminating"] ELSE Finished(seen))
        /\ UNCHANGED <<launch, files, daemon, process>>

SendTerminateToGroup(k) ==
    /\ CloserMoves(k, "terminating", [closer[k] EXCEPT !.stage = "terminatingGroup"])
    /\ SignalGroup(Target(k), "TERM")
    /\ UNCHANGED <<launch, files, daemon>>

SendTerminate(k) ==
    /\ CloserMoves(k, "terminatingGroup", [closer[k] EXCEPT !.stage = "waiting"])
    /\ Signal(Target(k), "TERM")
    /\ UNCHANGED <<launch, files, daemon>>

WaitSeesExit(k) ==
    /\ ~Live(Target(k))
    /\ CloserMoves(k, "waiting", Finished(closer[k]))
    /\ UNCHANGED <<launch, files, daemon, process>>

\* Mutant of WaitExpires: gives up when SIGTERM had no effect in time.
WaitExpiresForGood(k) ==
    /\ Live(Target(k))
    /\ CloserMoves(k, "waiting", Finished(closer[k]))
    /\ UNCHANGED <<launch, files, daemon, process>>

\* CLOSE_WAIT has passed and the last look finds the pid live.
WaitExpires(k) ==
    /\ Live(Target(k))
    /\ CloserMoves(k, "waiting", [closer[k] EXCEPT !.stage = "killing"])
    /\ UNCHANGED <<launch, files, daemon, process>>

SendKillToGroup(k) ==
    /\ CloserMoves(k, "killing", [closer[k] EXCEPT !.stage = "killingGroup"])
    /\ SignalGroup(Target(k), "KILL")
    /\ UNCHANGED <<launch, files, daemon>>

SendKill(k) ==
    /\ CloserMoves(k, "killingGroup", [closer[k] EXCEPT !.stage = "killed"])
    /\ Signal(Target(k), "KILL")
    /\ UNCHANGED <<launch, files, daemon>>

\* The second wait ends with the exit or at its deadline, and its result is ignored.
WaitAfterKill(k) ==
    /\ CloserMoves(k, "killed", Finished(closer[k]))
    /\ UNCHANGED <<launch, files, daemon, process>>

\* TerminationOutcome::terminated looks at the process once more.
ReportChild(k) ==
    /\ closer[k].target = "daemon"
    /\ CloserMoves(k, "reporting",
           [closer[k] EXCEPT !.target = "child",
                             !.childTerminated = /\ closer[k].childPid # NoPid
                                                 /\ closer[k].childWasLive
                                                 /\ ~Live(closer[k].childPid)])
    /\ UNCHANGED <<launch, files, daemon, process>>

\* Mutant of ReportDaemon: the aggregate leaves out the child.
ReportDaemonOnly(k) ==
    /\ closer[k].target = "child"
    /\ CloserMoves(k, "reporting",
           [closer[k] EXCEPT !.stage = "closed",
                             !.terminated = closer[k].daemonWasLive /\ ~Live(closer[k].daemonPid)])
    /\ UNCHANGED <<launch, files, daemon, process>>

ReportDaemon(k) ==
    /\ closer[k].target = "child"
    /\ CloserMoves(k, "reporting",
           [closer[k] EXCEPT !.stage = "closed",
                             !.terminated = /\ closer[k].childTerminated
                                            /\ closer[k].daemonWasLive
                                            /\ ~Live(closer[k].daemonPid)])
    /\ UNCHANGED <<launch, files, daemon, process>>

\* An error of session.name() drops the report of what has been done.
ReportFails(k) ==
    /\ closer[k].target = "child"
    /\ CloserMoves(k, "reporting", Failed(k))
    /\ UNCHANGED <<launch, files, daemon, process>>

CloseCell(k) ==
    \/ ReadDaemonPid(k) \/ ReadChildPid(k) \/ TerminateChecks(k)
    \/ SendTerminateToGroup(k) \/ SendTerminate(k) \/ WaitSeesExit(k) \/ WaitExpires(k)
    \/ SendKillToGroup(k) \/ SendKill(k) \/ WaitAfterKill(k) \/ ReportChild(k) \/ ReportDaemon(k)

----------------------------------------------------------------------------

Next ==
    \/ \E l \in Launches : CreateSession(l) \/ LaunchCell(l) \/ LaunchFails(l) \/ DaemonSteps(l)
    \/ \E k \in Closers : CloseCell(k) \/ ReportFails(k) \/ \E l \in Launches : Locate(k, l)
    \/ \E i \in Processes : SignalArrives(i) \/ Reap(i)
    \/ \E s \in Strangers : StrangerStarts(s)

\* CLI processes run on; SIGKILL works. A daemon or a child need not do anything.
Fairness ==
    /\ \A l \in Launches : WF_vars(LaunchCell(l))
    /\ \A k \in Closers : WF_vars(CloseCell(k))
    /\ \A i \in Processes : WF_vars(process[i].signal = "KILL" /\ SignalArrives(i))

Spec == Init /\ [][Next]_vars /\ Fairness

----------------------------------------------------------------------------
(* Properties *)

\* The session selector takes a directory whose sockets are present and whose
\* daemon.pid names a process in /proc, zombies included.
Selectable(l) == SocketsPresent(l) /\ files[l].daemonPid \in Pids /\ InProc(files[l].daemonPid)

\* "the datom reply must report daemon, child, and aggregate termination
\* truthfully": a CloseCell that reports terminated leaves neither daemon nor
\* child, whatever starts, exits or takes over a pid in the meantime.
CloseTruthful ==
    \A k \in Closers :
        closer[k].terminated => Dead(Daemon(closer[k].cell)) /\ Dead(Child(closer[k].cell))

\* A cell reported as launched can be found and closed as long as its daemon
\* runs: the selector does not skip it, and its daemon.pid is the daemon's.
LaunchedSelectable ==
    \A l \in Launches :
        launch[l] = "launched" /\ Running(Daemon(l)) =>
            Selectable(l) /\ files[l].daemonPid = process[Daemon(l)].pid

\* Every command ends, although the daemon may never bind a socket and the
\* processes to be closed may ignore SIGTERM.
CommandsEnd ==
    /\ \A l \in Launches : launch[l] = "configured" ~> launch[l] \in {"launched", "failed"}
    /\ \A k \in Closers : closer[k].stage = "located" ~> closer[k].stage \in {"closed", "failed"}

\* CloseCell "terminates both the daemon process group and the PTY child process
\* group when the child pid has been captured": in the end both are dead, also a
\* child that ignores SIGTERM.
CloseEndsCell ==
    \A k \in Closers : \A l \in Launches :
        closer[k].stage = "closed" /\ closer[k].childPid # NoPid /\ closer[k].cell = l ~>
            Dead(Daemon(l)) /\ Dead(Child(l))
=============================================================================
