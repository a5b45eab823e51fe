------------------------ MODULE CellLifecycleProofs -------------------------
(***************************************************************************)
(* Proofs about launching and closing cells, for any number of LaunchCell  *)
(* and CloseCell commands at once, any other processes and any pids.       *)
(***************************************************************************)
EXTENDS CellLifecycle, TLAPS

-----------------------------------------------------------------------------
(* The inductive invariant.                                                *)

\* The kernel lists a process exactly as long as the process has a pid.
Named == \A i \in Processes : Listed(i) <=> process[i].pid # NoPid

\* The process was started, and whatever became of it, nobody else listed under
\* its name has the pid: as long as it is listed, p is its own.
Holds(i, p) == process[i].state # "none" /\ (Listed(i) => process[i].pid = p)

\* A pid file with a pid in it names the process it was written for.
FilesTrue ==
    \A l \in Launches :
        /\ files[l].daemonPid \in Pids => Holds(Daemon(l), files[l].daemonPid)
        /\ files[l].childPid \in Pids => Holds(Child(l), files[l].childPid)

\* A command's stage tells whether its daemon was started, and that the zombie
\* of a daemon waits for the command to end; a daemon's stage tells of its child.
Started ==
    \A l \in Launches :
        /\ launch[l] \in {"new", "configured"} => process[Daemon(l)].state = "none" /\ daemon[l] = "none"
        /\ launch[l] \in {"spawned", "recording", "waiting", "ready"} => Listed(Daemon(l))
        /\ process[Child(l)].state = "none" <=> daemon[l] \in {"none", "loaded", "control", "bound"}

\* What a command found in place stays in place.
Recorded ==
    \A l \in Launches :
        /\ launch[l] \in {"waiting", "ready", "launched"} => files[l].daemonPid \in Pids
        /\ launch[l] \in {"ready", "launched"} => SocketsPresent(l)

\* A CloseCell command has read pids of its cell's own processes, and reports
\* only deaths.
CloserTrue(c) ==
    /\ c.stage # "idle" => c.cell \in Launches
    /\ c.stage \notin {"idle", "located", "failed"} => c.daemonPid # NoPid
    /\ c.daemonPid # NoPid => c.stage # "idle" /\ Holds(Daemon(c.cell), c.daemonPid)
    /\ c.childPid # NoPid => c.stage # "idle" /\ Holds(Child(c.cell), c.childPid)
    /\ c.childTerminated => c.stage # "idle" /\ Dead(Child(c.cell))
    /\ c.terminated => Dead(Daemon(c.cell)) /\ Dead(Child(c.cell)) /\ c.stage # "idle"
ClosersTrue == \A k \in Closers : CloserTrue(closer[k])

\* Together with the types these are inductive.
CellInv ==
    /\ TypeOK
    /\ Named
    /\ FilesTrue
    /\ Started
    /\ Recorded
    /\ ClosersTrue

-----------------------------------------------------------------------------
(* Processes.                                                              *)

\* Daemons, children and strangers are different processes.
LEMMA ProcessesDiffer ==
    /\ \A l \in Launches : Daemon(l) \in Processes /\ Child(l) \in Processes
    /\ \A s \in Strangers : Stranger(s) \in Processes
    /\ \A l, m : Daemon(l) # Child(m) /\ Stranger(l) # Daemon(m) /\ Stranger(l) # Child(m)
    /\ \A l, m : (Daemon(l) = Daemon(m) => l = m) /\ (Child(l) = Child(m) => l = m)
BY DEF Processes, Daemon, Child, Stranger

\* A process goes the way of all processes, or stays as it is.
Aged(i) ==
    /\ process[i].state = "none" <=> process'[i].state = "none"
    /\ Listed(i)' => Listed(i) /\ process'[i].pid = process[i].pid
    /\ Running(i)' => Running(i)

\* What a pid, a death or a start says of a process stays true as it ages.
LEMMA AgedFacts ==
    ASSUME TypeOK, process' \in [Processes -> Process], NEW i \in Processes, Aged(i)
    PROVE  /\ \A p : Holds(i, p) => Holds(i, p)'
           /\ Dead(i) => Dead(i)'
<1>1. process[i] \in Process /\ process'[i] \in Process
  BY DEF TypeOK
<1>2. /\ process[i].state \in {"none", "live", "zombie", "gone"}
      /\ process'[i].state \in {"none", "live", "zombie", "gone"}
  BY <1>1 DEF Process
<1> QED BY <1>2 DEF Aged, Holds, Dead, Listed, Running

\* No process changes.
LEMMA ProcessKept ==
    ASSUME TypeOK, Named, process' = process
    PROVE  /\ process' \in [Processes -> Process] /\ Named'
           /\ \A i \in Processes : Aged(i) /\ (Listed(i) => Listed(i)')
BY DEF TypeOK, Named, Aged, Listed, Running

\* A process ends.
LEMMA ExitAges ==
    ASSUME TypeOK, Named, NEW i \in Processes, Running(i), Exit(i)
    PROVE  /\ process' \in [Processes -> Process] /\ Named'
           /\ \A j \in Processes : Aged(j) /\ (Listed(j) => Listed(j)')
<1>1. process \in [Processes -> Process] /\ process[i].state = "live"
  BY DEF TypeOK, Running
<1>2. \A j \in Processes : process'[j] = IF j = i THEN [process[i] EXCEPT !.state = "zombie", !.signal = "none"]
                                                   ELSE process[j]
  BY <1>1 DEF Exit
<1>3. ASSUME NEW j \in Processes
      PROVE  /\ process'[j] \in Process /\ process'[j].pid = process[j].pid
             /\ process'[j].state = IF j = i THEN "zombie" ELSE process[j].state
  <2>1. CASE j = i
    <3>1. process'[j] = [process[i] EXCEPT !.state = "zombie", !.signal = "none"] /\ process[i] \in Process
      BY <1>1, <1>2, <2>1
    <3> QED BY <2>1, <3>1 DEF Process
  <2>2. CASE j # i
    BY <1>1, <1>2, <2>2
  <2> QED BY <2>1, <2>2
<1>4. process' \in [Processes -> Process]
  BY <1>1, <1>3 DEF Exit
<1> QED BY <1>1, <1>3, <1>4 DEF Named, Aged, Listed, Running

\* A signal is sent: nobody starts or ends by it.
LEMMA SignalAges ==
    ASSUME TypeOK, Named, NEW p, NEW s \in {"TERM", "KILL"}, Signal(p, s)
    PROVE  /\ process' \in [Processes -> Process] /\ Named'
           /\ \A j \in Processes : Aged(j) /\ (Listed(j) => Listed(j)')
<1>1. process \in [Processes -> Process]
  BY DEF TypeOK
<1>2. ASSUME NEW j \in Processes
      PROVE  /\ process'[j] \in Process /\ process'[j].pid = process[j].pid
             /\ process'[j].state = process[j].state
  <2>1. process'[j] = [process[j] EXCEPT !.signal = s] \/ process'[j] = process[j]
    BY DEF Signal
  <2> QED BY <1>1, <2>1 DEF Process
<1>3. process' \in [Processes -> Process]
  BY <1>2 DEF Signal
<1> QED BY <1>2, <1>3 DEF Named, Aged, Listed, Running

\* A zombie is collected, and its pid is free.
LEMMA ReapAges ==
    ASSUME TypeOK, Named, NEW i \in Processes, Reap(i)
    PROVE  /\ process' \in [Processes -> Process] /\ Named'
           /\ \A j \in Processes : Aged(j) /\ (j # i /\ Listed(j) => Listed(j)')
<1>1. process \in [Processes -> Process] /\ process[i].state = "zombie"
  BY DEF TypeOK, Reap
<1>2. \A j \in Processes : process'[j] = IF j = i THEN [process[i] EXCEPT !.state = "gone", !.pid = NoPid]
                                                   ELSE process[j]
  BY <1>1 DEF Reap
<1>3. ASSUME NEW j \in Processes
      PROVE  /\ process'[j] \in Process /\ process'[j].pid = IF j = i THEN NoPid ELSE process[j].pid
             /\ process'[j].state = IF j = i THEN "gone" ELSE process[j].state
  BY <1>1, <1>2 DEF Process
<1>4. process' \in [Processes -> Process]
  BY <1>1, <1>3 DEF Reap
<1> QED BY <1>1, <1>3, <1>4 DEF Named, Aged, Listed, Running

\* A process starts under a free pid; the others stay as they are.
LEMMA SpawnAges ==
    ASSUME TypeOK, Named, NEW i \in Processes, NEW p \in FreePids, Spawned(i, p)
    PROVE  /\ process' \in [Processes -> Process] /\ Named'
           /\ \A j \in Processes \ {i} : Aged(j) /\ (Listed(j) => Listed(j)')
           /\ Listed(i)' /\ process'[i].state = "live" /\ process'[i].pid = p
<1>1. process \in [Processes -> Process] /\ p \in Pids /\ p # NoPid
  BY LifecycleAssumption DEF TypeOK, FreePids, LifecycleAssumption, NoPid
<1>2. \A j \in Processes : process'[j] = IF j = i THEN [pid |-> p, state |-> "live", signal |-> "none"]
                                                   ELSE process[j]
  BY <1>1 DEF Spawned
<1>3. ASSUME NEW j \in Processes
      PROVE  /\ process'[j] \in Process /\ process'[j].pid = IF j = i THEN p ELSE process[j].pid
             /\ process'[j].state = IF j = i THEN "live" ELSE process[j].state
  BY <1>1, <1>2 DEF Process
<1>4. process' \in [Processes -> Process]
  BY <1>1, <1>3 DEF Spawned
<1> QED BY <1>1, <1>3, <1>4 DEF Named, Aged, Listed, Running
\* What is known of a process is not made false.
Faithful == \A i \in Processes : (\A p : Holds(i, p) => Holds(i, p)') /\ (Dead(i) => Dead(i)')

\* Ageing makes nothing false that is known of a process, and nothing is known
\* of one that was never started.
LEMMA AgedFaithful ==
    ASSUME TypeOK, process' \in [Processes -> Process],
           \A i \in Processes : Aged(i) \/ process[i].state = "none"
    PROVE  Faithful
<1> SUFFICES ASSUME NEW i \in Processes
             PROVE  (\A p : Holds(i, p) => Holds(i, p)') /\ (Dead(i) => Dead(i)')
  BY DEF Faithful
<1>1. CASE Aged(i)
  BY <1>1, AgedFacts
<1>2. CASE process[i].state = "none"
  BY <1>2 DEF Holds, Dead
<1> QED BY <1>1, <1>2

-----------------------------------------------------------------------------
(* Files.                                                                  *)

\* A pid that is not yet written is no pid.
LEMMA NoPidFile == Empty \notin Pids /\ Absent \notin Pids /\ NoPid \notin Pids /\ Empty \in PidFile /\ NoPid \in PidFile
BY LifecycleAssumption DEF LifecycleAssumption, Empty, Absent, NoPid, PidFile

\* Something is written to one file of one directory.
LEMMA DaemonPidWritten ==
    ASSUME TypeOK, NEW l \in Launches, NEW d \in PidFile, files' = [files EXCEPT ![l].daemonPid = d]
    PROVE  /\ files' \in [Launches -> Directory]
           /\ \A m \in Launches : /\ files'[m].daemonPid = IF m = l THEN d ELSE files[m].daemonPid
                                  /\ files'[m].childPid = files[m].childPid
                                  /\ SocketsPresent(m) => SocketsPresent(m)'
<1>1. files \in [Launches -> Directory]
  BY DEF TypeOK
<1>2. \A m \in Launches : files'[m] = IF m = l THEN [files[m] EXCEPT !.daemonPid = d] ELSE files[m]
  BY <1>1
<1>3. ASSUME NEW m \in Launches
      PROVE  /\ files'[m] \in Directory
             /\ files'[m].daemonPid = IF m = l THEN d ELSE files[m].daemonPid
             /\ files'[m].childPid = files[m].childPid
             /\ files'[m].control = files[m].control /\ files'[m].data = files[m].data
  BY <1>1, <1>2 DEF Directory
<1> QED BY <1>1, <1>3 DEF SocketsPresent

\* Writing a child.pid changes one file of one directory.
LEMMA ChildPidWritten ==
    ASSUME TypeOK, NEW l \in Launches, NEW d \in PidFile, files' = [files EXCEPT ![l].childPid = d]
    PROVE  /\ files' \in [Launches -> Directory]
           /\ \A m \in Launches : /\ files'[m].childPid = IF m = l THEN d ELSE files[m].childPid
                                  /\ files'[m].daemonPid = files[m].daemonPid
                                  /\ SocketsPresent(m) => SocketsPresent(m)'
<1>1. files \in [Launches -> Directory]
  BY DEF TypeOK
<1>2. \A m \in Launches : files'[m] = IF m = l THEN [files[m] EXCEPT !.childPid = d] ELSE files[m]
  BY <1>1
<1>3. ASSUME NEW m \in Launches
      PROVE  /\ files'[m] \in Directory
             /\ files'[m].childPid = IF m = l THEN d ELSE files[m].childPid
             /\ files'[m].daemonPid = files[m].daemonPid
             /\ files'[m].control = files[m].control /\ files'[m].data = files[m].data
  BY <1>1, <1>2 DEF Directory
<1> QED BY <1>1, <1>3 DEF SocketsPresent

\* A socket appears.
LEMMA SocketBound ==
    ASSUME TypeOK, NEW l \in Launches,
           \/ files' = [files EXCEPT ![l].control = TRUE]
           \/ files' = [files EXCEPT ![l].data = TRUE]
    PROVE  /\ files' \in [Launches -> Directory]
           /\ \A m \in Launches : /\ files'[m].daemonPid = files[m].daemonPid
                                  /\ files'[m].childPid = files[m].childPid
                                  /\ SocketsPresent(m) => SocketsPresent(m)'
<1>1. files \in [Launches -> Directory]
  BY DEF TypeOK
<1>2. \A m \in Launches :
         \/ files'[m] = [files[m] EXCEPT !.control = TRUE]
         \/ files'[m] = [files[m] EXCEPT !.data = TRUE]
         \/ files'[m] = files[m]
  BY <1>1
<1>3. ASSUME NEW m \in Launches
      PROVE  /\ files'[m] \in Directory
             /\ files'[m].daemonPid = files[m].daemonPid /\ files'[m].childPid = files[m].childPid
             /\ (files'[m].control = files[m].control \/ files'[m].control = TRUE)
             /\ (files'[m].data = files[m].data \/ files'[m].data = TRUE)
  <2>1. PICK f : f = files[m] /\ f \in Directory
    BY <1>1
  <2>2. CASE files'[m] = [f EXCEPT !.control = TRUE]
    BY <2>1, <2>2 DEF Directory
  <2>3. CASE files'[m] = [f EXCEPT !.data = TRUE]
    BY <2>1, <2>3 DEF Directory
  <2>4. CASE files'[m] = f
    BY <2>1, <2>4
  <2> QED BY <1>2, <2>1, <2>2, <2>3, <2>4
<1>4. ASSUME NEW m \in Launches, SocketsPresent(m) PROVE SocketsPresent(m)'
  BY <1>3, <1>4 DEF SocketsPresent
<1> QED BY <1>1, <1>3, <1>4

\* The pid files stay true as long as what is known of the processes does.
LEMMA FilesKept ==
    ASSUME FilesTrue, Faithful, UNCHANGED files
    PROVE  FilesTrue'
<1>1. ASSUME NEW l \in Launches
      PROVE  /\ files'[l].daemonPid \in Pids => Holds(Daemon(l), files[l].daemonPid)'
             /\ files'[l].childPid \in Pids => Holds(Child(l), files[l].childPid)'
  <2>1. PICK d : d = files[l].daemonPid
    OBVIOUS
  <2>2. PICK c : c = files[l].childPid
    OBVIOUS
  <2>3. (d \in Pids => Holds(Daemon(l), d)) /\ (c \in Pids => Holds(Child(l), c))
    BY <2>1, <2>2 DEF FilesTrue
  <2>4. (d \in Pids => Holds(Daemon(l), d)') /\ (c \in Pids => Holds(Child(l), c)')
    BY <2>3, ProcessesDiffer DEF Faithful
  <2>5. files'[l].daemonPid = d /\ files'[l].childPid = c
    BY <2>1, <2>2
  <2> QED BY <2>4, <2>5 DEF Holds, Listed
<1> QED BY <1>1 DEF FilesTrue

-----------------------------------------------------------------------------
(* CloseCell commands.                                                     *)

\* A command goes on with the same cell, pids and findings.
SameCell(o, c) ==
    /\ o.stage \notin {"idle", "located", "failed"} /\ c.stage # "idle"
    /\ c.cell = o.cell /\ c.daemonPid = o.daemonPid /\ c.childPid = o.childPid
    /\ c.childTerminated = o.childTerminated /\ c.terminated = o.terminated

\* What a command knows stays true while it moves on.
LEMMA CloserGoesOn ==
    ASSUME Faithful, NEW o \in Closer, CloserTrue(o), NEW c \in Closer, c = o \/ SameCell(o, c)
    PROVE  CloserTrue(c)'
<1>1. CASE o.stage = "idle"
  BY <1>1 DEF CloserTrue, SameCell
<1>2. CASE o.stage # "idle"
  <2>1. Daemon(o.cell) \in Processes /\ Child(o.cell) \in Processes
    BY <1>2, ProcessesDiffer DEF CloserTrue
  <2> DEFINE d == Daemon(o.cell)
             h == Child(o.cell)
  <2>2. /\ \A p : (Holds(d, p) => Holds(d, p)') /\ (Holds(h, p) => Holds(h, p)')
        /\ (Dead(d) => Dead(d)') /\ (Dead(h) => Dead(h)')
    BY <2>1 DEF Faithful
  <2>3. /\ c.cell = o.cell /\ c.daemonPid = o.daemonPid /\ c.childPid = o.childPid /\ c.stage # "idle"
        /\ c.childTerminated = o.childTerminated /\ c.terminated = o.terminated
        /\ c = o \/ o.stage \notin {"idle", "located", "failed"}
    BY <1>2 DEF SameCell
  <2>4. /\ o.cell \in Launches
        /\ o.stage \notin {"idle", "located", "failed"} => o.daemonPid # NoPid
        /\ o.daemonPid # NoPid => Holds(d, o.daemonPid)
        /\ o.childPid # NoPid => Holds(h, o.childPid)
        /\ o.childTerminated => Dead(h)
        /\ o.terminated => Dead(d) /\ Dead(h)
    BY <1>2 DEF CloserTrue
  <2>5. /\ o.daemonPid # NoPid => Holds(d, o.daemonPid)'
        /\ o.childPid # NoPid => Holds(h, o.childPid)'
        /\ o.childTerminated => Dead(h)'
        /\ o.terminated => Dead(d)' /\ Dead(h)'
    BY <2>2, <2>4
  <2> HIDE DEF d, h
  <2>6. Daemon(c.cell) = d /\ Child(c.cell) = h
    BY <2>3 DEF d, h
  <2> QED BY <2>3, <2>4, <2>5, <2>6 DEF CloserTrue
<1> QED BY <1>1, <1>2

\* One command moves.
LEMMA CloserMoved ==
    ASSUME TypeOK, ClosersTrue, Faithful, NEW k \in Closers, NEW c \in Closer,
           closer' = [closer EXCEPT ![k] = c], CloserTrue(c)'
    PROVE  closer' \in [Closers -> Closer] /\ ClosersTrue'
<1>1. closer \in [Closers -> Closer]
  BY DEF TypeOK
<1>2. ASSUME NEW j \in Closers PROVE CloserTrue(closer[j])'
  <2>1. PICK o \in Closer : o = closer[j]
    BY <1>1
  <2>2. CloserTrue(o)'
    BY <2>1, CloserGoesOn DEF ClosersTrue
  <2>3. closer'[j] = IF j = k THEN c ELSE o
    BY <1>1, <2>1
  <2>4. PICK q : q = closer'[j] /\ CloserTrue(q)'
    BY <2>2, <2>3
  <2> QED BY <2>4 DEF CloserTrue
<1> QED BY <1>1, <1>2 DEF ClosersTrue

\* No command moves.
LEMMA ClosersKept ==
    ASSUME TypeOK, ClosersTrue, Faithful, closer' = closer
    PROVE  ClosersTrue'
<1>1. closer \in [Closers -> Closer]
  BY DEF TypeOK
<1>2. ASSUME NEW j \in Closers PROVE CloserTrue(closer[j])'
  <2>1. PICK o \in Closer : o = closer[j]
    BY <1>1
  <2>2. CloserTrue(o)' /\ closer'[j] = o
    BY <2>1, CloserGoesOn DEF ClosersTrue
  <2> QED BY <2>2 DEF CloserTrue
<1> QED BY <1>2 DEF ClosersTrue

-----------------------------------------------------------------------------
(* Every step.                                                             *)

\* A LaunchCell command moves on without the kernel.
LEMMA LaunchSteps ==
    ASSUME CellInv, NEW l \in Launches,
           \/ CreateSession(l) \/ CreateDaemonPid(l) \/ WriteDaemonPid(l) \/ SeesSockets(l)
           \/ ReadyTimeout(l) \/ ReadLaunchedChild(l) \/ LaunchFails(l)
    PROVE  CellInv'
<1>a. TypeOK /\ Named /\ FilesTrue /\ Started /\ Recorded /\ ClosersTrue
  BY DEF CellInv
<1>u. UNCHANGED <<daemon, process, closer>>
  BY DEF CreateSession, CreateDaemonPid, WriteDaemonPid, SeesSockets, ReadyTimeout, ReadLaunchedChild, LaunchFails
<1>p. /\ process' \in [Processes -> Process] /\ Named' /\ Faithful
  BY <1>a, <1>u, ProcessKept, AgedFaithful
<1>c. ClosersTrue'
  BY <1>a, <1>u, <1>p, ClosersKept
<1>t. launch \in [Launches -> LaunchStages] /\ files \in [Launches -> Directory]
  BY <1>a DEF TypeOK
<1>1. ASSUME NEW to \in LaunchStages, launch' = [launch EXCEPT ![l] = to],
             files' \in [Launches -> Directory], FilesTrue', Recorded',
             to \notin {"new", "configured"} \/ (to = "configured" /\ launch[l] = "new"),
             to \in {"spawned", "recording", "waiting", "ready"} =>
                launch[l] \in {"spawned", "recording", "waiting", "ready"}
      PROVE  CellInv'
  <2>1. launch' \in [Launches -> LaunchStages] /\ \A m \in Launches : launch'[m] = IF m = l THEN to ELSE launch[m]
    BY <1>t, <1>1
  <2>2. Started'
    BY <1>a, <1>u, <1>1, <2>1 DEF Started, Listed
  <2>3. TypeOK'
    BY <1>a, <1>u, <1>p, <1>1, <2>1 DEF TypeOK
  <2> QED BY <1>p, <1>c, <1>1, <2>2, <2>3 DEF CellInv
<1>2. ASSUME NEW to \in LaunchStages, launch' = [launch EXCEPT ![l] = to], files' = files,
             to \in {"configured", "failed"}
             \/ (to = "ready" /\ launch[l] = "waiting" /\ SocketsPresent(l))
             \/ (to = "launched" /\ launch[l] = "ready")
      PROVE  files' \in [Launches -> Directory] /\ FilesTrue' /\ Recorded'
  <2>1. \A m \in Launches : launch'[m] = IF m = l THEN to ELSE launch[m]
    BY <1>t, <1>2
  <2>2. Recorded'
    BY <1>a, <1>2, <2>1 DEF Recorded, SocketsPresent
  <2>3. FilesTrue'
    BY <1>a, <1>p, <1>2, FilesKept
  <2> QED BY <1>t, <1>2, <2>2, <2>3
<1>3. CASE CreateSession(l)
  BY <1>1, <1>2, <1>3 DEF CreateSession, LaunchMoves, LaunchStages
<1>4. CASE ReadyTimeout(l) \/ LaunchFails(l)
  BY <1>1, <1>2, <1>4 DEF ReadyTimeout, LaunchFails, LaunchMoves, LaunchStages
<1>5. CASE SeesSockets(l)
  BY <1>1, <1>2, <1>5 DEF SeesSockets, LaunchMoves, LaunchStages
<1>6. CASE ReadLaunchedChild(l)
  <2>1. PICK to \in {"failed", "launched"} : launch' = [launch EXCEPT ![l] = to]
    BY <1>6 DEF ReadLaunchedChild, LaunchMoves
  <2>2. launch[l] = "ready" /\ files' = files /\ to \in LaunchStages
    BY <1>6 DEF ReadLaunchedChild, LaunchMoves, LaunchStages
  <2> QED BY <1>1, <1>2, <2>1, <2>2
<1>7. ASSUME NEW to \in {"recording", "waiting"}, launch' = [launch EXCEPT ![l] = to],
             launch[l] \in {"spawned", "recording"},
             NEW d \in PidFile, files' = [files EXCEPT ![l].daemonPid = d],
             d \in Pids => Holds(Daemon(l), d), to = "waiting" => d \in Pids
      PROVE  CellInv'
  <2>1. /\ files' \in [Launches -> Directory]
        /\ \A m \in Launches : /\ files'[m].daemonPid = IF m = l THEN d ELSE files[m].daemonPid
                               /\ files'[m].childPid = files[m].childPid
                               /\ SocketsPresent(m) => SocketsPresent(m)'
    BY <1>a, <1>7, DaemonPidWritten
  <2>2. \A m \in Launches : launch'[m] = IF m = l THEN to ELSE launch[m]
    BY <1>t, <1>7
  <2>3. Recorded'
    BY <1>a, <1>7, <2>1, <2>2 DEF Recorded
  <2>4. FilesTrue'
    BY <1>a, <1>u, <1>7, <2>1 DEF FilesTrue, Holds, Listed
  <2>5. to \in LaunchStages
    BY DEF LaunchStages
  <2> QED BY <1>1, <1>7, <2>1, <2>3, <2>4, <2>5
<1>8. CASE CreateDaemonPid(l)
  BY <1>7, <1>8, NoPidFile DEF CreateDaemonPid, LaunchMoves
<1>9. CASE WriteDaemonPid(l)
  <2>1. /\ launch[l] = "recording" /\ launch' = [launch EXCEPT ![l] = "waiting"]
        /\ files' = [files EXCEPT ![l].daemonPid = process[Daemon(l)].pid]
    BY <1>9 DEF WriteDaemonPid, LaunchMoves
  <2>2. Listed(Daemon(l)) /\ process[Daemon(l)] \in Process /\ process[Daemon(l)].pid # NoPid
    BY <1>a, <2>1, ProcessesDiffer DEF Started, Named, TypeOK
  <2>3. process[Daemon(l)].pid \in Pids /\ process[Daemon(l)].pid \in PidFile
    BY <2>2 DEF Process, PidFile
  <2>4. PICK d \in PidFile : d = process[Daemon(l)].pid
    BY <2>3
  <2>5. Holds(Daemon(l), d) /\ d \in Pids
    BY <2>2, <2>3, <2>4 DEF Holds, Listed
  <2>6. files' = [files EXCEPT ![l].daemonPid = d]
    BY <2>1, <2>4
  <2> QED BY <1>7, <2>1, <2>5, <2>6
<1> QED BY <1>3, <1>4, <1>5, <1>6, <1>8, <1>9

\* A daemon moves on without the kernel.
LEMMA DaemonMovesOn ==
    ASSUME CellInv, NEW l \in Launches,
           BindControl(l) \/ BindData(l) \/ CreateChildPid(l) \/ WriteChildPid(l)
    PROVE  CellInv'
<1>a. TypeOK /\ Named /\ FilesTrue /\ Started /\ Recorded /\ ClosersTrue
  BY DEF CellInv
<1>u. UNCHANGED <<launch, process, closer>>
  BY DEF BindControl, BindData, CreateChildPid, WriteChildPid
<1>p. /\ process' \in [Processes -> Process] /\ Named' /\ Faithful
  BY <1>a, <1>u, ProcessKept, AgedFaithful
<1>c. ClosersTrue'
  BY <1>a, <1>u, <1>p, ClosersKept
<1>1. PICK to \in DaemonStages :
         /\ daemon' = [daemon EXCEPT ![l] = to]
         /\ \/ to \in {"control", "bound"} /\ daemon[l] \in {"loaded", "control"}
            \/ to \in {"recording", "serving"} /\ daemon[l] \in {"started", "recording"}
  BY DEF BindControl, BindData, CreateChildPid, WriteChildPid, DaemonMoves, DaemonStages
<1>2. daemon' \in [Launches -> DaemonStages] /\ \A m \in Launches : daemon'[m] = IF m = l THEN to ELSE daemon[m]
  BY <1>a, <1>1 DEF TypeOK
<1>3. Started'
  BY <1>a, <1>u, <1>1, <1>2 DEF Started, Listed
<1>4. ASSUME files' \in [Launches -> Directory], FilesTrue', Recorded' PROVE CellInv'
  <2>1. TypeOK'
    BY <1>a, <1>u, <1>p, <1>2, <1>4 DEF TypeOK
  <2> QED BY <1>p, <1>c, <1>3, <1>4, <2>1 DEF CellInv
<1>5. CASE BindControl(l) \/ BindData(l)
  <2>1. /\ files' \in [Launches -> Directory]
        /\ \A m \in Launches : /\ files'[m].daemonPid = files[m].daemonPid
                               /\ files'[m].childPid = files[m].childPid
                               /\ SocketsPresent(m) => SocketsPresent(m)'
    BY <1>a, <1>5, SocketBound DEF BindControl, BindData
  <2>2. FilesTrue'
    BY <1>a, <1>u, <2>1 DEF FilesTrue, Holds, Listed
  <2>3. Recorded'
    BY <1>a, <1>u, <2>1 DEF Recorded
  <2> QED BY <1>4, <2>1, <2>2, <2>3
<1>6. ASSUME NEW d \in PidFile, files' = [files EXCEPT ![l].childPid = d],
             d \in Pids => Holds(Child(l), d)
      PROVE  CellInv'
  <2>1. /\ files' \in [Launches -> Directory]
        /\ \A m \in Launches : /\ files'[m].childPid = IF m = l THEN d ELSE files[m].childPid
                               /\ files'[m].daemonPid = files[m].daemonPid
                               /\ SocketsPresent(m) => SocketsPresent(m)'
    BY <1>a, <1>6, ChildPidWritten
  <2>2. FilesTrue'
    BY <1>a, <1>u, <1>6, <2>1 DEF FilesTrue, Holds, Listed
  <2>3. Recorded'
    BY <1>a, <1>u, <2>1 DEF Recorded
  <2> QED BY <1>4, <2>1, <2>2, <2>3
<1>7. CASE CreateChildPid(l)
  BY <1>6, <1>7, NoPidFile DEF CreateChildPid
<1>8. CASE WriteChildPid(l)
  <2>1. daemon[l] = "recording" /\ files' = [files EXCEPT ![l].childPid = process[Child(l)].pid]
    BY <1>8 DEF WriteChildPid, DaemonMoves
  <2>2. process[Child(l)].state # "none" /\ process[Child(l)] \in Process
    BY <1>a, <2>1, ProcessesDiffer DEF Started, TypeOK
  <2>3. process[Child(l)].pid \in PidFile
    BY <2>2, NoPidFile DEF Process, PidFile
  <2>4. PICK d \in PidFile : d = process[Child(l)].pid
    BY <2>3
  <2>5. Holds(Child(l), d)
    BY <2>2, <2>4 DEF Holds
  <2>6. files' = [files EXCEPT ![l].childPid = d]
    BY <2>1, <2>4
  <2> QED BY <1>6, <2>5, <2>6
<1> QED BY <1>5, <1>7, <1>8

\* The kernel ends or collects a process, and nobody else moves.
LEMMA KernelSteps ==
    ASSUME CellInv,
           \/ \E l \in Launches : DaemonFails(l) \/ ChildExits(l)
           \/ \E i \in Processes : SignalArrives(i) \/ Reap(i)
    PROVE  CellInv'
<1>a. TypeOK /\ Named /\ FilesTrue /\ Started /\ Recorded /\ ClosersTrue
  BY DEF CellInv
<1>u. UNCHANGED <<launch, files, daemon, closer>>
  BY DEF DaemonFails, ChildExits, SignalArrives, Reap
<1>1. \E i \in Processes : (Running(i) /\ Exit(i)) \/ Reap(i)
  BY ProcessesDiffer DEF DaemonFails, ChildExits, SignalArrives
<1>2. PICK i \in Processes : (Running(i) /\ Exit(i)) \/ Reap(i)
  BY <1>1
<1>3. /\ process' \in [Processes -> Process] /\ Named'
      /\ \A j \in Processes : Aged(j)
  BY <1>a, <1>2, ExitAges, ReapAges
<1>4. ASSUME NEW l \in Launches, launch[l] \in {"spawned", "recording", "waiting", "ready"}
      PROVE  Listed(Daemon(l))'
  <2>1. Listed(Daemon(l)) /\ Daemon(l) \in Processes
    BY <1>a, <1>4, ProcessesDiffer DEF Started
  <2>2. CASE Running(i) /\ Exit(i)
    BY <1>a, <2>1, <2>2, ExitAges
  <2>3. CASE Reap(i)
    <3>1. i # Daemon(l)
      <4> SUFFICES ASSUME i = Daemon(l) PROVE FALSE
        OBVIOUS
      <4>1. Collected(Daemon(l))
        BY <2>3 DEF Reap
      <4>2. Daemon(l)[1] = "daemon" /\ Daemon(l)[2] = l
        BY DEF Daemon
      <4>3. launch[l] \in {"launched", "failed"}
        <5> DEFINE d == Daemon(l)
        <5>1. d[1] = "daemon" /\ d[2] = l /\ Collected(d)
          BY <4>1, <4>2
        <5> HIDE DEF d
        <5>2. launch[d[2]] \in {"launched", "failed"}
          BY <5>1 DEF Collected
        <5> QED BY <5>1, <5>2
      <4> QED BY <1>4, <4>3
    <3> QED BY <1>a, <2>1, <2>3, <3>1, ReapAges
  <2> QED BY <1>2, <2>2, <2>3
<1>5. Faithful
  BY <1>a, <1>3, AgedFaithful
<1>6. FilesTrue' /\ ClosersTrue'
  BY <1>a, <1>u, <1>5, FilesKept, ClosersKept
<1>7. Started'
  <2>1. \A l \in Launches : Aged(Daemon(l)) /\ Aged(Child(l))
    BY <1>3, ProcessesDiffer
  <2> QED BY <1>a, <1>u, <1>4, <2>1 DEF Started, Aged
<1>8. Recorded'
  BY <1>a, <1>u DEF Recorded, SocketsPresent
<1>9. TypeOK'
  BY <1>a, <1>u, <1>3 DEF TypeOK
<1> QED BY <1>3, <1>6, <1>7, <1>8, <1>9 DEF CellInv

\* A process that was never started is started.
LEMMA SpawnSteps ==
    ASSUME CellInv,
           \/ \E l \in Launches : SpawnDaemon(l) \/ SpawnChild(l)
           \/ \E s \in Strangers : StrangerStarts(s)
    PROVE  CellInv'
<1>a. TypeOK /\ Named /\ FilesTrue /\ Started /\ Recorded /\ ClosersTrue
  BY DEF CellInv
<1>u. UNCHANGED <<files, closer>>
  BY DEF SpawnDaemon, SpawnChild, StrangerStarts
<1>1. ASSUME NEW i \in Processes, NEW p \in FreePids, Spawned(i, p), process[i].state = "none",
             launch' \in [Launches -> LaunchStages], daemon' \in [Launches -> DaemonStages],
             Started', Recorded'
      PROVE  CellInv'
  <2>1. /\ process' \in [Processes -> Process] /\ Named'
        /\ \A j \in Processes \ {i} : Aged(j)
    BY <1>a, <1>1, SpawnAges
  <2>2. Faithful
    BY <1>a, <1>1, <2>1, AgedFaithful
  <2>3. FilesTrue' /\ ClosersTrue'
    BY <1>a, <1>u, <2>2, FilesKept, ClosersKept
  <2>4. TypeOK'
    BY <1>a, <1>u, <1>1, <2>1 DEF TypeOK
  <2> QED BY <1>1, <2>1, <2>3, <2>4 DEF CellInv
<1>2. ASSUME NEW l \in Launches, SpawnDaemon(l) PROVE CellInv'
  <2>1. /\ launch[l] = "configured" /\ launch' = [launch EXCEPT ![l] = "spawned"]
        /\ daemon' = [daemon EXCEPT ![l] = "loaded"]
    BY <1>2 DEF SpawnDaemon, LaunchMoves
  <2>2. PICK p \in FreePids : Spawned(Daemon(l), p)
    BY <1>2 DEF SpawnDaemon
  <2>3. Daemon(l) \in Processes /\ process[Daemon(l)].state = "none"
    BY <1>a, <2>1, ProcessesDiffer DEF Started
  <2>4. /\ \A j \in Processes \ {Daemon(l)} : Aged(j) /\ (Listed(j) => Listed(j)')
        /\ Listed(Daemon(l))' /\ process'[Daemon(l)].state = "live"
    BY <1>a, <2>2, <2>3, SpawnAges
  <2>5. /\ launch' \in [Launches -> LaunchStages] /\ daemon' \in [Launches -> DaemonStages]
        /\ \A m \in Launches : /\ launch'[m] = IF m = l THEN "spawned" ELSE launch[m]
                               /\ daemon'[m] = IF m = l THEN "loaded" ELSE daemon[m]
    BY <1>a, <2>1 DEF TypeOK, LaunchStages, DaemonStages
  <2>d. daemon[l] = "none"
    BY <1>a, <2>1 DEF Started
  <2>6. Started'
    <3>1. \A m \in Launches : /\ Aged(Child(m))
                              /\ m # l => Aged(Daemon(m)) /\ (Listed(Daemon(m)) => Listed(Daemon(m))')
      BY <2>4, ProcessesDiffer
    <3> QED BY <1>a, <2>1, <2>4, <2>5, <2>d, <3>1 DEF Started, Aged
  <2>7. Recorded'
    BY <1>a, <1>u, <2>5 DEF Recorded, SocketsPresent
  <2> QED BY <1>1, <2>2, <2>3, <2>5, <2>6, <2>7
<1>3. ASSUME NEW l \in Launches, SpawnChild(l) PROVE CellInv'
  <2>1. /\ daemon[l] = "bound" /\ daemon' = [daemon EXCEPT ![l] = "started"] /\ launch' = launch
    BY <1>3 DEF SpawnChild, DaemonMoves
  <2>2. PICK p \in FreePids : Spawned(Child(l), p)
    BY <1>3 DEF SpawnChild
  <2>3. Child(l) \in Processes /\ process[Child(l)].state = "none"
    BY <1>a, <2>1, ProcessesDiffer DEF Started
  <2>4. /\ \A j \in Processes \ {Child(l)} : Aged(j) /\ (Listed(j) => Listed(j)')
        /\ process'[Child(l)].state = "live"
    BY <1>a, <2>2, <2>3, SpawnAges
  <2>5. /\ daemon' \in [Launches -> DaemonStages]
        /\ \A m \in Launches : daemon'[m] = IF m = l THEN "started" ELSE daemon[m]
    BY <1>a, <2>1 DEF TypeOK, DaemonStages
  <2>6. Started'
    <3>1. \A m \in Launches : /\ Aged(Daemon(m)) /\ (Listed(Daemon(m)) => Listed(Daemon(m))')
                              /\ m # l => Aged(Child(m))
      BY <2>4, ProcessesDiffer
    <3> QED BY <1>a, <2>1, <2>4, <2>5, <3>1 DEF Started, Aged
  <2>7. Recorded' /\ launch' \in [Launches -> LaunchStages]
    BY <1>a, <1>u, <2>1 DEF Recorded, SocketsPresent, TypeOK
  <2> QED BY <1>1, <2>2, <2>3, <2>5, <2>6, <2>7
<1>4. ASSUME NEW s \in Strangers, StrangerStarts(s) PROVE CellInv'
  <2>1. process[Stranger(s)].state = "none" /\ UNCHANGED <<launch, daemon>>
    BY <1>4 DEF StrangerStarts
  <2>2. PICK p \in FreePids : Spawned(Stranger(s), p)
    BY <1>4 DEF StrangerStarts
  <2>3. Stranger(s) \in Processes
    BY ProcessesDiffer
  <2>4. \A j \in Processes \ {Stranger(s)} : Aged(j) /\ (Listed(j) => Listed(j)')
    BY <1>a, <2>2, <2>3, SpawnAges
  <2>5. Started'
    <3>1. \A m \in Launches : Aged(Child(m)) /\ Aged(Daemon(m)) /\ (Listed(Daemon(m)) => Listed(Daemon(m))')
      BY <2>4, ProcessesDiffer
    <3> QED BY <1>a, <2>1, <3>1 DEF Started, Aged
  <2>6. Recorded' /\ launch' \in [Launches -> LaunchStages] /\ daemon' \in [Launches -> DaemonStages]
    BY <1>a, <1>u, <2>1 DEF Recorded, SocketsPresent, TypeOK
  <2> QED BY <1>1, <2>1, <2>2, <2>3, <2>5, <2>6
<1> QED BY <1>2, <1>3, <1>4

\* Whatever changes only processes, and starts none, keeps the launches' part.
LEMMA LaunchesKept ==
    ASSUME CellInv, UNCHANGED <<launch, files, daemon>>, process' \in [Processes -> Process], Named',
           \A i \in Processes : Aged(i) /\ (Listed(i) => Listed(i)'),
           closer' \in [Closers -> Closer], ClosersTrue'
    PROVE  CellInv'
<1>a. TypeOK /\ Named /\ FilesTrue /\ Started /\ Recorded /\ ClosersTrue
  BY DEF CellInv
<1>1. Faithful
  BY <1>a, AgedFaithful
<1>2. FilesTrue'
  BY <1>a, <1>1, FilesKept
<1>3. Started'
  <2>1. \A l \in Launches : /\ Aged(Daemon(l)) /\ (Listed(Daemon(l)) => Listed(Daemon(l))')
                            /\ Aged(Child(l))
    BY ProcessesDiffer
  <2> QED BY <1>a, <2>1 DEF Started, Aged
<1>4. Recorded' /\ TypeOK'
  BY <1>a DEF Recorded, SocketsPresent, TypeOK
<1> QED BY <1>2, <1>3, <1>4 DEF CellInv

\* A CloseCell command that reads a file, looks at a process or reports.
LEMMA CloserLooks ==
    ASSUME CellInv, NEW k \in Closers, UNCHANGED <<launch, files, daemon, process>>,
           NEW c \in Closer, closer' = [closer EXCEPT ![k] = c], CloserTrue(c)'
    PROVE  CellInv'
<1>1. TypeOK /\ Named /\ ClosersTrue
  BY DEF CellInv
<1>2. /\ process' \in [Processes -> Process] /\ Named'
      /\ \A i \in Processes : Aged(i) /\ (Listed(i) => Listed(i)')
  BY <1>1, ProcessKept
<1>3. Faithful
  BY <1>1, <1>2, AgedFaithful
<1>4. closer' \in [Closers -> Closer] /\ ClosersTrue'
  BY <1>1, <1>3, CloserMoved
<1> QED BY <1>2, <1>4, LaunchesKept

\* A command picks a cell and has found nothing yet.
LEMMA LocateSteps ==
    ASSUME CellInv, NEW k \in Closers, NEW l \in Launches, Locate(k, l)
    PROVE  CellInv'
<1> DEFINE c == [IdleCloser EXCEPT !.stage = "located", !.cell = l]
<1>1. /\ c \in Closer /\ c.stage = "located" /\ c.cell = l /\ c.daemonPid = NoPid /\ c.childPid = NoPid
      /\ c.childTerminated = FALSE /\ c.terminated = FALSE
  BY DEF IdleCloser, Closer, CloserStages
<1>2. closer' = [closer EXCEPT ![k] = c] /\ UNCHANGED <<launch, files, daemon, process>>
  BY DEF Locate, CloserMoves
<1> HIDE DEF c
<1>3. PICK q \in Closer : q = c /\ closer' = [closer EXCEPT ![k] = q]
  BY <1>1, <1>2
<1>4. CloserTrue(q)'
  BY <1>1, <1>3 DEF CloserTrue
<1> QED BY <1>2, <1>3, <1>4, CloserLooks

\* The record of a failed command.
LEMMA FailedCloser ==
    ASSUME TypeOK, ClosersTrue, NEW k \in Closers, closer[k].stage # "idle"
    PROVE  /\ Failed(k) \in Closer /\ Failed(k).stage = "failed" /\ Failed(k).cell = closer[k].cell
           /\ Failed(k).daemonPid = NoPid /\ Failed(k).childPid = NoPid
           /\ Failed(k).childTerminated = FALSE /\ Failed(k).terminated = FALSE
<1>1. closer[k] \in Closer /\ closer[k].cell \in Launches
  BY DEF TypeOK, ClosersTrue, CloserTrue
<1> DEFINE cell == closer[k].cell
           c == [IdleCloser EXCEPT !.stage = "failed", !.cell = cell]
<1>2. cell \in Launches
  BY <1>1
<1> HIDE DEF cell
<1>3. /\ c \in Closer /\ c.stage = "failed" /\ c.cell = cell /\ c.daemonPid = NoPid /\ c.childPid = NoPid
      /\ c.childTerminated = FALSE /\ c.terminated = FALSE
  BY <1>2 DEF IdleCloser, Closer, CloserStages
<1>4. Failed(k) = c
  BY DEF Failed, cell
<1> QED BY <1>3, <1>4 DEF cell

\* A pid that is read is the pid of the cell's own daemon or child.
LEMMA ReadSteps ==
    ASSUME CellInv, NEW k \in Closers, ReadDaemonPid(k) \/ ReadChildPid(k)
    PROVE  CellInv'
<1>a. TypeOK /\ FilesTrue /\ ClosersTrue
  BY DEF CellInv
<1>u. UNCHANGED <<launch, files, daemon, process>>
  BY DEF ReadDaemonPid, ReadChildPid
<1>1. PICK o \in Closer : o = closer[k] /\ CloserTrue(o)
  BY <1>a DEF TypeOK, ClosersTrue
<1>2. o.stage \in {"located", "named"} /\ o.cell \in Launches
  BY <1>1 DEF ReadDaemonPid, ReadChildPid, CloserTrue, CloserMoves
<1>3. PICK f : f = Failed(k) /\ f \in Closer /\ CloserTrue(f)'
  <2>1. closer[k].stage # "idle"
    BY <1>1, <1>2
  <2>2. /\ Failed(k) \in Closer /\ Failed(k).stage = "failed" /\ Failed(k).cell = o.cell
        /\ Failed(k).daemonPid = NoPid /\ Failed(k).childPid = NoPid
        /\ Failed(k).childTerminated = FALSE /\ Failed(k).terminated = FALSE
    BY <1>a, <1>1, <2>1, FailedCloser
  <2>3. PICK f : f = Failed(k)
    OBVIOUS
  <2>4. CloserTrue(f)'
    BY <1>2, <2>2, <2>3 DEF CloserTrue
  <2> QED BY <2>2, <2>3, <2>4
<1>4. ASSUME closer' = [closer EXCEPT ![k] = f] PROVE CellInv'
  BY <1>u, <1>3, <1>4, CloserLooks
<1>5. PICK d : d = files[o.cell].daemonPid
  OBVIOUS
<1>6. PICK h : h = files[o.cell].childPid
  OBVIOUS
<1>7. /\ d \in PidFile /\ (d \in Pids => Holds(Daemon(o.cell), d))
      /\ h \in PidFile /\ (h \in Pids => Holds(Child(o.cell), h))
  BY <1>a, <1>2, <1>5, <1>6 DEF FilesTrue, TypeOK, Directory
<1>8. ASSUME NEW p, NEW i PROVE Holds(i, p)' <=> Holds(i, p)
  BY <1>u DEF Holds, Listed
<1>9. \A i : Dead(i)' <=> Dead(i)
  BY <1>u DEF Dead
<1>10. CASE ReadDaemonPid(k)
  <2> DEFINE c == [o EXCEPT !.stage = "named", !.daemonPid = d]
  <2>1. CASE d \in Pids
    <3>1. o.stage = "located" /\ closer' = [closer EXCEPT ![k] = c]
      BY <1>1, <1>5, <1>10, <2>1 DEF ReadDaemonPid, CloserMoves
    <3>2. /\ c \in Closer /\ c.stage = "named" /\ c.cell = o.cell /\ c.daemonPid = d
          /\ c.childPid = o.childPid
          /\ c.childTerminated = o.childTerminated /\ c.terminated = o.terminated
      BY <2>1 DEF Closer, CloserStages
    <3> HIDE DEF c
    <3>3. PICK q \in Closer : q = c
      BY <3>2
    <3>4. d # NoPid
      BY <2>1, NoPidFile
    <3>5. CloserTrue(q)'
      BY <1>1, <1>2, <1>7, <1>8, <1>9, <2>1, <3>2, <3>3, <3>4 DEF CloserTrue
    <3> QED BY <1>u, <3>1, <3>3, <3>5, CloserLooks
  <2>2. CASE d \notin Pids
    BY <1>1, <1>3, <1>4, <1>5, <1>10, <2>2 DEF ReadDaemonPid, CloserMoves
  <2> QED BY <2>1, <2>2
<1>11. CASE ReadChildPid(k)
  <2> DEFINE c == [o EXCEPT !.stage = "checking", !.childPid = h]
             n == [o EXCEPT !.stage = "checking", !.target = "daemon"]
  <2>1. /\ o.stage = "named"
        /\ h \in Pids => closer' = [closer EXCEPT ![k] = c]
        /\ h = Absent => closer' = [closer EXCEPT ![k] = n]
        /\ h = Empty => closer' = [closer EXCEPT ![k] = f]
    <3>1. CASE h \in Pids
      <4>1. h # Absent /\ h # Empty
        BY <3>1, NoPidFile
      <4> QED BY <1>1, <1>6, <1>11, <3>1, <4>1 DEF ReadChildPid, CloserMoves
    <3>2. CASE h = Absent
      <4>1. h \notin Pids /\ h # Empty
        BY <3>2, NoPidFile DEF Absent, Empty
      <4> QED BY <1>1, <1>6, <1>11, <3>2, <4>1 DEF ReadChildPid, CloserMoves
    <3>3. CASE h = Empty
      <4>1. h \notin Pids /\ h # Absent
        BY <3>3, NoPidFile DEF Absent, Empty
      <4> QED BY <1>1, <1>3, <1>6, <1>11, <3>3, <4>1 DEF ReadChildPid, CloserMoves
    <3> QED BY <1>7, <3>1, <3>2, <3>3 DEF PidFile
  <2>2. CASE h \in Pids
    <3>1. /\ c \in Closer /\ c.stage = "checking" /\ c.cell = o.cell /\ c.daemonPid = o.daemonPid
          /\ c.childPid = h
          /\ c.childTerminated = o.childTerminated /\ c.terminated = o.terminated
      BY <2>2 DEF Closer, CloserStages
    <3>2. closer' = [closer EXCEPT ![k] = c]
      BY <2>1, <2>2
    <3> HIDE DEF c
    <3>3. PICK q \in Closer : q = c
      BY <3>1
    <3>4. CloserTrue(q)'
      BY <1>1, <1>2, <1>7, <1>8, <1>9, <2>1, <2>2, <3>1, <3>3 DEF CloserTrue
    <3> QED BY <1>u, <3>2, <3>3, <3>4, CloserLooks
  <2>3. CASE h = Absent
    <3>1. /\ n \in Closer /\ n.stage = "checking" /\ n.cell = o.cell /\ n.daemonPid = o.daemonPid
          /\ n.childPid = o.childPid
          /\ n.childTerminated = o.childTerminated /\ n.terminated = o.terminated
      BY DEF Closer, CloserStages
    <3>2. closer' = [closer EXCEPT ![k] = n]
      BY <2>1, <2>3
    <3> HIDE DEF n
    <3>3. PICK q \in Closer : q = n
      BY <3>1
    <3>4. CloserTrue(q)'
      BY <1>1, <1>2, <1>8, <1>9, <2>1, <3>1, <3>3 DEF CloserTrue
    <3> QED BY <1>u, <3>2, <3>3, <3>4, CloserLooks
  <2>4. CASE h = Empty
    BY <1>4, <2>1, <2>4
  <2> QED BY <1>7, <2>2, <2>3, <2>4 DEF PidFile
<1> QED BY <1>10, <1>11

\* A command sends one of its four signals.
Sends(k) == SendTerminateToGroup(k) \/ SendTerminate(k) \/ SendKillToGroup(k) \/ SendKill(k)

\* A signal goes to who has the pid, or to nobody.
LEMMA SendsSignal ==
    ASSUME NEW k, Sends(k)
    PROVE  process' = process \/ (\E s \in {"TERM", "KILL"} : Signal(Target(k), s))
<1>1. ASSUME NEW s, SignalGroup(Target(k), s) PROVE process' = process \/ Signal(Target(k), s)
  BY <1>1 DEF SignalGroup
<1> QED BY <1>1 DEF Sends, SendTerminateToGroup, SendTerminate, SendKillToGroup, SendKill

\* The terminations: checks, signals and waits, for the child and the daemon.
LEMMA TerminateSteps ==
    ASSUME CellInv, NEW k \in Closers,
           TerminateChecks(k) \/ Sends(k) \/ WaitSeesExit(k) \/ WaitExpires(k) \/ WaitAfterKill(k)
    PROVE  CellInv'
<1>a. TypeOK /\ Named /\ ClosersTrue
  BY DEF CellInv
<1>u. UNCHANGED <<launch, files, daemon>>
  BY DEF TerminateChecks, Sends, SendTerminateToGroup, SendTerminate, WaitSeesExit, WaitExpires,
         SendKillToGroup, SendKill, WaitAfterKill
<1>1. PICK o \in Closer : o = closer[k] /\ CloserTrue(o)
  BY <1>a DEF TypeOK, ClosersTrue
<1>2. o.stage \in {"checking", "terminating", "terminatingGroup", "waiting", "killing", "killingGroup", "killed"}
  BY <1>1 DEF TerminateChecks, Sends, SendTerminateToGroup, SendTerminate, WaitSeesExit, WaitExpires,
              SendKillToGroup, SendKill, WaitAfterKill, CloserMoves
<1>3. /\ process' \in [Processes -> Process] /\ Named'
      /\ \A i \in Processes : Aged(i) /\ (Listed(i) => Listed(i)')
  <2>1. process' = process \/ (\E s \in {"TERM", "KILL"} : Signal(Target(k), s))
    BY SendsSignal DEF TerminateChecks, WaitSeesExit, WaitExpires, WaitAfterKill
  <2>2. ASSUME NEW s \in {"TERM", "KILL"}, Signal(Target(k), s)
        PROVE  /\ process' \in [Processes -> Process] /\ Named'
               /\ \A i \in Processes : Aged(i) /\ (Listed(i) => Listed(i)')
    <3>1. PICK p : p = Target(k)
      OBVIOUS
    <3> QED BY <1>a, <2>2, <3>1, SignalAges
  <2> QED BY <1>a, <2>1, <2>2, ProcessKept
<1>4. Faithful
  BY <1>a, <1>3, AgedFaithful
<1>5. ASSUME NEW q \in Closer
      PROVE  Finished(q) \in Closer /\ (q.stage \notin {"idle", "located", "failed"} => SameCell(q, Finished(q)))
  <2>1. \/ Finished(q) = [q EXCEPT !.stage = "checking", !.target = "daemon"]
        \/ Finished(q) = [q EXCEPT !.stage = "reporting"]
    BY DEF Finished
  <2> QED BY <2>1 DEF Closer, CloserStages, SameCell
<1>6. \E c \in Closer : closer' = [closer EXCEPT ![k] = c] /\ SameCell(o, c)
  <2>1. CASE TerminateChecks(k)
    <3>1. PICK b \in BOOLEAN : b = Live(Target(k))
      <4>1. Live(Target(k)) \in BOOLEAN
        BY DEF Live
      <4> QED BY <4>1
    <3>2. PICK s : s = IF o.target = "child" THEN [o EXCEPT !.childWasLive = b]
                                             ELSE [o EXCEPT !.daemonWasLive = b]
      OBVIOUS
    <3>3. /\ s \in Closer /\ s.stage = o.stage /\ s.cell = o.cell /\ s.daemonPid = o.daemonPid
          /\ s.childPid = o.childPid
          /\ s.childTerminated = o.childTerminated /\ s.terminated = o.terminated
      BY <3>2 DEF Closer
    <3> DEFINE t == [s EXCEPT !.stage = "terminating"]
    <3>4. closer' = [closer EXCEPT ![k] = t] \/ closer' = [closer EXCEPT ![k] = Finished(s)]
      BY <1>1, <2>1, <3>1, <3>2 DEF TerminateChecks, CloserMoves
    <3>5. t \in Closer /\ SameCell(s, t)
      BY <1>2, <3>3 DEF Closer, CloserStages, SameCell
    <3>6. Finished(s) \in Closer /\ SameCell(s, Finished(s))
      BY <1>2, <1>5, <3>3
    <3> HIDE DEF t
    <3>7. \A c : SameCell(s, c) => SameCell(o, c)
      BY <3>3 DEF SameCell
    <3> QED BY <3>4, <3>5, <3>6, <3>7
  <2>2. CASE Sends(k) \/ WaitExpires(k)
    <3>1. PICK stage \in {"terminatingGroup", "waiting", "killing", "killingGroup", "killed"} :
             closer' = [closer EXCEPT ![k] = [o EXCEPT !.stage = stage]]
      BY <1>1, <2>2 DEF Sends, SendTerminateToGroup, SendTerminate, WaitExpires, SendKillToGroup, SendKill,
                        CloserMoves
    <3> DEFINE c == [o EXCEPT !.stage = stage]
    <3>2. c \in Closer /\ SameCell(o, c)
      BY <1>2 DEF Closer, CloserStages, SameCell
    <3> QED BY <3>1, <3>2
  <2>3. CASE WaitSeesExit(k) \/ WaitAfterKill(k)
    <3>1. closer' = [closer EXCEPT ![k] = Finished(o)]
      BY <1>1, <2>3 DEF WaitSeesExit, WaitAfterKill, CloserMoves
    <3> QED BY <1>2, <1>5, <3>1
  <2> QED BY <2>1, <2>2, <2>3
<1>7. PICK c \in Closer : closer' = [closer EXCEPT ![k] = c] /\ SameCell(o, c)
  BY <1>6
<1>8. CloserTrue(c)'
  BY <1>1, <1>4, <1>7, CloserGoesOn
<1>9. closer' \in [Closers -> Closer] /\ ClosersTrue'
  BY <1>a, <1>4, <1>7, <1>8, CloserMoved
<1> QED BY <1>u, <1>3, <1>9, LaunchesKept

\* The reply: a pid the kernel no longer runs under was the process's own, so
\* the process is dead.
LEMMA ReportSteps ==
    ASSUME CellInv, NEW k \in Closers, ReportChild(k) \/ ReportDaemon(k) \/ ReportFails(k)
    PROVE  CellInv'
<1>a. TypeOK /\ Named /\ ClosersTrue
  BY DEF CellInv
<1>u. UNCHANGED <<launch, files, daemon, process>>
  BY DEF ReportChild, ReportDaemon, ReportFails
<1>1. PICK o \in Closer : o = closer[k] /\ CloserTrue(o)
  BY <1>a DEF TypeOK, ClosersTrue
<1>2. o.stage = "reporting" /\ o.cell \in Launches /\ o.daemonPid # NoPid
  BY <1>1 DEF ReportChild, ReportDaemon, ReportFails, CloserTrue, CloserMoves
<1>3. ASSUME NEW p, NEW i PROVE Holds(i, p)' <=> Holds(i, p)
  BY <1>u DEF Holds, Listed
<1>4. \A i : Dead(i)' <=> Dead(i)
  BY <1>u DEF Dead
<1>5. ASSUME NEW i \in Processes, NEW p, Holds(i, p), ~Live(p) PROVE Dead(i)
  <2>1. process[i].state \in {"none", "live", "zombie", "gone"}
    BY <1>a DEF TypeOK, Process
  <2> QED BY <1>5, <2>1 DEF Holds, Live, Listed, Running, Dead
<1>6. Daemon(o.cell) \in Processes /\ Child(o.cell) \in Processes
  BY <1>2, ProcessesDiffer
<1>7. CASE ReportChild(k)
  <2>1. PICK b \in BOOLEAN : b = (o.childPid # NoPid /\ o.childWasLive /\ ~Live(o.childPid))
    OBVIOUS
  <2> DEFINE c == [o EXCEPT !.target = "child", !.childTerminated = b]
  <2>2. closer' = [closer EXCEPT ![k] = c]
    BY <1>1, <1>7, <2>1 DEF ReportChild, CloserMoves
  <2>3. /\ c \in Closer /\ c.stage = o.stage /\ c.cell = o.cell /\ c.daemonPid = o.daemonPid
        /\ c.childPid = o.childPid /\ c.childTerminated = b /\ c.terminated = o.terminated
    BY <2>1 DEF Closer
  <2> HIDE DEF c
  <2>4. PICK q \in Closer : q = c
    BY <2>3
  <2>5. b => Dead(Child(o.cell))
    <3>1. ASSUME b PROVE Dead(Child(o.cell))
      <4>1. o.childPid # NoPid /\ ~Live(o.childPid)
        BY <2>1, <3>1
      <4>2. Holds(Child(o.cell), o.childPid)
        BY <1>1, <4>1 DEF CloserTrue
      <4> QED BY <1>5, <1>6, <4>1, <4>2
    <3> QED BY <3>1
  <2>6. CloserTrue(q)'
    BY <1>1, <1>2, <1>3, <1>4, <2>3, <2>4, <2>5 DEF CloserTrue
  <2> QED BY <1>u, <2>2, <2>4, <2>6, CloserLooks
<1>8. CASE ReportDaemon(k)
  <2>1. PICK b \in BOOLEAN : b = (o.childTerminated /\ o.daemonWasLive /\ ~Live(o.daemonPid))
    OBVIOUS
  <2> DEFINE c == [o EXCEPT !.stage = "closed", !.terminated = b]
  <2>2. closer' = [closer EXCEPT ![k] = c]
    BY <1>1, <1>8, <2>1 DEF ReportDaemon, CloserMoves
  <2>3. /\ c \in Closer /\ c.stage = "closed" /\ c.cell = o.cell /\ c.daemonPid = o.daemonPid
        /\ c.childPid = o.childPid /\ c.childTerminated = o.childTerminated /\ c.terminated = b
    BY <2>1 DEF Closer, CloserStages
  <2> HIDE DEF c
  <2>4. PICK q \in Closer : q = c
    BY <2>3
  <2>5. b => Dead(Daemon(o.cell)) /\ Dead(Child(o.cell))
    <3>1. ASSUME b PROVE Dead(Daemon(o.cell)) /\ Dead(Child(o.cell))
      <4>1. o.childTerminated /\ ~Live(o.daemonPid)
        BY <2>1, <3>1
      <4>2. Holds(Daemon(o.cell), o.daemonPid) /\ Dead(Child(o.cell))
        BY <1>1, <1>2, <4>1 DEF CloserTrue
      <4> QED BY <1>5, <1>6, <4>1, <4>2
    <3> QED BY <3>1
  <2>6. CloserTrue(q)'
    BY <1>1, <1>2, <1>3, <1>4, <2>3, <2>4, <2>5 DEF CloserTrue
  <2> QED BY <1>u, <2>2, <2>4, <2>6, CloserLooks
<1>9. CASE ReportFails(k)
  <2>1. closer[k].stage # "idle"
    BY <1>1, <1>2
  <2>2. PICK f \in Closer : /\ f = Failed(k) /\ f.stage = "failed" /\ f.cell = closer[k].cell
                            /\ f.daemonPid = NoPid /\ f.childPid = NoPid
                            /\ f.childTerminated = FALSE /\ f.terminated = FALSE
    BY <1>a, <2>1, FailedCloser
  <2>3. closer' = [closer EXCEPT ![k] = f]
    BY <1>9, <2>2 DEF ReportFails, CloserMoves
  <2>4. CloserTrue(f)'
    BY <1>1, <1>2, <2>2 DEF CloserTrue
  <2> QED BY <1>u, <2>3, <2>4, CloserLooks
<1> QED BY <1>7, <1>8, <1>9

\* Every step preserves the invariant.
LEMMA CellSteps == CellInv /\ [Next]_vars => CellInv'
<1> SUFFICES ASSUME CellInv, [Next]_vars PROVE CellInv'
  OBVIOUS
<1>1. CASE UNCHANGED vars
  <2>1. UNCHANGED <<launch, files, daemon, process, closer>>
    BY <1>1 DEF vars
  <2> QED BY <2>1 DEF CellInv, TypeOK, Named, FilesTrue, Started, Recorded, ClosersTrue, CloserTrue,
                      Holds, Listed, Dead, SocketsPresent
<1>2. ASSUME NEW l \in Launches, CreateSession(l) \/ LaunchCell(l) \/ LaunchFails(l) \/ DaemonSteps(l)
      PROVE  CellInv'
  BY <1>2, LaunchSteps, SpawnSteps, DaemonMovesOn, KernelSteps DEF LaunchCell, DaemonSteps
<1>3. ASSUME NEW k \in Closers, CloseCell(k) \/ ReportFails(k) \/ \E l \in Launches : Locate(k, l)
      PROVE  CellInv'
  BY <1>3, LocateSteps, ReadSteps, TerminateSteps, ReportSteps DEF CloseCell, Sends
<1>4. ASSUME NEW i \in Processes, SignalArrives(i) \/ Reap(i) PROVE CellInv'
  BY <1>4, KernelSteps
<1>5. ASSUME NEW s \in Strangers, StrangerStarts(s) PROVE CellInv'
  BY <1>5, SpawnSteps
<1> QED BY <1>1, <1>2, <1>3, <1>4, <1>5 DEF Next

\* No cell yet, and nobody closes one.
LEMMA InitCell == Init => CellInv
<1> SUFFICES ASSUME Init PROVE CellInv
  OBVIOUS
<1>1. /\ launch = [l \in Launches |-> "new"] /\ daemon = [l \in Launches |-> "none"]
      /\ files = [l \in Launches |-> EmptyDirectory]
      /\ process = [i \in Processes |-> NoProcess] /\ closer = [k \in Closers |-> IdleCloser]
  BY DEF Init
<1>2. /\ EmptyDirectory \in Directory /\ EmptyDirectory.daemonPid = Absent /\ EmptyDirectory.childPid = Absent
      /\ NoProcess \in Process /\ NoProcess.state = "none" /\ NoProcess.pid = NoPid
  BY DEF EmptyDirectory, Directory, PidFile, NoProcess, Process
<1>3. /\ IdleCloser \in Closer /\ IdleCloser.stage = "idle"
      /\ IdleCloser.daemonPid = NoPid /\ IdleCloser.childPid = NoPid
      /\ IdleCloser.childTerminated = FALSE /\ IdleCloser.terminated = FALSE
  BY DEF IdleCloser, Closer, CloserStages
<1>4. TypeOK
  BY <1>1, <1>2, <1>3 DEF TypeOK, LaunchStages, DaemonStages
<1>5. Named
  BY <1>1, <1>2 DEF Named, Listed
<1>6. FilesTrue /\ Recorded
  BY <1>1, <1>2, NoPidFile DEF FilesTrue, Recorded
<1>7. Started
  BY <1>1, <1>2, ProcessesDiffer DEF Started
<1>8. ClosersTrue
  BY <1>1, <1>3 DEF ClosersTrue, CloserTrue
<1> QED BY <1>4, <1>5, <1>6, <1>7, <1>8 DEF CellInv

\* The invariant holds throughout.
LEMMA CellInvariant == Spec => []CellInv
BY InitCell, CellSteps, PTL DEF Spec

-----------------------------------------------------------------------------
(* What it is for.                                                         *)

\* Type correctness of the lifecycle commands and their surroundings.
THEOREM LifecycleTypeCorrect == Spec => []TypeOK
<1>1. CellInv => TypeOK
  BY DEF CellInv
<1> QED BY <1>1, CellInvariant, PTL

\* A CloseCell that reports terminated leaves neither daemon nor child, however
\* many commands close at once, whatever exits, fails to record its pid or gets
\* a pid somebody else had.
THEOREM ClosingIsTruthful == Spec => []CloseTruthful
<1>1. CellInv => CloseTruthful
  BY DEF CellInv, ClosersTrue, CloserTrue, CloseTruthful
<1> QED BY <1>1, CellInvariant, PTL

\* A cell reported as launched is found by the selector and closed by its own
\* pid as long as its daemon runs.
THEOREM LaunchedIsSelectable == Spec => []LaunchedSelectable
<1>1. CellInv => LaunchedSelectable
  <2> SUFFICES ASSUME CellInv, NEW l \in Launches, launch[l] = "launched", Running(Daemon(l))
               PROVE  Selectable(l) /\ files[l].daemonPid = process[Daemon(l)].pid
    BY DEF LaunchedSelectable
  <2>1. SocketsPresent(l) /\ files[l].daemonPid \in Pids /\ Daemon(l) \in Processes
    BY ProcessesDiffer DEF CellInv, Recorded
  <2>2. Listed(Daemon(l)) /\ Holds(Daemon(l), files[l].daemonPid)
    BY <2>1 DEF CellInv, FilesTrue, Listed, Running
  <2>3. files[l].daemonPid = process[Daemon(l)].pid
    BY <2>2 DEF Holds
  <2> QED BY <2>1, <2>2, <2>3 DEF Selectable, InProc
<1> QED BY <1>1, CellInvariant, PTL

=============================================================================
