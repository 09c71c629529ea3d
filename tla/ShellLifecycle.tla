--------------------------- MODULE ShellLifecycle ---------------------------
(***************************************************************************)
(* A shell's way into the agent's registry and out of it again, across the *)
(* agent's crashes.  A new shell sources termcast.sh: it makes a named     *)
(* pipe from its pid, leaves a helper behind that registers it through the *)
(* agent's socket, and sends its output through a tee into the pipe.  The  *)
(* agent answers a registration with a session, whose reader task opens    *)
(* the pipe, reads it to its end and then removes pipe and session.  A     *)
(* pipe opens only when it has both ends, so each side may wait for the    *)
(* other.  An agent that starts registers again the pipes it finds.        *)
(* Its tasks share Swift's cooperative pool of threads, of which a reader  *)
(* that waits in open(2) or read(2) keeps one to itself.                   *)
(* Reading a pipe's bytes changes nothing here; ReplayRace is about them.  *)
(* A definition just before one of a similar name is a mistake the code    *)
(* could make; README.md names the property that notices it.               *)
(***************************************************************************)
EXTENDS Naturals, FiniteSets

CONSTANTS
  Shells,     \* shells that may start, each one once
  Pids,       \* process identifiers; the names /tmp/termcast/<pid>.out
  PidOf,      \* the pid each shell gets; one may come round again
  Sessions,   \* session identifiers the agent has in hand
  NoShell,    \* no pipe under a name, no pipe open; as a terminal, "/dev/tty"
  Threads,    \* of the cooperative pool, about one per core
  MaxCrashes  \* crashes of the agent (bound of the model)

ASSUME ShellsAssumption ==
  /\ Pids # {}
  /\ PidOf \in [Shells -> Pids]
  /\ NoShell \notin Shells
  /\ Threads \in Nat \ {0}
  /\ MaxCrashes \in Nat

VARIABLES
  shell,    \* "unborn", "plain" without the hook, "hooked", "dead"
  helper,   \* the shell's termcast-hook: "none", "running", "done"
  tee,      \* its tee: "none", "opening" the pipe, "writing", "gone"
  name,     \* the pipe under each name, known by the shell that made it
  agent,    \* "down", "launched", "listening" on its socket
  tasks,    \* registrations under way: [pid, tty], the terminal of a shell or,
            \* from recoverSessions, "/dev/tty"
  pid,      \* Session.pid
  reader,   \* a session's reader task: "none", "starting", "opening", "reading",
            \* "failed" to open, "closing" its pipe while the session's removal
            \* is on its way, "removed" when that came first, "ended"
  fifo,     \* the pipe the reader has opened or waits for
  crashes,  \* history: crashes of the agent so far
  unseen    \* history: shells hooked after this agent looked for pipes that
            \* have not got their registration through

shellVars == <<shell, helper, tee>>
sessionVars == <<pid, reader, fifo>>
vars == <<shellVars, name, agent, tasks, sessionVars, crashes, unseen>>

\* keys of SessionRegistry.sessions
registry == {i \in Sessions : reader[i] \notin {"none", "removed"}}

Registrations == [pid : Pids, tty : Shells \cup {NoShell}]

\* Readers on a thread of the pool, which they keep while they wait.
Busy == {i \in Sessions : reader[i] \in {"opening", "reading", "closing", "removed"}}

\* Another task can run.
ThreadFree == Cardinality(Busy) < Threads

Running(s) == shell[s] \in {"plain", "hooked"}

\* kill(pid, 0) == 0: some process has the pid.
Alive(p) == \E s \in Shells : PidOf[s] = p /\ Running(s)

Init ==
  /\ shell = [s \in Shells |-> "unborn"]
  /\ helper = [s \in Shells |-> "none"]
  /\ tee = [s \in Shells |-> "none"]
  /\ name = [p \in Pids |-> NoShell]
  /\ agent = "down"
  /\ tasks = {}
  /\ pid = [i \in Sessions |-> CHOOSE p \in Pids : TRUE]
  /\ reader = [i \in Sessions |-> "none"]
  /\ fifo = [i \in Sessions |-> NoShell]
  /\ crashes = 0
  /\ unseen = {}

-----------------------------------------------------------------------------
(***************************************************************************)
(* The shell: termcast.sh, termcast.fish, termcast-hook and tee.           *)
(***************************************************************************)

\* The system gives a shell a pid that no process has.  Pids come round after
\* tens of thousands of processes: what an earlier shell of the same pid left
\* behind has by then done all it can, and only what waits for ever, or for a
\* thread, is left.
Born(s) ==
  /\ shell[s] = "unborn"
  /\ ~Alive(PidOf[s])
  /\ \A o \in Shells : PidOf[o] = PidOf[s] =>
       helper[o] # "running" /\ tee[o] \in {"none", "gone"}
  /\ ThreadFree => \A t \in tasks : t.pid # PidOf[s]
  /\ \A i \in Sessions : pid[i] = PidOf[s] =>
       \/ reader[i] \in {"none", "opening", "failed"}
       \/ ~ThreadFree /\ reader[i] \in {"starting", "ended"}

\* mkfifo fails when the name is taken, and the shell goes on without a hook.
NameTaken(s) ==
  /\ Born(s)
  /\ name[PidOf[s]] # NoShell
  /\ shell' = [shell EXCEPT ![s] = "plain"]
  /\ UNCHANGED <<helper, tee, name, agent, tasks, sessionVars, crashes, unseen>>

\* zsh or bash: pipe, helper in the background, output through a tee.
Hook(s) ==
  /\ Born(s)
  /\ name[PidOf[s]] = NoShell
  /\ name' = [name EXCEPT ![PidOf[s]] = s]
  /\ shell' = [shell EXCEPT ![s] = "hooked"]
  /\ helper' = [helper EXCEPT ![s] = "running"]
  /\ tee' = [tee EXCEPT ![s] = "opening"]
  /\ unseen' = IF agent = "down" THEN unseen ELSE unseen \cup {s}
  /\ UNCHANGED <<agent, tasks, sessionVars, crashes>>

\* fish: a failing mkfifo is ignored, and nothing ever writes to the pipe.
HookFish(s) ==
  /\ Born(s)
  /\ name' = [name EXCEPT ![PidOf[s]] = IF @ = NoShell THEN s ELSE @]
  /\ shell' = [shell EXCEPT ![s] = "hooked"]
  /\ helper' = [helper EXCEPT ![s] = "running"]
  /\ tee' = [tee EXCEPT ![s] = "gone"]
  /\ unseen' = IF agent = "down" THEN unseen ELSE unseen \cup {s}
  /\ UNCHANGED <<agent, tasks, sessionVars, crashes>>

DeliveredNone(s) == {}

\* The registration that a helper sends.
Delivered(s) == {[pid |-> PidOf[s], tty |-> s]}

\* The helper delivers the registration, or finds no socket and exits
\* silently.  The handler starts a task that calls register.
Register(s) ==
  /\ helper[s] = "running"
  /\ helper' = [helper EXCEPT ![s] = "done"]
  /\ \/ /\ agent = "listening"
        /\ tasks' = tasks \cup Delivered(s)
        /\ unseen' = unseen \ {s}
     \/ /\ agent # "listening"
        /\ UNCHANGED <<tasks, unseen>>
  /\ UNCHANGED <<shell, tee, name, agent, sessionVars, crashes>>

\* Sessions that have the pipe of s open, or wait for it.
Holding(s, states) == {i \in Sessions : fifo[i] = s /\ reader[i] \in states}

\* The pipe opens on both sides at once.
PipeOpens(s) ==
  /\ tee[s] = "opening"
  /\ Holding(s, {"opening"}) # {}
  /\ tee' = [tee EXCEPT ![s] = "writing"]
  /\ reader' = [i \in Sessions |->
                  IF i \in Holding(s, {"opening"}) THEN "reading" ELSE reader[i]]
  /\ UNCHANGED <<shell, helper, name, agent, tasks, pid, fifo,
                 crashes, unseen>>

\* The shell prints something while nobody reads the pipe: SIGPIPE ends tee.
BrokenPipe(s) ==
  /\ Running(s)
  /\ tee[s] = "writing"
  /\ Holding(s, {"reading"}) = {}
  /\ tee' = [tee EXCEPT ![s] = "gone"]
  /\ UNCHANGED <<shell, helper, name, agent, tasks, sessionVars, crashes, unseen>>

\* The shell exits.  The EXIT trap names a variable that was local to the
\* hook's function, so it removes nothing.
Exit(s) ==
  /\ Running(s)
  /\ shell' = [shell EXCEPT ![s] = "dead"]
  /\ UNCHANGED <<helper, tee, name, agent, tasks, sessionVars, crashes, unseen>>

\* tee reads the end of its input; one that still waits for a reader is killed
\* by the terminal's hangup.
TeeEnds(s) ==
  /\ shell[s] = "dead"
  /\ tee[s] \in {"opening", "writing"}
  /\ tee' = [tee EXCEPT ![s] = "gone"]
  /\ UNCHANGED <<shell, helper, name, agent, tasks, sessionVars, crashes, unseen>>

-----------------------------------------------------------------------------
(***************************************************************************)
(* The agent: AppDelegate, AgentSocketServer, SessionRegistry, PTYSession. *)
(***************************************************************************)

RecoveredDead == {p \in Pids : name[p] # NoShell /\ ~Alive(p)}

\* The names recoverSessions registers; it removes the other pipes.
Recovered == {p \in Pids : name[p] # NoShell /\ Alive(p)}

\* applicationDidFinishLaunching, which ends with recoverSessions; the tasks
\* it has started run after it.
Launch ==
  /\ agent = "down"
  /\ agent' = "launched"
  /\ tasks' = {[pid |-> p, tty |-> NoShell] : p \in Recovered}
  /\ name' = [p \in Pids |-> IF p \in Recovered THEN name[p] ELSE NoShell]
  /\ unseen' = {}
  /\ UNCHANGED <<shellVars, sessionVars, crashes>>

\* AgentSocketServer.start removes the socket an earlier life left and binds.
Listen ==
  /\ agent = "launched"
  /\ agent' = "listening"
  /\ UNCHANGED <<shellVars, name, tasks, sessionVars, crashes, unseen>>

\* The agent is killed or quits: everything it held in memory is gone, the
\* pipes lose their reading end and keep their names.
Crash ==
  /\ agent # "down"
  /\ crashes < MaxCrashes
  /\ crashes' = crashes + 1
  /\ agent' = "down"
  /\ tasks' = {}
  /\ reader' = [i \in Sessions |-> "none"]
  /\ fifo' = [i \in Sessions |-> NoShell]
  /\ UNCHANGED <<shellVars, name, pid, unseen>>

\* register(_:) makes a session under a fresh identifier; a task will start
\* its reader.
Admit(t) ==
  /\ t \in tasks /\ ThreadFree
  /\ tasks' = tasks \ {t}
  /\ \E i \in Sessions :
       /\ reader[i] = "none"
       /\ pid' = [pid EXCEPT ![i] = t.pid]
       /\ reader' = [reader EXCEPT ![i] = "starting"]
  /\ UNCHANGED <<shellVars, name, agent, fifo, crashes, unseen>>

\* open(2) for reading fails without the name and waits without a writer.
Opened(s) ==
  IF s = NoShell THEN "failed"
  ELSE IF tee[s] = "writing" THEN "reading" ELSE "opening"

\* The reader task opens the pipe its session's name refers to by now.
OpenPipe(i) ==
  /\ reader[i] = "starting" /\ ThreadFree
  /\ fifo' = [fifo EXCEPT ![i] = name[pid[i]]]
  /\ reader' = [reader EXCEPT ![i] = Opened(name[pid[i]])]
  /\ UNCHANGED <<shellVars, name, agent, tasks, pid, crashes, unseen>>

ClosedSilently == "failed"

\* onClose has been called: a task will remove the session.
Closed == "closing"

\* read() returns 0, and the task starts another one that removes the session.
EndOfPipe(i) ==
  /\ reader[i] = "reading"
  /\ tee[fifo[i]] = "gone"
  /\ reader' = [reader EXCEPT ![i] = Closed]
  /\ UNCHANGED <<shellVars, name, agent, tasks, pid, fifo, crashes, unseen>>

UnlinkedNone(p) == name

Unlinked(p) == [name EXCEPT ![p] = NoShell]

\* The reader's task ends: it closes its pipe and removes whatever the pipe's
\* name refers to by now.
ClosePipe(i) ==
  /\ reader[i] \in {"closing", "removed"}
  /\ reader' = [reader EXCEPT ![i] = IF @ = "closing" THEN "ended" ELSE "none"]
  /\ fifo' = [fifo EXCEPT ![i] = NoShell]
  /\ name' = Unlinked(pid[i])
  /\ UNCHANGED <<shellVars, agent, tasks, pid, crashes, unseen>>

\* remove(id:).  The identifier is free for the model once both are done.
Remove(i) ==
  /\ reader[i] \in {"closing", "ended"} /\ ThreadFree
  /\ reader' = [reader EXCEPT ![i] = IF @ = "closing" THEN "removed" ELSE "none"]
  /\ UNCHANGED <<shellVars, name, agent, tasks, pid, fifo, crashes, unseen>>

-----------------------------------------------------------------------------
\* What users and their shells do.
ShellsStep ==
  \E s \in Shells :
    NameTaken(s) \/ Hook(s) \/ HookFish(s) \/ BrokenPipe(s) \/ Exit(s)

\* What runs on by itself: helpers, tees, and the agent's tasks.
TasksStep ==
  \/ \E s \in Shells : Register(s) \/ PipeOpens(s) \/ TeeEnds(s)
  \/ \E t \in tasks : Admit(t)
  \/ \E i \in Sessions : OpenPipe(i) \/ EndOfPipe(i) \/ ClosePipe(i) \/ Remove(i)

Next == ShellsStep \/ TasksStep \/ Launch \/ Listen \/ Crash

Spec == Init /\ [][Next]_vars

\* TasksStep does not stop while any of it can go on (each of its actions
\* happens finitely often, so none is starved); a task that needs a thread can
\* go on only while the pool has one free.  Shells need not exit or print, and
\* nobody need start the agent.
Fairness == WF_vars(TasksStep \/ Listen)

FairSpec == Spec /\ Fairness

-----------------------------------------------------------------------------
(***************************************************************************)
(* Properties                                                              *)
(***************************************************************************)

\* The variables have their types, and a reader that waits, reads or closes has a pipe.
TypeOK ==
  /\ shell \in [Shells -> {"unborn", "plain", "hooked", "dead"}]
  /\ helper \in [Shells -> {"none", "running", "done"}]
  /\ tee \in [Shells -> {"none", "opening", "writing", "gone"}]
  /\ name \in [Pids -> Shells \cup {NoShell}]
  /\ agent \in {"down", "launched", "listening"}
  /\ tasks \subseteq Registrations
  /\ pid \in [Sessions -> Pids]
  /\ reader \in [Sessions -> {"none", "starting", "opening", "reading",
                              "failed", "closing", "removed", "ended"}]
  /\ fifo \in [Sessions -> Shells \cup {NoShell}]
  /\ \A i \in Busy : fifo[i] \in Shells
  /\ crashes \in 0 .. MaxCrashes
  /\ unseen \subseteq Shells

\* The agent is up and has nothing in hand that is still to run.
Settled ==
  /\ agent = "listening"
  /\ tasks = {}
  /\ \A s \in Shells : helper[s] # "running"
  /\ \A i \in Sessions : reader[i] \notin {"starting", "closing", "removed", "ended"}

\* Every shell with the hook is in the registry once things have settled,
\* through its helper or through the pipe that recoverSessions found; only one
\* that came between that search and the socket is not.
HookedShellsAreListed ==
  Settled => \A s \in Shells \ unseen :
    shell[s] = "hooked" => \E i \in registry : pid[i] = PidOf[s]

\* A live shell whose tee still writes is being read, also after the agent was
\* killed and launched again: no session's end takes another one's pipe away.
LiveOutputIsRead ==
  Settled => \A s \in Shells :
    Running(s) /\ tee[s] = "writing" => Holding(s, {"reading"}) # {}

\* A dead shell's pipe keeps its name, for which a later shell of the same pid
\* would go without a hook, only while a reader has it or waits for it (for
\* ever, if the shell wrote nothing), or if the agent never saw it.
StaleNamesAreStuck ==
  Settled => \A p \in Pids :
    name[p] # NoShell /\ shell[name[p]] = "dead" =>
      name[p] \in unseen \/ Holding(name[p], {"opening", "reading"}) # {}

\* The pool is not blocked for good: with a thread for every session it never
\* is, with fewer it may be.
PoolRecovers == []<>ThreadFree

\* Every shell's output, which its tee holds up until someone reads the pipe,
\* is let through while the agent is up, unless the shell came between the
\* agent's search and its socket, or idle sessions' readers have every thread
\* for good.
TerminalComesAlive ==
  PoolRecovers =>
    []<>(\A s \in Shells : tee[s] # "opening" \/ s \in unseen \/ agent = "down")

\* A session that reads the pipe of a dead shell leaves the registry, unless
\* other sessions' readers have every thread for good.  Those that stay never
\* had the pipe's other end.
EndedShellLeaves ==
  PoolRecovers =>
    []<>(\A i \in registry :
           /\ reader[i] # "ended"
           /\ fifo[i] # NoShell /\ shell[fifo[i]] = "dead" => reader[i] = "opening")

\* The same whatever the readers do does not hold: with as many idle sessions
\* as threads the next shell's reader never starts, and its terminal hangs.
EveryTerminalComesAlive ==
  []<>(\A s \in Shells : tee[s] # "opening" \/ s \in unseen \/ agent = "down")
=============================================================================
