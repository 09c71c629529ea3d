--------------------------- MODULE MacAgentProofs ---------------------------
(***************************************************************************)
(* Proofs about the agent: ShellLifecycle's safety properties for any      *)
(* shells, pids (shared by any number of them), sessions and crashes, and  *)
(* MacAgent's for any ports.                                               *)
(***************************************************************************)
EXTENDS MacAgent, FiniteSetTheorems, WellFoundedInduction, TLAPS

-----------------------------------------------------------------------------
(***************************************************************************)
(* The inductive invariant of ShellLifecycle.                              *)
(***************************************************************************)

\* A pipe is named after the pid of the shell that made it.
NamesKnowTheirShell ==
  \A p \in Pids : name[p] # NoShell => PidOf[name[p]] = p

\* A session waits for, reads or closes the pipe its name led to.
PipesKnowTheirSession == \A i \in Busy : PidOf[fifo[i]] = pid[i]

\* A shell that has not started has left nothing behind.
UnbornShellsHaveNoTee ==
  \A s \in Shells : shell[s] = "unborn" => tee[s] = "none"

\* A pipe that is read has been opened for writing, and its tee has gone only
\* with the shell.
ReadPipesHaveWriters ==
  \A i \in Sessions : reader[i] = "reading" =>
    /\ tee[fifo[i]] \in {"writing", "gone"}
    /\ tee[fifo[i]] = "gone" => shell[fifo[i]] = "dead"

\* A live shell has its pid for itself: earlier shells of that pid are done.
LivePidIsOwn ==
  \A s, o \in Shells : Running(s) /\ o # s /\ PidOf[o] = PidOf[s] =>
    ~Running(o) /\ tee[o] \in {"none", "gone"}

\* No reader of a live shell's pid is about to remove the pipe's name: what it
\* reads, if it reads, is the pipe of that very shell.
LivePidIsNotClosing ==
  \A s \in Shells, i \in Sessions : Running(s) /\ pid[i] = PidOf[s] =>
    /\ reader[i] \notin {"closing", "removed"}
    /\ reader[i] = "reading" => fifo[i] = s

\* The name of a live shell's pipe is there: no session's end, and no launch,
\* takes it away.
LivePipesKeepTheirName ==
  \A s \in Shells :
    /\ shell[s] = "hooked" => name[PidOf[s]] # NoShell
    /\ Running(s) /\ tee[s] \in {"opening", "writing"} => name[PidOf[s]] = s

\* The agent has a registration of p in hand.
Arriving(p) == \E t \in tasks : t.pid = p

\* A session of p has still to open its pipe.
Starting(p) == \E i \in Sessions : reader[i] = "starting" /\ pid[i] = p

\* Sessions that are not on their way out.
Staying == {i \in Sessions : reader[i] \in {"starting", "opening", "reading", "failed"}}

HookedShellsAreKnown ==
  agent # "down" => \A s \in Shells \ unseen : shell[s] = "hooked" =>
    Arriving(PidOf[s]) \/ \E i \in Staying : pid[i] = PidOf[s]

LiveOutputWillBeRead ==
  agent # "down" => \A s \in Shells : Running(s) /\ tee[s] = "writing" =>
    \/ Arriving(PidOf[s]) \/ Starting(PidOf[s])
    \/ Holding(s, {"reading"}) # {}

NamesAreKnown ==
  agent # "down" => \A p \in Pids : name[p] # NoShell /\ name[p] \notin unseen =>
    \/ Arriving(p) \/ Starting(p)
    \/ \E i \in Busy : fifo[i] = name[p]

ShellInv ==
  /\ TypeOK
  /\ NamesKnowTheirShell
  /\ PipesKnowTheirSession
  /\ UnbornShellsHaveNoTee
  /\ ReadPipesHaveWriters
  /\ LivePidIsOwn
  /\ LivePidIsNotClosing
  /\ LivePipesKeepTheirName
  /\ HookedShellsAreKnown
  /\ LiveOutputWillBeRead
  /\ NamesAreKnown

LEMMA InitShellInv == Init => ShellInv
<1> SUFFICES ASSUME Init PROVE ShellInv
  OBVIOUS
<1>1. TypeOK
  BY ShellsAssumption DEF Init, TypeOK, Registrations, Busy
<1>2. /\ NamesKnowTheirShell /\ PipesKnowTheirSession /\ UnbornShellsHaveNoTee
      /\ ReadPipesHaveWriters
  BY ShellsAssumption DEF Init, NamesKnowTheirShell, PipesKnowTheirSession,
     UnbornShellsHaveNoTee, ReadPipesHaveWriters, Busy
<1>3. LivePidIsOwn /\ LivePidIsNotClosing /\ LivePipesKeepTheirName
  BY DEF Init, LivePidIsOwn, LivePidIsNotClosing, LivePipesKeepTheirName, Running
<1>4. HookedShellsAreKnown /\ LiveOutputWillBeRead /\ NamesAreKnown
  BY DEF Init, HookedShellsAreKnown, LiveOutputWillBeRead, NamesAreKnown
<1>5. QED
  BY <1>1, <1>2, <1>3, <1>4 DEF ShellInv

-----------------------------------------------------------------------------
(***************************************************************************)
(* Every step keeps it, one part after the other.                          *)
(***************************************************************************)

LEMMA TypeStep == ShellInv /\ [Next]_vars => TypeOK'
<1> SUFFICES ASSUME ShellInv, [Next]_vars PROVE TypeOK'
  OBVIOUS
<1>1. ASSUME NEW s \in Shells, NameTaken(s) PROVE TypeOK'
   BY <1>1, ShellsAssumption DEF Busy, NameTaken, ShellInv, TypeOK, shellVars,
     sessionVars, Born
<1>2. ASSUME NEW s \in Shells, Hook(s) PROVE TypeOK'
   BY <1>2, ShellsAssumption DEF Busy, Hook, ShellInv, TypeOK, shellVars,
     sessionVars, Born
<1>3. ASSUME NEW s \in Shells, HookFish(s) PROVE TypeOK'
   BY <1>3, ShellsAssumption DEF Busy, HookFish, ShellInv, TypeOK, shellVars,
     sessionVars, Born
<1>4. ASSUME NEW s \in Shells, BrokenPipe(s) PROVE TypeOK'
   BY <1>4, ShellsAssumption DEF Busy, BrokenPipe, ShellInv, TypeOK, shellVars,
     sessionVars
<1>5. ASSUME NEW s \in Shells, Exit(s) PROVE TypeOK'
  BY <1>5, ShellsAssumption DEF Busy, Exit, ShellInv, TypeOK, shellVars, sessionVars
<1>6. ASSUME NEW s \in Shells, Register(s) PROVE TypeOK'
  <2>1. [pid |-> PidOf[s], tty |-> s] \in Registrations
    BY ShellsAssumption DEF Busy, Registrations
  <2>2. tasks' \subseteq Registrations
    BY <1>6, <2>1 DEF Busy, Register, Delivered, ShellInv, TypeOK
  <2>3. unseen' \subseteq Shells
    BY <1>6 DEF Busy, Register, ShellInv, TypeOK
  <2>4. QED
    BY <1>6, <2>2, <2>3 DEF Busy, Register, ShellInv, TypeOK, shellVars, sessionVars
<1>7. ASSUME NEW s \in Shells, PipeOpens(s) PROVE TypeOK'
   BY <1>7, ShellsAssumption DEF Busy, PipeOpens, ShellInv, TypeOK, shellVars,
     sessionVars, Holding
<1>8. ASSUME NEW s \in Shells, TeeEnds(s) PROVE TypeOK'
   BY <1>8, ShellsAssumption DEF Busy, TeeEnds, ShellInv, TypeOK, shellVars,
     sessionVars
<1>9. ASSUME NEW t \in tasks, Admit(t) PROVE TypeOK'
   BY <1>9, ShellsAssumption DEF Busy, Admit, ShellInv, TypeOK, shellVars,
     sessionVars, Registrations
<1>10. ASSUME NEW i \in Sessions, OpenPipe(i) PROVE TypeOK'
   BY <1>10, ShellsAssumption DEF Busy, OpenPipe, ShellInv, TypeOK, shellVars,
     sessionVars, Opened
<1>11. ASSUME NEW i \in Sessions, EndOfPipe(i) PROVE TypeOK'
   BY <1>11, ShellsAssumption DEF Busy, EndOfPipe, ShellInv, TypeOK, shellVars,
     sessionVars, Closed
<1>12. ASSUME NEW i \in Sessions, Remove(i) PROVE TypeOK'
   BY <1>12, ShellsAssumption DEF Busy, Remove, ShellInv, TypeOK, shellVars,
     sessionVars
<1>13. CASE Launch
   BY <1>13, ShellsAssumption DEF Busy, Launch, ShellInv, TypeOK, shellVars,
     sessionVars, Registrations, Recovered
<1>14. CASE Listen
   BY <1>14, ShellsAssumption DEF Busy, Listen, ShellInv, TypeOK, shellVars,
     sessionVars
<1>15. CASE Crash
   BY <1>15, ShellsAssumption DEF Busy, Crash, ShellInv, TypeOK, shellVars,
     sessionVars
<1>16. CASE UNCHANGED <<vars>>
  BY <1>16 DEF Busy, ShellInv, TypeOK, vars, shellVars, sessionVars
<1>17. ASSUME NEW i \in Sessions, ClosePipe(i) PROVE TypeOK'
  BY <1>17, ShellsAssumption DEF ClosePipe, ShellInv, TypeOK, shellVars,
     sessionVars, Busy, Unlinked
<1>18. QED
   BY <1>1, <1>2, <1>3, <1>4, <1>5, <1>6, <1>7, <1>8, <1>9, <1>10, <1>11,
     <1>12, <1>13, <1>14, <1>15, <1>16,
     <1>17 DEF Busy, Next, ShellsStep, TasksStep, vars,
     shellVars, sessionVars

\* Only a new shell makes a pipe; a launch and a session's end remove some.
LEMMA NameStep == ShellInv /\ [Next]_vars => NamesKnowTheirShell'
<1> SUFFICES ASSUME ShellInv, [Next]_vars PROVE NamesKnowTheirShell'
  OBVIOUS
<1>1. ASSUME NEW s \in Shells, Hook(s) PROVE NamesKnowTheirShell'
   BY <1>1, ShellsAssumption DEF Hook, ShellInv, TypeOK, NamesKnowTheirShell,
     shellVars, sessionVars
<1>2. ASSUME NEW s \in Shells, HookFish(s) PROVE NamesKnowTheirShell'
   BY <1>2, ShellsAssumption DEF HookFish, ShellInv, TypeOK,
     NamesKnowTheirShell, shellVars, sessionVars
<1>3. ASSUME NEW i \in Sessions, ClosePipe(i) PROVE NamesKnowTheirShell'
   BY <1>3, ShellsAssumption DEF ClosePipe, ShellInv, TypeOK,
     NamesKnowTheirShell, shellVars, sessionVars, Unlinked
<1>4. CASE Launch
   BY <1>4, ShellsAssumption DEF Launch, ShellInv, TypeOK,
     NamesKnowTheirShell, shellVars, sessionVars
<1>5. CASE UNCHANGED <<name>>
  BY <1>5 DEF ShellInv, NamesKnowTheirShell
<1>6. QED
   BY <1>1, <1>2, <1>3, <1>4, <1>5 DEF Next, ShellsStep, TasksStep, vars,
     shellVars, sessionVars, NameTaken, BrokenPipe, Exit, Register, PipeOpens,
     TeeEnds, Admit, OpenPipe, EndOfPipe, Remove, Listen, Crash

LEMMA PipeStep == ShellInv /\ [Next]_vars => PipesKnowTheirSession'
<1> SUFFICES ASSUME ShellInv, [Next]_vars PROVE PipesKnowTheirSession'
  OBVIOUS
<1>1. ASSUME NEW s \in Shells, PipeOpens(s) PROVE PipesKnowTheirSession'
   BY <1>1, ShellsAssumption DEF Busy, PipeOpens, ShellInv, TypeOK,
     PipesKnowTheirSession, shellVars, sessionVars, Holding
<1>2. ASSUME NEW t \in tasks, Admit(t) PROVE PipesKnowTheirSession'
   BY <1>2, ShellsAssumption DEF Busy, Admit, ShellInv, TypeOK,
     PipesKnowTheirSession, shellVars, sessionVars
<1>3. ASSUME NEW i \in Sessions, OpenPipe(i) PROVE PipesKnowTheirSession'
   BY <1>3, ShellsAssumption DEF Busy, OpenPipe, ShellInv, TypeOK,
     PipesKnowTheirSession, shellVars, sessionVars, NamesKnowTheirShell,
     Opened
<1>4. ASSUME NEW i \in Sessions, EndOfPipe(i) PROVE PipesKnowTheirSession'
   BY <1>4, ShellsAssumption DEF Busy, EndOfPipe, ShellInv, TypeOK,
     PipesKnowTheirSession, shellVars, sessionVars, Closed
<1>5. ASSUME NEW i \in Sessions, Remove(i) PROVE PipesKnowTheirSession'
   BY <1>5, ShellsAssumption DEF Busy, Remove, ShellInv, TypeOK,
     PipesKnowTheirSession, shellVars, sessionVars
<1>6. CASE Crash
   BY <1>6, ShellsAssumption DEF Busy, Crash, ShellInv, TypeOK,
     PipesKnowTheirSession, shellVars, sessionVars
<1>7. CASE UNCHANGED <<reader, fifo, pid>>
  BY <1>7 DEF Busy, ShellInv, PipesKnowTheirSession
<1>8. ASSUME NEW i \in Sessions, ClosePipe(i) PROVE PipesKnowTheirSession'
  BY <1>8, ShellsAssumption DEF ClosePipe, ShellInv, TypeOK, shellVars,
     sessionVars, Busy, PipesKnowTheirSession
<1>9. QED
   BY <1>1, <1>2, <1>3, <1>4, <1>5, <1>6, <1>7,
     <1>8 DEF Busy, Next, ShellsStep,
     TasksStep, vars, shellVars, sessionVars, NameTaken, Hook, HookFish,
     BrokenPipe, Exit, Register, TeeEnds, Launch, Listen

LEMMA UnbornStep == ShellInv /\ [Next]_vars => UnbornShellsHaveNoTee'
<1> SUFFICES ASSUME ShellInv, [Next]_vars PROVE UnbornShellsHaveNoTee'
  OBVIOUS
<1>1. ASSUME NEW s \in Shells, NameTaken(s) PROVE UnbornShellsHaveNoTee'
   BY <1>1, ShellsAssumption DEF NameTaken, ShellInv, TypeOK,
     UnbornShellsHaveNoTee, Running, shellVars, sessionVars
<1>2. ASSUME NEW s \in Shells, Hook(s) PROVE UnbornShellsHaveNoTee'
   BY <1>2, ShellsAssumption DEF Hook, ShellInv, TypeOK,
     UnbornShellsHaveNoTee, Running, shellVars, sessionVars
<1>3. ASSUME NEW s \in Shells, HookFish(s) PROVE UnbornShellsHaveNoTee'
   BY <1>3, ShellsAssumption DEF HookFish, ShellInv, TypeOK,
     UnbornShellsHaveNoTee, Running, shellVars, sessionVars
<1>4. ASSUME NEW s \in Shells, BrokenPipe(s) PROVE UnbornShellsHaveNoTee'
   BY <1>4, ShellsAssumption DEF BrokenPipe, ShellInv, TypeOK,
     UnbornShellsHaveNoTee, Running, shellVars, sessionVars
<1>5. ASSUME NEW s \in Shells, Exit(s) PROVE UnbornShellsHaveNoTee'
   BY <1>5, ShellsAssumption DEF Exit, ShellInv, TypeOK,
     UnbornShellsHaveNoTee, Running, shellVars, sessionVars
<1>6. ASSUME NEW s \in Shells, PipeOpens(s) PROVE UnbornShellsHaveNoTee'
   BY <1>6, ShellsAssumption DEF PipeOpens, ShellInv, TypeOK,
     UnbornShellsHaveNoTee, Running, shellVars, sessionVars
<1>7. ASSUME NEW s \in Shells, TeeEnds(s) PROVE UnbornShellsHaveNoTee'
   BY <1>7, ShellsAssumption DEF TeeEnds, ShellInv, TypeOK,
     UnbornShellsHaveNoTee, Running, shellVars, sessionVars
<1>8. CASE UNCHANGED <<shell, tee>>
  BY <1>8 DEF ShellInv, UnbornShellsHaveNoTee, Running
<1>9. QED
   BY <1>1, <1>2, <1>3, <1>4, <1>5, <1>6, <1>7, <1>8 DEF Next, ShellsStep,
     TasksStep, vars, shellVars, sessionVars, Register, Admit, OpenPipe,
     EndOfPipe, ClosePipe, Remove, Launch, Listen, Crash

\* A shell that prints while its pipe is read keeps its tee.
LEMMA ReadStep == ShellInv /\ [Next]_vars => ReadPipesHaveWriters'
<1> SUFFICES ASSUME ShellInv, [Next]_vars PROVE ReadPipesHaveWriters'
  OBVIOUS
<1>1. ASSUME NEW s \in Shells, NameTaken(s) PROVE ReadPipesHaveWriters'
   BY <1>1, ShellsAssumption DEF NameTaken, ShellInv, TypeOK,
     ReadPipesHaveWriters, shellVars, sessionVars, Born, UnbornShellsHaveNoTee
<1>2. ASSUME NEW s \in Shells, Hook(s) PROVE ReadPipesHaveWriters'
   BY <1>2, ShellsAssumption DEF Hook, ShellInv, TypeOK, ReadPipesHaveWriters,
     shellVars, sessionVars, Born, UnbornShellsHaveNoTee
<1>3. ASSUME NEW s \in Shells, HookFish(s) PROVE ReadPipesHaveWriters'
   BY <1>3, ShellsAssumption DEF HookFish, ShellInv, TypeOK,
     ReadPipesHaveWriters, shellVars, sessionVars, Born, UnbornShellsHaveNoTee
<1>4. ASSUME NEW s \in Shells, BrokenPipe(s) PROVE ReadPipesHaveWriters'
   BY <1>4, ShellsAssumption DEF BrokenPipe, ShellInv, TypeOK,
     ReadPipesHaveWriters, shellVars, sessionVars, Holding
<1>5. ASSUME NEW s \in Shells, Exit(s) PROVE ReadPipesHaveWriters'
   BY <1>5, ShellsAssumption DEF Exit, ShellInv, TypeOK, ReadPipesHaveWriters,
     shellVars, sessionVars, Running
<1>6. ASSUME NEW s \in Shells, PipeOpens(s) PROVE ReadPipesHaveWriters'
   BY <1>6, ShellsAssumption DEF PipeOpens, ShellInv, TypeOK,
     ReadPipesHaveWriters, shellVars, sessionVars, Holding
<1>7. ASSUME NEW s \in Shells, TeeEnds(s) PROVE ReadPipesHaveWriters'
   BY <1>7, ShellsAssumption DEF TeeEnds, ShellInv, TypeOK,
     ReadPipesHaveWriters, shellVars, sessionVars
<1>8. ASSUME NEW t \in tasks, Admit(t) PROVE ReadPipesHaveWriters'
   BY <1>8, ShellsAssumption DEF Admit, ShellInv, TypeOK,
     ReadPipesHaveWriters, shellVars, sessionVars
<1>9. ASSUME NEW i \in Sessions, OpenPipe(i) PROVE ReadPipesHaveWriters'
   BY <1>9, ShellsAssumption DEF OpenPipe, ShellInv, TypeOK,
     ReadPipesHaveWriters, shellVars, sessionVars, Opened
<1>10. ASSUME NEW i \in Sessions, EndOfPipe(i) PROVE ReadPipesHaveWriters'
   BY <1>10, ShellsAssumption DEF EndOfPipe, ShellInv, TypeOK,
     ReadPipesHaveWriters, shellVars, sessionVars, Closed
<1>11. ASSUME NEW i \in Sessions, Remove(i) PROVE ReadPipesHaveWriters'
   BY <1>11, ShellsAssumption DEF Remove, ShellInv, TypeOK,
     ReadPipesHaveWriters, shellVars, sessionVars
<1>12. CASE Crash
   BY <1>12, ShellsAssumption DEF Crash, ShellInv, TypeOK,
     ReadPipesHaveWriters, shellVars, sessionVars
<1>13. CASE UNCHANGED <<shell, tee, reader, fifo>>
  BY <1>13 DEF ShellInv, ReadPipesHaveWriters
<1>14. ASSUME NEW i \in Sessions, ClosePipe(i) PROVE ReadPipesHaveWriters'
  BY <1>14, ShellsAssumption DEF ClosePipe, ShellInv, TypeOK, shellVars,
     sessionVars, ReadPipesHaveWriters
<1>15. QED
   BY <1>1, <1>2, <1>3, <1>4, <1>5, <1>6, <1>7, <1>8, <1>9, <1>10, <1>11,
     <1>12, <1>13,
     <1>14 DEF Next, ShellsStep, TasksStep, vars, shellVars,
     sessionVars, Register, Launch, Listen

LEMMA OwnStep == ShellInv /\ [Next]_vars => LivePidIsOwn'
<1> SUFFICES ASSUME ShellInv, [Next]_vars PROVE LivePidIsOwn'
  OBVIOUS
<1>1. ASSUME NEW s \in Shells, NameTaken(s) PROVE LivePidIsOwn'
   BY <1>1, ShellsAssumption DEF NameTaken, ShellInv, TypeOK, LivePidIsOwn,
     Running, shellVars, sessionVars, Born, Alive
<1>2. ASSUME NEW s \in Shells, Hook(s) PROVE LivePidIsOwn'
   BY <1>2, ShellsAssumption DEF Hook, ShellInv, TypeOK, LivePidIsOwn,
     Running, shellVars, sessionVars, Born, Alive
<1>3. ASSUME NEW s \in Shells, HookFish(s) PROVE LivePidIsOwn'
   BY <1>3, ShellsAssumption DEF HookFish, ShellInv, TypeOK, LivePidIsOwn,
     Running, shellVars, sessionVars, Born, Alive
<1>4. ASSUME NEW s \in Shells, BrokenPipe(s) PROVE LivePidIsOwn'
   BY <1>4, ShellsAssumption DEF BrokenPipe, ShellInv, TypeOK, LivePidIsOwn,
     Running, shellVars, sessionVars
<1>5. ASSUME NEW s \in Shells, Exit(s) PROVE LivePidIsOwn'
   BY <1>5, ShellsAssumption DEF Exit, ShellInv, TypeOK, LivePidIsOwn,
     Running, shellVars, sessionVars
<1>6. ASSUME NEW s \in Shells, PipeOpens(s) PROVE LivePidIsOwn'
   BY <1>6, ShellsAssumption DEF PipeOpens, ShellInv, TypeOK, LivePidIsOwn,
     Running, shellVars, sessionVars
<1>7. ASSUME NEW s \in Shells, TeeEnds(s) PROVE LivePidIsOwn'
   BY <1>7, ShellsAssumption DEF TeeEnds, ShellInv, TypeOK, LivePidIsOwn,
     Running, shellVars, sessionVars
<1>8. CASE UNCHANGED <<shell, tee>>
  BY <1>8 DEF ShellInv, LivePidIsOwn, Running
<1>9. QED
   BY <1>1, <1>2, <1>3, <1>4, <1>5, <1>6, <1>7, <1>8 DEF Next, ShellsStep,
     TasksStep, vars, shellVars, sessionVars, Register, Admit, OpenPipe,
     EndOfPipe, ClosePipe, Remove, Launch, Listen, Crash

LEMMA ClosingStep == ShellInv /\ [Next]_vars => LivePidIsNotClosing'
<1> SUFFICES ASSUME ShellInv, [Next]_vars PROVE LivePidIsNotClosing'
  OBVIOUS
<1>1. ASSUME NEW s \in Shells, NameTaken(s) PROVE LivePidIsNotClosing'
   BY <1>1, ShellsAssumption DEF NameTaken, ShellInv, TypeOK,
     LivePidIsNotClosing, Running, shellVars, sessionVars, Born
<1>2. ASSUME NEW s \in Shells, Hook(s) PROVE LivePidIsNotClosing'
   BY <1>2, ShellsAssumption DEF Hook, ShellInv, TypeOK, LivePidIsNotClosing,
     Running, shellVars, sessionVars, Born
<1>3. ASSUME NEW s \in Shells, HookFish(s) PROVE LivePidIsNotClosing'
   BY <1>3, ShellsAssumption DEF HookFish, ShellInv, TypeOK,
     LivePidIsNotClosing, Running, shellVars, sessionVars, Born
<1>4. ASSUME NEW s \in Shells, Exit(s) PROVE LivePidIsNotClosing'
   BY <1>4, ShellsAssumption DEF Exit, ShellInv, TypeOK, LivePidIsNotClosing,
     Running, shellVars, sessionVars
<1>5. ASSUME NEW s \in Shells, PipeOpens(s) PROVE LivePidIsNotClosing'
   BY <1>5, ShellsAssumption DEF PipeOpens, ShellInv, TypeOK,
     LivePidIsNotClosing, Running, shellVars, sessionVars, Holding,
     PipesKnowTheirSession, LivePidIsOwn, Busy
<1>6. ASSUME NEW t \in tasks, Admit(t) PROVE LivePidIsNotClosing'
   BY <1>6, ShellsAssumption DEF Admit, ShellInv, TypeOK, LivePidIsNotClosing,
     Running, shellVars, sessionVars
<1>7. ASSUME NEW i \in Sessions, OpenPipe(i) PROVE LivePidIsNotClosing'
   BY <1>7, ShellsAssumption DEF OpenPipe, ShellInv, TypeOK,
     LivePidIsNotClosing, Running, shellVars, sessionVars, Opened,
     NamesKnowTheirShell, LivePidIsOwn
<1>8. ASSUME NEW i \in Sessions, EndOfPipe(i) PROVE LivePidIsNotClosing'
   BY <1>8, ShellsAssumption DEF EndOfPipe, ShellInv, TypeOK,
     LivePidIsNotClosing, Running, shellVars, sessionVars, Closed,
     ReadPipesHaveWriters
<1>9. ASSUME NEW i \in Sessions, Remove(i) PROVE LivePidIsNotClosing'
   BY <1>9, ShellsAssumption DEF Remove, ShellInv, TypeOK,
     LivePidIsNotClosing, Running, shellVars, sessionVars
<1>10. CASE Crash
   BY <1>10, ShellsAssumption DEF Crash, ShellInv, TypeOK,
     LivePidIsNotClosing, Running, shellVars, sessionVars
<1>11. CASE UNCHANGED <<shell, reader, pid, fifo>>
  BY <1>11 DEF ShellInv, LivePidIsNotClosing, Running
<1>12. ASSUME NEW i \in Sessions, ClosePipe(i) PROVE LivePidIsNotClosing'
  BY <1>12, ShellsAssumption DEF ClosePipe, ShellInv, TypeOK, shellVars,
     sessionVars, LivePidIsNotClosing, Running
<1>13. QED
   BY <1>1, <1>2, <1>3, <1>4, <1>5, <1>6, <1>7, <1>8, <1>9, <1>10, <1>11,
     <1>12 DEF
     Next, ShellsStep, TasksStep, vars, shellVars, sessionVars, BrokenPipe,
     Register, TeeEnds, Launch, Listen

LEMMA KeepStep == ShellInv /\ [Next]_vars => LivePipesKeepTheirName'
<1> SUFFICES ASSUME ShellInv, [Next]_vars PROVE LivePipesKeepTheirName'
  OBVIOUS
<1>1. ASSUME NEW s \in Shells, NameTaken(s) PROVE LivePipesKeepTheirName'
   BY <1>1, ShellsAssumption DEF NameTaken, ShellInv, TypeOK,
     LivePipesKeepTheirName, Running, shellVars, sessionVars, Born, Alive,
     UnbornShellsHaveNoTee
<1>2. ASSUME NEW s \in Shells, Hook(s) PROVE LivePipesKeepTheirName'
   BY <1>2, ShellsAssumption DEF Hook, ShellInv, TypeOK,
     LivePipesKeepTheirName, Running, shellVars, sessionVars, Born, Alive
<1>3. ASSUME NEW s \in Shells, HookFish(s) PROVE LivePipesKeepTheirName'
   BY <1>3, ShellsAssumption DEF HookFish, ShellInv, TypeOK,
     LivePipesKeepTheirName, Running, shellVars, sessionVars, Born, Alive,
     UnbornShellsHaveNoTee
<1>4. ASSUME NEW s \in Shells, BrokenPipe(s) PROVE LivePipesKeepTheirName'
   BY <1>4, ShellsAssumption DEF BrokenPipe, ShellInv, TypeOK,
     LivePipesKeepTheirName, Running, shellVars, sessionVars
<1>5. ASSUME NEW s \in Shells, Exit(s) PROVE LivePipesKeepTheirName'
   BY <1>5, ShellsAssumption DEF Exit, ShellInv, TypeOK,
     LivePipesKeepTheirName, Running, shellVars, sessionVars
<1>6. ASSUME NEW s \in Shells, PipeOpens(s) PROVE LivePipesKeepTheirName'
   BY <1>6, ShellsAssumption DEF PipeOpens, ShellInv, TypeOK,
     LivePipesKeepTheirName, Running, shellVars, sessionVars
<1>7. ASSUME NEW s \in Shells, TeeEnds(s) PROVE LivePipesKeepTheirName'
   BY <1>7, ShellsAssumption DEF TeeEnds, ShellInv, TypeOK,
     LivePipesKeepTheirName, Running, shellVars, sessionVars
<1>8. ASSUME NEW i \in Sessions, ClosePipe(i) PROVE LivePipesKeepTheirName'
   BY <1>8, ShellsAssumption DEF ClosePipe, ShellInv, TypeOK,
     LivePipesKeepTheirName, Running, shellVars, sessionVars, Unlinked,
     LivePidIsNotClosing, ReadPipesHaveWriters
<1>9. CASE Launch
   BY <1>9, ShellsAssumption DEF Launch, ShellInv, TypeOK,
     LivePipesKeepTheirName, Running, shellVars, sessionVars, Recovered, Alive
<1>10. CASE UNCHANGED <<shell, tee, name>>
  BY <1>10 DEF ShellInv, LivePipesKeepTheirName, Running
<1>11. QED
   BY <1>1, <1>2, <1>3, <1>4, <1>5, <1>6, <1>7, <1>8, <1>9, <1>10 DEF Next,
     ShellsStep, TasksStep, vars, shellVars, sessionVars, Register, Admit,
     OpenPipe, EndOfPipe, Remove, Listen, Crash

\* A registration that reaches the agent is in hand with those before it.
LEMMA RegistersItself ==
  ASSUME NEW s \in Shells, Register(s), agent = "listening"
  PROVE  /\ Arriving(PidOf[s])'
         /\ \A p \in Pids : Arriving(p) => Arriving(p)'
<1>1. tasks' = tasks \cup {[pid |-> PidOf[s], tty |-> s]}
  BY DEF Register, Delivered
<1> DEFINE t0 == [pid |-> PidOf[s], tty |-> s]
<1>2. t0 \in tasks' /\ t0.pid = PidOf[s]
  BY <1>1
<1> HIDE DEF t0
<1>3. \A t \in tasks : t \in tasks'
  BY <1>1
<1>4. QED
  BY <1>2, <1>3 DEF Arriving

\* A launch registers again every pipe it keeps.
LEMMA LaunchRecovers ==
  ASSUME Launch, NEW p \in Pids, name[p] # NoShell, Alive(p)
  PROVE  Arriving(p)'
<1>1. [pid |-> p, tty |-> NoShell] \in tasks'
  BY DEF Launch, Recovered
<1>2. QED
  BY <1>1 DEF Arriving

LEMMA KnownStep == ShellInv /\ [Next]_vars => HookedShellsAreKnown'
<1> SUFFICES ASSUME ShellInv, [Next]_vars PROVE HookedShellsAreKnown'
  OBVIOUS
<1>1. ASSUME NEW s \in Shells, NameTaken(s) PROVE HookedShellsAreKnown'
   BY <1>1, ShellsAssumption DEF NameTaken, ShellInv, TypeOK,
     HookedShellsAreKnown, Arriving, Staying, shellVars, sessionVars
<1>2. ASSUME NEW s \in Shells, Hook(s) PROVE HookedShellsAreKnown'
   BY <1>2, ShellsAssumption DEF Hook, ShellInv, TypeOK, HookedShellsAreKnown,
     Arriving, Staying, shellVars, sessionVars, Born
<1>3. ASSUME NEW s \in Shells, HookFish(s) PROVE HookedShellsAreKnown'
   BY <1>3, ShellsAssumption DEF HookFish, ShellInv, TypeOK,
     HookedShellsAreKnown, Arriving, Staying, shellVars, sessionVars, Born
<1>4. ASSUME NEW s \in Shells, Exit(s) PROVE HookedShellsAreKnown'
   BY <1>4, ShellsAssumption DEF Exit, ShellInv, TypeOK, HookedShellsAreKnown,
     Arriving, Staying, shellVars, sessionVars
<1>5. ASSUME NEW s \in Shells, Register(s) PROVE HookedShellsAreKnown'
  <2>1. CASE agent = "listening"
    <3>1. Arriving(PidOf[s])'
      BY <1>5, <2>1, RegistersItself
    <3>2. ASSUME NEW p \in Pids, Arriving(p) PROVE Arriving(p)'
      BY <1>5, <2>1, <3>2, RegistersItself
    <3>3. QED
      BY <1>5, <2>1, <3>1, <3>2, ShellsAssumption DEF Register, ShellInv, TypeOK,
         HookedShellsAreKnown, Staying, sessionVars
  <2>2. CASE agent # "listening"
    BY <1>5, <2>2 DEF Register, ShellInv, HookedShellsAreKnown, Arriving, Staying,
       sessionVars
  <2>3. QED
    BY <2>1, <2>2
<1>6. ASSUME NEW s \in Shells, PipeOpens(s) PROVE HookedShellsAreKnown'
   BY <1>6, ShellsAssumption DEF PipeOpens, ShellInv, TypeOK,
     HookedShellsAreKnown, Arriving, Staying, shellVars, sessionVars, Holding
<1>7. ASSUME NEW t \in tasks, Admit(t) PROVE HookedShellsAreKnown'
   BY <1>7, ShellsAssumption DEF Admit, ShellInv, TypeOK,
     HookedShellsAreKnown, Arriving, Staying, shellVars, sessionVars
<1>8. ASSUME NEW i \in Sessions, OpenPipe(i) PROVE HookedShellsAreKnown'
   BY <1>8, ShellsAssumption DEF OpenPipe, ShellInv, TypeOK,
     HookedShellsAreKnown, Arriving, Staying, shellVars, sessionVars, Opened
<1>9. ASSUME NEW i \in Sessions, EndOfPipe(i) PROVE HookedShellsAreKnown'
   BY <1>9, ShellsAssumption DEF EndOfPipe, ShellInv, TypeOK,
     HookedShellsAreKnown, Arriving, Staying, shellVars, sessionVars, Closed,
     LivePidIsNotClosing, ReadPipesHaveWriters, Running
<1>10. ASSUME NEW i \in Sessions, Remove(i) PROVE HookedShellsAreKnown'
   BY <1>10, ShellsAssumption DEF Remove, ShellInv, TypeOK,
     HookedShellsAreKnown, Arriving, Staying, shellVars, sessionVars,
     LivePidIsNotClosing, Running
<1>11. CASE Launch
  <2>1. ASSUME NEW s \in Shells, shell[s] = "hooked" PROVE Arriving(PidOf[s])'
    BY <1>11, <2>1, LaunchRecovers, ShellsAssumption DEF ShellInv, Running,
       LivePipesKeepTheirName, Alive
  <2>2. QED
    BY <1>11, <2>1 DEF Launch, HookedShellsAreKnown, shellVars
<1>12. CASE Listen
   BY <1>12, ShellsAssumption DEF Listen, ShellInv, TypeOK,
     HookedShellsAreKnown, Arriving, Staying, shellVars, sessionVars
<1>13. CASE Crash
   BY <1>13, ShellsAssumption DEF Crash, ShellInv, TypeOK,
     HookedShellsAreKnown, Arriving, Staying, shellVars, sessionVars
<1>14. CASE UNCHANGED <<shell, agent, unseen, tasks, reader, pid>>
  BY <1>14 DEF ShellInv, HookedShellsAreKnown, Arriving, Staying
<1>15. ASSUME NEW i \in Sessions, ClosePipe(i) PROVE HookedShellsAreKnown'
  BY <1>15, ShellsAssumption DEF ClosePipe, ShellInv, TypeOK, shellVars,
     sessionVars, HookedShellsAreKnown, Arriving, Staying
<1>16. QED
   BY <1>1, <1>2, <1>3, <1>4, <1>5, <1>6, <1>7, <1>8, <1>9, <1>10, <1>11,
     <1>12, <1>13, <1>14,
     <1>15 DEF Next, ShellsStep, TasksStep, vars, shellVars,
     sessionVars, BrokenPipe, TeeEnds

LEMMA OutputStep == ShellInv /\ [Next]_vars => LiveOutputWillBeRead'
<1> SUFFICES ASSUME ShellInv, [Next]_vars PROVE LiveOutputWillBeRead'
  OBVIOUS
<1>1. ASSUME NEW s \in Shells, NameTaken(s) PROVE LiveOutputWillBeRead'
   BY <1>1, ShellsAssumption DEF NameTaken, ShellInv, TypeOK,
     LiveOutputWillBeRead, Arriving, Starting, Holding, Running, shellVars,
     sessionVars, Born, UnbornShellsHaveNoTee
<1>2. ASSUME NEW s \in Shells, Hook(s) PROVE LiveOutputWillBeRead'
   BY <1>2, ShellsAssumption DEF Hook, ShellInv, TypeOK, LiveOutputWillBeRead,
     Arriving, Starting, Holding, Running, shellVars, sessionVars
<1>3. ASSUME NEW s \in Shells, HookFish(s) PROVE LiveOutputWillBeRead'
   BY <1>3, ShellsAssumption DEF HookFish, ShellInv, TypeOK,
     LiveOutputWillBeRead, Arriving, Starting, Holding, Running, shellVars,
     sessionVars
<1>4. ASSUME NEW s \in Shells, BrokenPipe(s) PROVE LiveOutputWillBeRead'
   BY <1>4, ShellsAssumption DEF BrokenPipe, ShellInv, TypeOK,
     LiveOutputWillBeRead, Arriving, Starting, Holding, Running, shellVars,
     sessionVars
<1>5. ASSUME NEW s \in Shells, Exit(s) PROVE LiveOutputWillBeRead'
   BY <1>5, ShellsAssumption DEF Exit, ShellInv, TypeOK, LiveOutputWillBeRead,
     Arriving, Starting, Holding, Running, shellVars, sessionVars
<1>6. ASSUME NEW s \in Shells, Register(s) PROVE LiveOutputWillBeRead'
   BY <1>6, ShellsAssumption DEF Register, ShellInv, TypeOK,
     LiveOutputWillBeRead, Arriving, Starting, Holding, Running, shellVars,
     sessionVars, Delivered
<1>7. ASSUME NEW s \in Shells, PipeOpens(s) PROVE LiveOutputWillBeRead'
   BY <1>7, ShellsAssumption DEF PipeOpens, ShellInv, TypeOK,
     LiveOutputWillBeRead, Arriving, Starting, Holding, Running, shellVars,
     sessionVars
<1>8. ASSUME NEW s \in Shells, TeeEnds(s) PROVE LiveOutputWillBeRead'
   BY <1>8, ShellsAssumption DEF TeeEnds, ShellInv, TypeOK,
     LiveOutputWillBeRead, Arriving, Starting, Holding, Running, shellVars,
     sessionVars
<1>9. ASSUME NEW t \in tasks, Admit(t) PROVE LiveOutputWillBeRead'
   BY <1>9, ShellsAssumption DEF Admit, ShellInv, TypeOK,
     LiveOutputWillBeRead, Arriving, Starting, Holding, Running, shellVars,
     sessionVars
<1>10. ASSUME NEW i \in Sessions, OpenPipe(i) PROVE LiveOutputWillBeRead'
   BY <1>10, ShellsAssumption DEF OpenPipe, ShellInv, TypeOK,
     LiveOutputWillBeRead, Arriving, Starting, Holding, Running, shellVars,
     sessionVars, Opened, LivePipesKeepTheirName
<1>11. ASSUME NEW i \in Sessions, EndOfPipe(i) PROVE LiveOutputWillBeRead'
   BY <1>11, ShellsAssumption DEF EndOfPipe, ShellInv, TypeOK,
     LiveOutputWillBeRead, Arriving, Starting, Holding, Running, shellVars,
     sessionVars, Closed
<1>12. ASSUME NEW i \in Sessions, Remove(i) PROVE LiveOutputWillBeRead'
   BY <1>12, ShellsAssumption DEF Remove, ShellInv, TypeOK,
     LiveOutputWillBeRead, Arriving, Starting, Holding, Running, shellVars,
     sessionVars
<1>13. CASE Launch
  <2>1. ASSUME NEW s \in Shells, Running(s), tee[s] = "writing"
        PROVE  Arriving(PidOf[s])'
    <3>1. name[PidOf[s]] = s /\ Alive(PidOf[s])
      BY <2>1 DEF ShellInv, LivePipesKeepTheirName, Alive
    <3>2. QED
      BY <1>13, <3>1, LaunchRecovers, ShellsAssumption
  <2>2. QED
    BY <1>13, <2>1 DEF Launch, LiveOutputWillBeRead, shellVars, Running
<1>14. CASE Listen
   BY <1>14, ShellsAssumption DEF Listen, ShellInv, TypeOK,
     LiveOutputWillBeRead, Arriving, Starting, Holding, Running, shellVars,
     sessionVars
<1>15. CASE Crash
   BY <1>15, ShellsAssumption DEF Crash, ShellInv, TypeOK,
     LiveOutputWillBeRead, Arriving, Starting, Holding, Running, shellVars,
     sessionVars
<1>16. CASE UNCHANGED <<vars>>
   BY <1>16 DEF ShellInv, LiveOutputWillBeRead, Arriving, Starting, Holding,
     Running, vars, shellVars, sessionVars
<1>17. ASSUME NEW i \in Sessions, ClosePipe(i) PROVE LiveOutputWillBeRead'
  BY <1>17, ShellsAssumption DEF ClosePipe, ShellInv, TypeOK, shellVars,
     sessionVars, LiveOutputWillBeRead, Arriving, Starting,
     Holding, Running
<1>18. QED
   BY <1>1, <1>2, <1>3, <1>4, <1>5, <1>6, <1>7, <1>8, <1>9, <1>10, <1>11,
     <1>12, <1>13, <1>14, <1>15, <1>16,
     <1>17 DEF Next, ShellsStep, TasksStep, vars,
     shellVars, sessionVars

LEMMA NamesStep == ShellInv /\ [Next]_vars => NamesAreKnown'
<1> SUFFICES ASSUME ShellInv, [Next]_vars PROVE NamesAreKnown'
  OBVIOUS
<1>1. ASSUME NEW s \in Shells, Hook(s) PROVE NamesAreKnown'
   BY <1>1, ShellsAssumption DEF Hook, ShellInv, TypeOK, NamesAreKnown,
     Arriving, Starting, Busy, shellVars, sessionVars
<1>2. ASSUME NEW s \in Shells, HookFish(s) PROVE NamesAreKnown'
   BY <1>2, ShellsAssumption DEF HookFish, ShellInv, TypeOK, NamesAreKnown,
     Arriving, Starting, Busy, shellVars, sessionVars
<1>3. ASSUME NEW s \in Shells, Register(s) PROVE NamesAreKnown'
  <2>1. CASE agent = "listening"
    <3>1. Arriving(PidOf[s])'
      BY <1>3, <2>1, RegistersItself
    <3>2. ASSUME NEW p \in Pids, Arriving(p) PROVE Arriving(p)'
      BY <1>3, <2>1, <3>2, RegistersItself
    <3>3. \A p \in Pids : name[p] = s => p = PidOf[s]
      BY ShellsAssumption DEF ShellInv, NamesKnowTheirShell
    <3>4. UNCHANGED <<agent, name, pid, reader, fifo>> /\ unseen' = unseen \ {s}
      BY <1>3, <2>1 DEF Register, sessionVars
    <3>5. \A p \in Pids : Starting(p)' = Starting(p)
      BY <3>4 DEF Starting
    <3>6. Busy' = Busy
      BY <3>4 DEF Busy
    <3>7. QED
      BY <3>1, <3>2, <3>3, <3>4, <3>5, <3>6 DEF ShellInv, NamesAreKnown
  <2>2. CASE agent # "listening"
    BY <1>3, <2>2 DEF Register, ShellInv, NamesAreKnown, Arriving, Starting, Busy,
       sessionVars
  <2>3. QED
    BY <2>1, <2>2
<1>4. ASSUME NEW s \in Shells, PipeOpens(s) PROVE NamesAreKnown'
  <2>1. UNCHANGED <<agent, name, tasks, unseen, pid, fifo>>
    BY <1>4 DEF PipeOpens
  <2>2. \A p \in Pids : Arriving(p) => Arriving(p)'
    BY <2>1 DEF Arriving
  <2>3. reader' = [i \in Sessions |->
                     IF i \in Holding(s, {"opening"}) THEN "reading" ELSE reader[i]]
    BY <1>4 DEF PipeOpens
  <2>4. \A p \in Pids : Starting(p) => Starting(p)'
    BY <2>1, <2>3 DEF Starting, Holding
  <2>5. \A i \in Busy : i \in Busy' /\ fifo'[i] = fifo[i]
    BY <2>1, <2>3 DEF Busy
  <2>6. QED
    BY <2>1, <2>2, <2>4, <2>5 DEF ShellInv, NamesAreKnown
<1>5. ASSUME NEW t \in tasks, Admit(t) PROVE NamesAreKnown'
   BY <1>5, ShellsAssumption DEF Admit, ShellInv, TypeOK, NamesAreKnown,
     Arriving, Starting, Busy, shellVars, sessionVars
<1>6. ASSUME NEW i \in Sessions, OpenPipe(i) PROVE NamesAreKnown'
   BY <1>6, ShellsAssumption DEF OpenPipe, ShellInv, TypeOK, NamesAreKnown,
     Arriving, Starting, Busy, shellVars, sessionVars, Opened
<1>7. ASSUME NEW i \in Sessions, EndOfPipe(i) PROVE NamesAreKnown'
   BY <1>7, ShellsAssumption DEF EndOfPipe, ShellInv, TypeOK, NamesAreKnown,
     Arriving, Starting, Busy, shellVars, sessionVars, Closed, Unlinked,
     NamesKnowTheirShell, PipesKnowTheirSession
<1>8. ASSUME NEW i \in Sessions, Remove(i) PROVE NamesAreKnown'
   BY <1>8, ShellsAssumption DEF Remove, ShellInv, TypeOK, NamesAreKnown,
     Arriving, Starting, Busy, shellVars, sessionVars
<1>9. CASE Launch
  <2>1. ASSUME NEW p \in Pids, name'[p] # NoShell PROVE Arriving(p)'
    BY <1>9, <2>1, LaunchRecovers DEF Launch, Recovered
  <2>2. QED
    BY <2>1 DEF NamesAreKnown
<1>10. CASE Listen
   BY <1>10, ShellsAssumption DEF Listen, ShellInv, TypeOK, NamesAreKnown,
     Arriving, Starting, Busy, shellVars, sessionVars
<1>11. CASE Crash
   BY <1>11, ShellsAssumption DEF Crash, ShellInv, TypeOK, NamesAreKnown,
     Arriving, Starting, Busy, shellVars, sessionVars
<1>12. CASE UNCHANGED <<name, agent, unseen, tasks, reader, pid, fifo>>
  BY <1>12 DEF ShellInv, NamesAreKnown, Arriving, Starting, Busy
<1>13. ASSUME NEW i \in Sessions, ClosePipe(i) PROVE NamesAreKnown'
  BY <1>13, ShellsAssumption DEF ClosePipe, ShellInv, TypeOK, shellVars,
     sessionVars, NamesAreKnown, Arriving, Starting, Busy,
     Unlinked, NamesKnowTheirShell, PipesKnowTheirSession
<1>14. QED
   BY <1>1, <1>2, <1>3, <1>4, <1>5, <1>6, <1>7, <1>8, <1>9, <1>10, <1>11,
     <1>12,
     <1>13 DEF Next, ShellsStep, TasksStep, vars, shellVars, sessionVars,
     NameTaken, BrokenPipe, Exit, TeeEnds
-----------------------------------------------------------------------------
(***************************************************************************)
(* ShellLifecycle's properties.                                            *)
(***************************************************************************)

LEMMA NextShellInv == ShellInv /\ [Next]_vars => ShellInv'
<1> SUFFICES ASSUME ShellInv, [Next]_vars PROVE ShellInv'
  OBVIOUS
<1>1. TypeOK' /\ NamesKnowTheirShell' /\ PipesKnowTheirSession'
  BY TypeStep, NameStep, PipeStep
<1>2. UnbornShellsHaveNoTee' /\ ReadPipesHaveWriters' /\ LivePidIsOwn'
  BY UnbornStep, ReadStep, OwnStep
<1>3. LivePidIsNotClosing' /\ LivePipesKeepTheirName'
  BY ClosingStep, KeepStep
<1>4. HookedShellsAreKnown' /\ LiveOutputWillBeRead' /\ NamesAreKnown'
  BY KnownStep, OutputStep, NamesStep
<1>5. QED
  BY <1>1, <1>2, <1>3, <1>4 DEF ShellInv

\* Helpers, pipes, registrations and readers keep the inductive invariant,
\* across every crash and launch of the agent.
THEOREM ShellInvariance == Spec => []ShellInv
BY InitShellInv, NextShellInv, PTL DEF Spec

\* The fields of the registry, of its sessions and of the shells they are for
\* have their types, and a session that waits for a pipe or reads one has it.
THEOREM ShellTypeCorrect == Spec => []TypeOK
BY ShellInvariance, PTL DEF ShellInv

\* SessionRegistry lists every hooked shell once helpers, registrations and
\* readers have run, through any number of crashes of the agent: its helper
\* has registered it, or recoverSessions has found its pipe; only a shell that
\* came between that search and the socket is missing.
THEOREM HookedListed == Spec => []HookedShellsAreListed
<1>1. ShellInv => HookedShellsAreListed
  <2> SUFFICES ASSUME ShellInv, Settled, NEW s \in Shells \ unseen,
                      shell[s] = "hooked"
               PROVE  \E i \in registry : pid[i] = PidOf[s]
    BY DEF HookedShellsAreListed
  <2>1. agent # "down" /\ ~ Arriving(PidOf[s])
    BY DEF Settled, Arriving
  <2>2. QED
    BY <2>1 DEF ShellInv, HookedShellsAreKnown, Staying, registry
<1>2. QED
  BY <1>1, ShellInvariance, PTL

\* Once things have settled a PTYSession reads whatever a live shell's tee
\* writes: no session's end and no launch removes the name of a pipe in use.
THEOREM LiveOutputRead == Spec => []LiveOutputIsRead
<1>1. ShellInv => LiveOutputIsRead
  <2> SUFFICES ASSUME ShellInv, Settled, NEW s \in Shells,
                      Running(s), tee[s] = "writing"
               PROVE  Holding(s, {"reading"}) # {}
    BY DEF LiveOutputIsRead
  <2>1. agent # "down" /\ ~ Arriving(PidOf[s]) /\ ~ Starting(PidOf[s])
    BY DEF Settled, Arriving, Starting
  <2>2. QED
    BY <2>1 DEF ShellInv, LiveOutputWillBeRead
<1>2. QED
  BY <1>1, ShellInvariance, PTL

\* A dead shell's pipe keeps its name, and with it the next shell of that pid
\* from its hook, only where a session still has the pipe or waits for it, or
\* where the agent never heard of the shell.
THEOREM StaleNamesStuck == Spec => []StaleNamesAreStuck
<1>1. ShellInv => StaleNamesAreStuck
  <2> SUFFICES ASSUME ShellInv, Settled, NEW p \in Pids,
                      name[p] # NoShell, name[p] \notin unseen
               PROVE  Holding(name[p], {"opening", "reading"}) # {}
    BY DEF StaleNamesAreStuck
  <2>1. agent # "down" /\ ~ Arriving(p) /\ ~ Starting(p)
    BY DEF Settled, Arriving, Starting
  <2>2. QED
    BY <2>1 DEF ShellInv, NamesAreKnown, Settled, Busy, Holding
<1>2. QED
  BY <1>1, ShellInvariance, PTL

-----------------------------------------------------------------------------
(***************************************************************************)
(* MacAgent's steps are ShellLifecycle's.                                  *)
(***************************************************************************)

LEMMA StepIsShellStep == [MacNext]_macVars => [Next]_vars
<1> SUFFICES ASSUME [MacNext]_macVars PROVE [Next]_vars
  OBVIOUS
<1>1. CASE LaunchLoads \/ LaunchGenerates
  BY <1>1 DEF LaunchLoads, LaunchGenerates, Next
<1>2. CASE SocketBinds \/ AgentCrashes \/ OtherStep
  BY <1>2 DEF SocketBinds, AgentCrashes, OtherStep, Next
<1>3. CASE SocketFails
  BY <1>3 DEF SocketFails
<1>4. ASSUME NEW busy \in SUBSET Attempts(Preferred), ServerBinds(busy)
      PROVE  UNCHANGED vars
  BY <1>4 DEF ServerBinds
<1>5. CASE PortSaved
  BY <1>5 DEF PortSaved
<1>6. CASE ShowQR
  BY <1>6 DEF ShowQR
<1>7. CASE UNCHANGED macVars
  BY <1>7 DEF macVars
<1>8. QED
  BY <1>1, <1>2, <1>3, <1>4, <1>5, <1>6, <1>7 DEF MacNext

\* Loading a secret, binding ports, pairing and the failures among them change
\* nothing that ShellLifecycle promises: the agent with them implements it.
THEOREM AgentRunsShells == MacSpec => Spec
<1>1. MacInit => Init
  BY DEF MacInit
<1>2. QED
  BY <1>1, StepIsShellStep, PTL DEF MacSpec, Spec

\* What holds of the shells holds of them in the whole agent.
LEMMA AgentShellInv == MacSpec => []ShellInv
BY AgentRunsShells, ShellInvariance, PTL

-----------------------------------------------------------------------------
(***************************************************************************)
(* Ports.                                                                  *)
(***************************************************************************)

\* A set of numbers that is not empty has a least one.
LEMMA LeastOf ==
  ASSUME NEW T, T \subseteq Nat, T # {}
  PROVE  \E p \in T : \A q \in T : p <= q
<1> DEFINE B == {0 .. p : p \in T}
<1>1. ASSUME NEW p \in T PROVE 0 .. p \in FiniteSubsetsOf(Nat)
  <2>1. 0 \in Int /\ p \in Int /\ 0 .. p \subseteq Nat
    OBVIOUS
  <2>2. QED
    BY <2>1, FS_Interval DEF FiniteSubsetsOf
<1>2. B \subseteq FiniteSubsetsOf(Nat) /\ B # {}
  BY <1>1
<1> HIDE DEF B
<1>3. PICK b \in B : \A c \in B : ~ (<<c, b>> \in StrictSubsetOrdering(Nat))
  BY <1>2, FS_StrictSubsetOrderingWellFounded, WFMin
<1>4. PICK p \in T : b = 0 .. p
  BY <1>3 DEF B
<1>5. ASSUME NEW q \in T, ~ (p <= q) PROVE FALSE
  <2>1. 0 .. q \in B
    BY DEF B
  <2>2. 0 .. q \subseteq 0 .. p /\ 0 .. q # 0 .. p /\ 0 .. p \subseteq Nat
    <3>1. p \in Nat /\ q \in Nat /\ q < p
      BY <1>5
    <3>2. p \in 0 .. p /\ p \notin 0 .. q
      BY <3>1
    <3>3. QED
      BY <3>1, <3>2
  <2>3. <<0 .. q, b>> \in StrictSubsetOrdering(Nat)
    BY <1>4, <2>2 DEF StrictSubsetOrdering
  <2>4. QED
    BY <1>3, <2>1, <2>3
<1>6. QED
  BY <1>5

\* The search for a port ends with one of those it tries, or with none, and
\* with the preferred one if nobody else has it.
LEMMA FreePortFound ==
  ASSUME NEW preferred \in Nat, NEW busy
  PROVE  /\ FreePort(preferred, busy) \in Attempts(preferred) \cup {0}
         /\ preferred \notin busy => FreePort(preferred, busy) = preferred
<1> DEFINE free == Attempts(preferred) \ busy
           IsLeast(p) == \A q \in free : p <= q
           least == CHOOSE p \in free : IsLeast(p)
<1>1. /\ free \subseteq Nat /\ free \subseteq Attempts(preferred)
      /\ \A q \in free : preferred <= q
  BY LaunchAssumption DEF Attempts
<1>2. preferred \notin busy => preferred \in free
  BY LaunchAssumption DEF Attempts
<1>3. FreePort(preferred, busy) = IF free = {} THEN 0 ELSE least
  BY DEF FreePort
<1> HIDE DEF free
<1>4. CASE free = {}
  BY <1>2, <1>3, <1>4
<1>5. CASE free # {}
  <2>1. \E p \in free : IsLeast(p)
    BY <1>1, <1>5, LeastOf
  <2> HIDE DEF IsLeast
  <2>2. least \in free /\ IsLeast(least)
    BY <2>1
  <2> HIDE DEF least
  <2>3. preferred \in free => least = preferred
    BY <1>1, <2>2 DEF IsLeast
  <2>4. QED
    BY <1>1, <1>2, <1>3, <1>5, <2>2, <2>3
<1>6. QED
  BY <1>4, <1>5

\* The ports that n launches, each preferring the one before it took, reach.
Reach(n) == DefaultPort .. DefaultPort + portAttempts * n - 1

\* One launch more reaches at least as far.
LEMMA ReachGrows ==
  ASSUME NEW n \in Nat
  PROVE  /\ Reach(n) \subseteq Reach(n + 1)
         /\ \A p \in Reach(n) \cup {DefaultPort} : Attempts(p) \subseteq Reach(n + 1)
<1> DEFINE d == portAttempts * n
<1>1. d \in Nat /\ portAttempts * (n + 1) = d + portAttempts
  BY LaunchAssumption
<1> HIDE DEF d
<1>2. /\ Reach(n) = DefaultPort .. DefaultPort + d - 1
      /\ Reach(n + 1) = DefaultPort .. DefaultPort + (d + portAttempts) - 1
  BY <1>1 DEF Reach, d
<1>3. QED
  BY <1>1, <1>2, LaunchAssumption DEF Attempts

\* The model has the ports that all its launches reach.
LEMMA ReachInPorts ==
  ASSUME NEW n \in 0 .. MaxCrashes + 1
  PROVE  Reach(n) \subseteq Ports
<1>1. n \in Nat /\ MaxCrashes + 1 \in Nat /\ n <= MaxCrashes + 1
  BY ShellsAssumption
<1> DEFINE m == MaxCrashes + 1
           k == m - n
<1>2. k \in Nat /\ m = n + k
  BY <1>1
<1> HIDE DEF k, m
<1>3. portAttempts * m = portAttempts * n + portAttempts * k
  BY <1>1, <1>2, LaunchAssumption
<1>4. portAttempts * n \in Nat /\ portAttempts * k \in Nat
  BY <1>1, <1>2, LaunchAssumption
<1>5. Ports = DefaultPort .. DefaultPort + portAttempts * m - 1
  BY DEF Ports, m
<1>6. QED
  BY <1>3, <1>4, <1>5, LaunchAssumption DEF Reach

-----------------------------------------------------------------------------
(***************************************************************************)
(* The inductive invariant of the launch.                                  *)
(***************************************************************************)

\* The crashes that came before the launch whose port may be saved.
Launches == IF server = "stopped" THEN crashes ELSE crashes + 1

LaunchTypes ==
  /\ {secret, stored, paired} \subseteq Secrets \cup {0}
  /\ server \in {"stopped", "bound", "saved", "failed"}
  /\ port \in Reach(crashes + 1) \cup {0}
  /\ wsPort \in Reach(Launches) \cup {0}
  /\ locked \in BOOLEAN
  /\ collided \in BOOLEAN

\* While the keychain has always answered, the agent and the phones have its
\* secret.
OneSecret ==
  ~ locked =>
    /\ secret # 0 => secret = stored
    /\ paired # 0 => paired = stored

\* While no launch has found it taken, the default port is the only one used.
OnePort == ~ collided => {port, wsPort} \subseteq {0, DefaultPort}

MacInv == LaunchTypes /\ OneSecret /\ OnePort

LEMMA InitMacInv == MacInit => MacInv
BY DEF MacInit, MacInv, LaunchTypes, OneSecret, OnePort

\* What leaves the launch alone leaves the number of crashes alone.
LEMMA CrashesStay ==
  ASSUME SocketBinds \/ OtherStep \/ UNCHANGED macVars
  PROVE  UNCHANGED <<crashes, launchVars, historyVars>>
<1>1. CASE SocketBinds
  BY <1>1 DEF SocketBinds, Listen
<1>2. CASE OtherStep /\ ShellsStep
  BY <1>2 DEF OtherStep, ShellsStep, NameTaken, Hook, HookFish, BrokenPipe, Exit
<1>3. CASE OtherStep /\ TasksStep
  BY <1>3 DEF OtherStep, TasksStep, Register, PipeOpens, TeeEnds, Admit, OpenPipe,
     EndOfPipe, ClosePipe, Remove
<1>4. CASE UNCHANGED macVars
  BY <1>4 DEF macVars, vars
<1>5. QED
  BY <1>1, <1>2, <1>3, <1>4 DEF OtherStep

\* The port a launch takes is one of those that this many launches reach, and
\* the default one if nobody has had it.
LEMMA BoundPort ==
  ASSUME crashes \in Nat, LaunchTypes, OnePort, server = "stopped",
         NEW busy, ServerBinds(busy)
  PROVE  /\ port' \in Reach(crashes + 1) \cup {0}
         /\ ~ collided' => port' \in {0, DefaultPort}
<1>1. Preferred \in Reach(crashes) \cup {DefaultPort}
  BY DEF Preferred, LaunchTypes, Launches
<1>2. Preferred \in Nat
  BY <1>1, LaunchAssumption DEF Reach
<1>3. Attempts(Preferred) \subseteq Reach(crashes + 1)
  BY <1>1, ReachGrows
<1>4. port' = FreePort(Preferred, busy)
  BY DEF ServerBinds
<1>5. ASSUME ~ collided' PROVE port' = DefaultPort
  <2>1. ~ collided /\ DefaultPort \notin busy
    BY <1>5 DEF ServerBinds
  <2>2. Preferred = DefaultPort
    BY <2>1 DEF OnePort, Preferred
  <2>3. QED
    BY <1>2, <1>4, <2>1, <2>2, FreePortFound
<1>6. QED
  BY <1>2, <1>3, <1>4, <1>5, FreePortFound

\* A secret made in this life of the agent is one of the model's.
LEMMA GeneratedIsSecret == TypeOK => Generated \in Secrets
BY ShellsAssumption DEF TypeOK, Generated, Secrets

\* No step leaves the types of the launch, and no port is further away than
\* the launches so far explain.
LEMMA TypesStep ==
  ASSUME ShellInv, MacInv, [MacNext]_macVars
  PROVE  LaunchTypes'
<1> USE DEF MacInv
<1>1. crashes \in Nat /\ Generated \in Secrets
  BY GeneratedIsSecret, ShellsAssumption DEF ShellInv, TypeOK
<1>2. Reach(crashes) \subseteq Reach(crashes + 1)
  BY <1>1, ReachGrows
<1>3. CASE LaunchLoads
  <2>1. UNCHANGED <<crashes, stored, paired, server, port, wsPort, locked, collided>>
    BY <1>3 DEF LaunchLoads, Launch, historyVars
  <2>2. secret' = stored
    BY <1>3 DEF LaunchLoads, Loaded
  <2>3. QED
    BY <2>1, <2>2 DEF LaunchTypes, Launches
<1>4. CASE LaunchGenerates
  <2>1. UNCHANGED <<crashes, paired, server, port, wsPort, collided>>
    BY <1>4 DEF LaunchGenerates, Launch
  <2>2. {secret', stored'} \subseteq Secrets \cup {0}
    BY <1>1, <1>4 DEF LaunchGenerates, Saved, LaunchTypes
  <2>3. locked' \in BOOLEAN
    BY <1>4 DEF LaunchGenerates
  <2>4. QED
    BY <2>1, <2>2, <2>3 DEF LaunchTypes, Launches
<1>5. CASE SocketFails
  <2>1. UNCHANGED <<crashes, secret, stored, paired, port, wsPort, locked, collided>>
    BY <1>5 DEF SocketFails, vars, historyVars
  <2>2. server = "stopped" /\ server' = "failed"
    BY <1>5 DEF SocketFails
  <2>3. QED
    BY <1>2, <2>1, <2>2 DEF LaunchTypes, Launches
<1>6. ASSUME NEW busy \in SUBSET Attempts(Preferred), ServerBinds(busy)
      PROVE  LaunchTypes'
  <2>1. UNCHANGED <<crashes, secret, stored, paired, wsPort, locked>>
    BY <1>6 DEF ServerBinds, vars
  <2>2. server = "stopped" /\ server' \in {"failed", "bound"}
    BY <1>6 DEF ServerBinds
  <2>3. port' \in Reach(crashes + 1) \cup {0}
    BY <1>1, <1>6, <2>2, BoundPort
  <2>4. collided' \in BOOLEAN
    BY <1>6 DEF ServerBinds
  <2>5. QED
    BY <1>2, <2>1, <2>2, <2>3, <2>4 DEF LaunchTypes, Launches
<1>7. CASE PortSaved
  <2>1. UNCHANGED <<crashes, secret, stored, paired, port, locked, collided>>
    BY <1>7 DEF PortSaved, vars, historyVars
  <2>2. server' = "saved" /\ wsPort' = port
    BY <1>7 DEF PortSaved
  <2>3. QED
    BY <2>1, <2>2 DEF LaunchTypes, Launches
<1>8. CASE ShowQR
  <2>1. UNCHANGED <<crashes, secret, stored, server, port, wsPort, locked, collided>>
    BY <1>8 DEF ShowQR, vars, historyVars
  <2>2. paired' = stored
    BY <1>8 DEF ShowQR
  <2>3. QED
    BY <2>1, <2>2 DEF LaunchTypes, Launches
<1>9. CASE AgentCrashes
  <2>1. UNCHANGED <<stored, paired, wsPort, locked, collided>>
    BY <1>9 DEF AgentCrashes, historyVars
  <2>2. /\ crashes' = crashes + 1
        /\ secret' = 0 /\ server' = "stopped" /\ port' = 0
    BY <1>9 DEF AgentCrashes, Crash
  <2>3. wsPort \in Reach(crashes + 1) \cup {0}
    BY <1>2 DEF LaunchTypes, Launches
  <2>4. QED
    BY <2>1, <2>2, <2>3 DEF LaunchTypes, Launches
<1>10. CASE SocketBinds \/ OtherStep \/ UNCHANGED macVars
  BY <1>10, CrashesStay DEF LaunchTypes, Launches, launchVars, historyVars
<1>11. QED
  BY <1>3, <1>4, <1>5, <1>6, <1>7, <1>8, <1>9, <1>10 DEF MacNext

LEMMA SecretStep ==
  ASSUME MacInv, [MacNext]_macVars
  PROVE  OneSecret'
<1> USE DEF MacInv
<1>1. CASE LaunchLoads
  BY <1>1 DEF LaunchLoads, Loaded, OneSecret, historyVars
<1>2. CASE LaunchGenerates
  <2> SUFFICES ASSUME ~ locked'
               PROVE  secret' = stored' /\ paired' = 0
    BY <1>2 DEF OneSecret
  <2>1. ~ locked /\ stored = 0 /\ stored' = Generated
    BY <1>2 DEF LaunchGenerates
  <2>2. secret' = Generated /\ paired' = paired
    BY <1>2 DEF LaunchGenerates
  <2>3. QED
    BY <2>1, <2>2 DEF OneSecret
<1>3. CASE SocketFails \/ PortSaved
  BY <1>3 DEF SocketFails, PortSaved, OneSecret, historyVars
<1>4. ASSUME NEW busy \in SUBSET Attempts(Preferred), ServerBinds(busy)
      PROVE  OneSecret'
  BY <1>4 DEF ServerBinds, OneSecret
<1>5. CASE ShowQR
  BY <1>5 DEF ShowQR, OneSecret, historyVars
<1>6. CASE AgentCrashes
  BY <1>6 DEF AgentCrashes, OneSecret, historyVars
<1>7. CASE SocketBinds \/ OtherStep \/ UNCHANGED macVars
  BY <1>7, CrashesStay DEF OneSecret, launchVars, historyVars
<1>8. QED
  BY <1>1, <1>2, <1>3, <1>4, <1>5, <1>6, <1>7 DEF MacNext

LEMMA PortStep ==
  ASSUME ShellInv, MacInv, [MacNext]_macVars
  PROVE  OnePort'
<1> USE DEF MacInv
<1>1. CASE LaunchLoads \/ LaunchGenerates
  BY <1>1 DEF LaunchLoads, LaunchGenerates, OnePort, historyVars
<1>2. CASE SocketFails \/ ShowQR
  BY <1>2 DEF SocketFails, ShowQR, OnePort, historyVars
<1>3. ASSUME NEW busy \in SUBSET Attempts(Preferred), ServerBinds(busy)
      PROVE  OnePort'
  <2>1. server = "stopped" /\ wsPort' = wsPort /\ (~ collided' => ~ collided)
    BY <1>3 DEF ServerBinds
  <2>2. ~ collided' => port' \in {0, DefaultPort}
    BY <1>3, <2>1, BoundPort, ShellsAssumption DEF ShellInv, TypeOK
  <2>3. QED
    BY <2>1, <2>2 DEF OnePort
<1>4. CASE PortSaved
  BY <1>4 DEF PortSaved, OnePort, historyVars
<1>5. CASE AgentCrashes
  BY <1>5 DEF AgentCrashes, OnePort, historyVars
<1>6. CASE SocketBinds \/ OtherStep \/ UNCHANGED macVars
  BY <1>6, CrashesStay DEF OnePort, launchVars, historyVars
<1>7. QED
  BY <1>1, <1>2, <1>3, <1>4, <1>5, <1>6 DEF MacNext

\* So does the agent's launch keep its own: the keychain's answers, the port
\* loop and the code a phone scans.
THEOREM MacInvariance == MacSpec => []MacInv
<1>1. ShellInv /\ MacInv /\ [MacNext]_macVars => MacInv'
  BY TypesStep, SecretStep, PortStep DEF MacInv
<1>2. QED
  BY <1>1, InitMacInv, AgentShellInv, PTL DEF MacSpec

-----------------------------------------------------------------------------
(***************************************************************************)
(* MacAgent's properties.                                                  *)
(***************************************************************************)

\* The secret, the ports and the server of a launch have their types; however
\* often other programs have pushed the server one range of ports further, the
\* port it has and the one the defaults keep are ports it can have tried.
THEOREM MacTypeCorrect == MacSpec => []MacTypeOK
<1>1. ShellInv /\ MacInv => MacTypeOK
  <2> SUFFICES ASSUME ShellInv, MacInv PROVE MacTypeOK
    OBVIOUS
  <2>1. /\ crashes \in 0 .. MaxCrashes + 1
        /\ crashes + 1 \in 0 .. MaxCrashes + 1
    BY ShellsAssumption DEF ShellInv, TypeOK
  <2>2. Reach(crashes + 1) \subseteq Ports /\ Reach(Launches) \subseteq Ports
    BY <2>1, ReachInPorts DEF Launches
  <2>3. QED
    BY <2>2 DEF MacTypeOK, ShellInv, MacInv, LaunchTypes
<1>2. QED
  BY <1>1, AgentShellInv, MacInvariance, PTL

\* A phone that has scanned a secret passes JWTManager's check in every later
\* life of the agent, as long as the keychain has answered every call.
THEOREM PairedVerifies == MacSpec => []PairedPhoneVerifies
<1>1. MacInv => PairedPhoneVerifies
  BY DEF MacInv, OneSecret, PairedPhoneVerifies
<1>2. QED
  BY <1>1, MacInvariance, PTL

\* The server is on the port tailscaled forwards to, as long as no launch has
\* found that port taken: a port saved in the defaults is then that one too.
THEOREM ServedForwarded == MacSpec => []ServedWhereForwarded
<1>1. MacInv => ServedWhereForwarded
  BY DEF MacInv, OnePort, ServedWhereForwarded
<1>2. QED
  BY <1>1, MacInvariance, PTL
=============================================================================
