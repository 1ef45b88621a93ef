------------------------------- MODULE Shell -------------------------------
(***************************************************************************)
(* The shell of Linux_Bash_Shell/src/main.c: its loop, the processes it    *)
(* forks, the terminal's signals and the job list that the handler of      *)
(* SIGTSTP fills.                                                          *)
(*                                                                         *)
(* No process leaves the shell's process group, so Ctrl-Z and Ctrl-C reach *)
(* the shell, the foreground command and every earlier job.  A pipeline is *)
(* one process here: the child that forks the stages and waits for them.   *)
(* A signal that is not blocked is handled before the shell's next step.   *)
(* When memory is read that was never written, or a builtin goes outside   *)
(* the list, the model ends: nothing is known of what comes after.         *)
(***************************************************************************)
EXTENDS Naturals, FiniteSets

CONSTANTS
  Pids,          \* process ids; one that was reaped may be given again
  Zero,          \* the id 0: to kill(2), every process of the group
  NoPid,         \* childPID's -1
  Junk,          \* what memory holds that was freed or never written
  MaxForks,      \* bounds a run: commands typed that fork
  MaxPresses     \* bounds a run: Ctrl-Z pressed

ASSUME ShellAssumption ==
  /\ IsFiniteSet(Pids)
  /\ Zero \notin Pids /\ NoPid \notin Pids /\ Junk \notin Pids /\ Zero # Junk
  /\ MaxForks \in Nat /\ MaxPresses \in Nat /\ Junk \notin Nat

VARIABLES
  at,            \* what runs under each process id
  stopped,       \* the processes that are stopped
  doomed,        \* ... those of them a SIGINT waits for
  serial,        \* the number of the command a process id was last given to
  forks,         \* the commands so far
  pc, kind, alive,  \* where main is, in a command of what kind, if it runs
  mask, prev, pending,  \* blocked signals, their saved set, signals due
  pid, childPID, nameOfJob,  \* main's globals; the name as a serial number
  array, used, size, jobNames,  \* the job list
  presses,       \* how often Ctrl-Z was pressed
  caught,        \* history: the stopped command an entry was made for, or 0
  missed         \* history: commands stopped before childPID named them

processes == <<at, stopped, doomed, serial, forks>>
signals == <<mask, prev, pending>>
jobs == <<array, used, size, jobNames, caught>>
vars == <<processes, pc, kind, alive, signals, pid, childPID, nameOfJob, jobs,
          presses, missed>>

Null == 0
Serials == 1 .. MaxForks
Places == {"prompt", "unmask", "fork", "record", "name", "wait", "suspend", "remask",
           "helper"}
ShellMask == {"TSTP", "INT"}
Slots == 0 .. size - 1
Entries == 0 .. MaxPresses

Init ==
  /\ at = [p \in Pids |-> "none"] /\ stopped = {} /\ doomed = {}
  /\ serial = [p \in Pids |-> 0] /\ forks = 0
  /\ pc = "prompt" /\ kind = "none" /\ alive = TRUE
  /\ mask = ShellMask /\ prev = {} /\ pending = {}
  /\ pid = NoPid /\ childPID = NoPid /\ nameOfJob = Null
  /\ array \in [{0} -> {Zero, Junk}] /\ used = 0 /\ size = 1
  /\ jobNames = [i \in Entries |-> 0] /\ caught = [i \in Entries |-> 0]
  /\ presses = 0 /\ missed = {}

-----------------------------------------------------------------------------
(* Signals *)

\* No signal is due that main has to handle before it goes on.
Ready == alive /\ "TSTP" \notin pending \ mask

\* A child stopped or ended: SIGCHLD stays due while it is blocked, and
\* wakes main in sigsuspend; anywhere else its empty handler is done at once.
Notified == IF "CHLD" \in mask \/ pc = "suspend" THEN pending \cup {"CHLD"} ELSE pending

Become(S, state) == [p \in Pids |-> IF p \in S THEN state ELSE at[p]]

\* Ctrl-Z.  A child still has the shell's handler until it resets it, and
\* its copy of nameOfJob may be NULL; a builtin's child blocks the signal.
CtrlZ ==
  \E halt \in {{p \in Pids \ stopped : at[p] \in {"default", "program"}}},
     crash \in {{p \in Pids : at[p] = "bare"}} :
    /\ alive /\ presses < MaxPresses
    /\ presses' = presses + 1
    /\ stopped' = stopped \cup halt
    /\ at' = Become(crash, "zombie")
    /\ pending' = {"TSTP"} \cup IF halt \cup crash = {} THEN pending ELSE Notified
    /\ missed' = IF pc = "record" /\ pid \in halt THEN missed \cup {serial[pid]} ELSE missed
    /\ UNCHANGED <<doomed, serial, forks, pc, kind, alive, mask, prev, pid, childPID,
                   nameOfJob, jobs>>

\* Ctrl-C ends what runs; a stopped process ends when it is continued.
CtrlC ==
  \E hit \in {{p \in Pids : at[p] = "program"}} :
    /\ alive
    /\ at' = Become(hit \ stopped, "zombie")
    /\ doomed' = doomed \cup (hit \cap stopped)
    /\ pending' = IF hit \subseteq stopped THEN pending ELSE Notified
    /\ UNCHANGED <<stopped, serial, forks, pc, kind, alive, mask, prev, pid, childPID,
                   nameOfJob, jobs, presses, missed>>

\* Mutant: a full list is not doubled.
GrownNot == {array}

\* insertElement: the new half of a list that doubles is not initialised.
Grown ==
  IF used = size THEN {[i \in 0 .. 2 * size - 1 |-> IF i < size THEN array[i] ELSE f[i]] :
                         f \in [size .. 2 * size - 1 -> {Zero, Junk}]}
                 ELSE {array}

\* The foreground command is stopped, and no entry names its process id.
FirstStop == /\ pc = "wait" /\ kind = "command" /\ childPID \in stopped
             /\ \A i \in 0 .. used - 1 : array[i] # childPID

sigtstp_handler ==
  /\ alive /\ "TSTP" \in pending \ mask
  /\ pending' = pending \ {"TSTP"}
  /\ nameOfJob # Null
  /\ \E grown \in Grown :
       /\ array' = [grown EXCEPT ![used] = childPID]
       /\ size' = Cardinality(DOMAIN grown)
  /\ used' = used + 1
  /\ jobNames' = [jobNames EXCEPT ![used] = nameOfJob]
  /\ caught' = [i \in Entries |->
                  IF i = used THEN IF FirstStop THEN serial[childPID] ELSE 0
                  ELSE IF i < used /\ array[i] = childPID THEN 0 ELSE caught[i]]
  /\ UNCHANGED <<processes, pc, kind, alive, mask, prev, pid, childPID, nameOfJob,
                 presses, missed>>

\* strcpy reads through NULL: no command has been named yet.
HandlerCrash ==
  /\ alive /\ "TSTP" \in pending \ mask /\ nameOfJob = Null
  /\ alive' = FALSE
  /\ UNCHANGED <<processes, pc, kind, signals, pid, childPID, nameOfJob, jobs,
                 presses, missed>>

-----------------------------------------------------------------------------
(* A command or a pipeline in the foreground *)

AtPrompt == alive /\ pc = "prompt"

\* Mutant: the signals are unblocked (SIG_UNBLOCK for SIG_BLOCK).
BlockChildNot(k) ==
  /\ AtPrompt /\ forks < MaxForks
  /\ kind' = k /\ pc' = "unmask"
  /\ prev' = mask /\ mask' = mask \ {"CHLD"}
  /\ UNCHANGED <<processes, alive, pending, pid, childPID, nameOfJob, jobs, presses, missed>>

BlockChild(k) ==
  /\ AtPrompt /\ forks < MaxForks
  /\ kind' = k /\ pc' = "unmask"
  /\ prev' = mask /\ mask' = mask \cup {"CHLD"}
  /\ UNCHANGED <<processes, alive, pending, pid, childPID, nameOfJob, jobs, presses, missed>>

Unmask ==
  /\ alive /\ pc = "unmask"
  /\ mask' = mask \ ShellMask /\ pc' = "fork"
  /\ UNCHANGED <<processes, kind, alive, prev, pending, pid, childPID, nameOfJob, jobs, presses, missed>>

Spawn(p, state) ==
  /\ at[p] = "none"
  /\ at' = [at EXCEPT ![p] = state]
  /\ serial' = [serial EXCEPT ![p] = forks + 1] /\ forks' = forks + 1
  /\ pid' = p

Fork(p) ==
  /\ Ready /\ pc = "fork"
  /\ Spawn(p, IF nameOfJob = Null THEN "bare" ELSE "forked")
  /\ pc' = IF kind = "command" THEN "record" ELSE "wait"
  /\ UNCHANGED <<stopped, doomed, kind, alive, signals, childPID, nameOfJob, jobs,
                 presses, missed>>

\* Mutant: the process id is not stored.
RecordNot ==
  /\ Ready /\ pc = "record"
  /\ pc' = "name"
  /\ UNCHANGED <<processes, kind, alive, signals, pid, childPID, nameOfJob, jobs, presses, missed>>

Record ==
  /\ Ready /\ pc = "record"
  /\ childPID' = pid /\ pc' = "name"
  /\ UNCHANGED <<processes, kind, alive, signals, pid, nameOfJob, jobs, presses, missed>>

Name ==
  /\ Ready /\ pc = "name"
  /\ nameOfJob' = serial[pid] /\ pc' = "wait"
  /\ UNCHANGED <<processes, kind, alive, signals, pid, childPID, jobs, presses, missed>>

\* Mutant: waitpid without WUNTRACED.
WaitForEnd ==
  /\ Ready /\ pc = "wait" /\ at[pid] = "zombie"
  /\ at' = [at EXCEPT ![pid] = "none"] /\ mask' = prev /\ pc' = "suspend"
  /\ UNCHANGED <<stopped, doomed, serial, forks, kind, alive, prev, pending, pid, childPID,
                 nameOfJob, jobs, presses, missed>>

\* waitpid, with WUNTRACED for a command only; then into sigsuspend(&prev).
Wait ==
  /\ Ready /\ pc = "wait"
  /\ \/ at[pid] = "zombie" /\ at' = [at EXCEPT ![pid] = "none"]
     \/ kind = "command" /\ pid \in stopped /\ at' = at
  /\ mask' = prev /\ pc' = "suspend"
  /\ UNCHANGED <<stopped, doomed, serial, forks, kind, alive, prev, pending, pid, childPID,
                 nameOfJob, jobs, presses, missed>>

\* sigsuspend returns when a signal that prev lets through was handled, and
\* puts the mask back.
Suspend ==
  /\ alive /\ pc = "suspend"
  /\ pending \ mask # {}
  /\ pending' = pending \ {"CHLD"}
  /\ mask' = (prev \ ShellMask) \cup {"CHLD"} /\ pc' = "remask"
  /\ UNCHANGED <<processes, kind, alive, prev, pid, childPID, nameOfJob, jobs, presses,
                 missed>>

\* Mutant: the terminal's signals are not blocked again.
RemaskNot ==
  /\ Ready /\ pc = "remask"
  /\ mask' = mask \ {"CHLD"} /\ pending' = pending \ {"CHLD"}
  /\ nameOfJob' = IF kind = "command" THEN Junk ELSE nameOfJob
  /\ pc' = "prompt"
  /\ UNCHANGED <<processes, kind, alive, prev, pid, childPID, jobs, presses, missed>>

\* The masks of the prompt; the line nameOfJob points into is freed.
Remask ==
  /\ Ready /\ pc = "remask"
  /\ mask' = (mask \ {"CHLD"}) \cup ShellMask /\ pending' = pending \ {"CHLD"}
  /\ nameOfJob' = IF kind = "command" THEN Junk ELSE nameOfJob
  /\ pc' = "prompt"
  /\ UNCHANGED <<processes, kind, alive, prev, pid, childPID, jobs, presses, missed>>

-----------------------------------------------------------------------------
(* The children *)

ResetHandler(p) ==
  /\ at[p] \in {"bare", "forked"}
  /\ at' = [at EXCEPT ![p] = "default"]
  /\ UNCHANGED <<stopped, doomed, serial, forks, pc, kind, alive, signals, pid, childPID,
                 nameOfJob, jobs, presses, missed>>

Exec(p) ==
  /\ at[p] = "default" /\ p \notin stopped
  /\ at' = [at EXCEPT ![p] = "program"]
  /\ UNCHANGED <<stopped, doomed, serial, forks, pc, kind, alive, signals, pid, childPID,
                 nameOfJob, jobs, presses, missed>>

\* The program is not found, or strcmp reads an argument that a redirection
\* nulled; a program ends; a builtin's child ends, the one of "pwd x" (which
\* goes on as a second shell) with its own exit.
End(p) ==
  /\ at[p] \in {"default", "program", "builtin", "shell"} /\ p \notin stopped
  /\ at' = [at EXCEPT ![p] = "zombie"]
  /\ pending' = Notified
  /\ UNCHANGED <<stopped, doomed, serial, forks, pc, kind, alive, mask, prev, pid, childPID,
                 nameOfJob, jobs, presses, missed>>

-----------------------------------------------------------------------------
(* Builtins, with the terminal's signals blocked *)

\* help and pwd print in a child, which main waits for without WUNTRACED.
ForkHelper(p, state) ==
  /\ AtPrompt /\ forks < MaxForks
  /\ Spawn(p, state)
  /\ kind' = "builtin" /\ pc' = "helper"
  /\ UNCHANGED <<stopped, doomed, alive, signals, childPID, nameOfJob, jobs, presses, missed>>

WaitHelper ==
  /\ alive /\ pc = "helper" /\ at[pid] = "zombie"
  /\ at' = [at EXCEPT ![pid] = "none"] /\ pc' = "prompt"
  /\ UNCHANGED <<stopped, doomed, serial, forks, kind, alive, signals, pid, childPID,
                 nameOfJob, jobs, presses, missed>>

\* kill(p, SIGKILL) and waitpid(p) on what may be a child or not.
KillChild(p) ==
  /\ at' = [at EXCEPT ![p] = "none"]
  /\ stopped' = stopped \ {p} /\ doomed' = doomed \ {p}

\* Mutant: the entry stays.
KillJobKeeps(i) ==
  /\ AtPrompt /\ i \in Slots /\ array[i] \in Pids
  /\ KillChild(array[i])
  /\ UNCHANGED <<serial, forks, pc, kind, alive, signals, pid, childPID, nameOfJob, jobs,
                 presses, missed>>

\* "kill %i": the entry becomes 0.
KillJob(i) ==
  /\ AtPrompt /\ i \in Slots /\ array[i] \in Pids
  /\ KillChild(array[i])
  /\ array' = [array EXCEPT ![i] = Zero]
  /\ UNCHANGED <<serial, forks, pc, kind, alive, signals, pid, childPID, nameOfJob, used,
                 size, jobNames, caught, presses, missed>>

\* "kill p": every entry of p becomes 0.
KillPid(p) ==
  /\ AtPrompt
  /\ KillChild(p)
  /\ array' = [i \in Slots |-> IF array[i] = p THEN Zero ELSE array[i]]
  /\ UNCHANGED <<serial, forks, pc, kind, alive, signals, pid, childPID, nameOfJob, used,
                 size, jobNames, caught, presses, missed>>

\* "fg %i": SIGCONT, and back to the prompt at once.
Continue(i) ==
  /\ AtPrompt /\ i \in Slots /\ array[i] # Junk
  /\ \E S \in {IF array[i] = Zero THEN Pids ELSE {array[i]}} :
       /\ stopped' = stopped \ S /\ doomed' = doomed \ S
       /\ at' = Become(doomed \cap S, "zombie")
  /\ UNCHANGED <<serial, forks, pc, kind, alive, signals, pid, childPID, nameOfJob, jobs,
                 presses, missed>>

\* The shell ends: exit; NULL from readline at the end of the input, or the
\* missing argument of color; kill on 0, which is the whole group;
\* kill or fg on an entry never written or outside the list.
Leave ==
  /\ AtPrompt
  /\ alive' = FALSE
  /\ UNCHANGED <<processes, pc, kind, signals, pid, childPID, nameOfJob, jobs,
                 presses, missed>>

-----------------------------------------------------------------------------
MainStep ==
  \/ Unmask \/ \E p \in Pids : Fork(p)
  \/ Record \/ Name \/ Wait \/ Suspend \/ Remask \/ WaitHelper
  \/ sigtstp_handler \/ HandlerCrash

User ==
  \/ CtrlZ \/ CtrlC \/ Leave
  \/ \E k \in {"command", "pipe"} : BlockChild(k)
  \/ \E p \in Pids : \/ KillPid(p)
                     \/ \E state \in {"builtin", "shell"} : ForkHelper(p, state)
  \/ \E i \in Entries : KillJob(i) \/ Continue(i)

Child(p) == ResetHandler(p) \/ Exec(p) \/ End(p)

Next == MainStep \/ User \/ \E p \in Pids : Child(p)

Spec == Init /\ [][Next]_vars

\* The shell goes on; whether a program ends, and what is typed, is open.
FairSpec == Spec /\ WF_vars(MainStep)

-----------------------------------------------------------------------------
(* Properties *)

\* The types; only a process that runs can be stopped.
TypeOK ==
  /\ at \in [Pids -> {"none", "bare", "forked", "default", "program", "builtin", "shell",
                      "zombie"}]
  /\ stopped \subseteq {p \in Pids : at[p] \in {"default", "program"}}
  /\ doomed \subseteq stopped
  /\ serial \in [Pids -> 0 .. MaxForks] /\ forks \in 0 .. MaxForks
  /\ pc \in Places /\ kind \in {"none", "command", "pipe", "builtin"} /\ alive \in BOOLEAN
  /\ mask \subseteq ShellMask \cup {"CHLD"} /\ prev \subseteq ShellMask
  /\ pending \subseteq {"TSTP", "CHLD"}
  /\ pid \in Pids \cup {NoPid} /\ childPID \in Pids \cup {NoPid}
  /\ nameOfJob \in 0 .. MaxForks \cup {Junk}
  /\ used \in Nat /\ size \in Nat \ {0} /\ used <= size /\ used <= presses
  /\ array \in [Slots -> Pids \cup {Zero, Junk}]
  /\ jobNames \in [Entries -> 0 .. MaxForks \cup {Junk}]
  /\ caught \in [Entries -> 0 .. MaxForks]
  /\ presses \in 0 .. MaxPresses /\ missed \subseteq Serials

\* The shell goes to sleep in sigsuspend (main.c:352, 413) only with the
\* SIGCHLD of the child it has waited for still due: none is taken earlier,
\* whatever the children and the terminal do meanwhile.
SuspendIsDue == alive /\ pc = "suspend" => "CHLD" \in pending

\* The handler that fills the list (main.c:65-68) never runs while a builtin
\* works on the list or waits for its child: the list is quiet at the prompt.
ListQuietAtPrompt == [][(pc \in {"prompt", "helper"}) => (used' = used)]_vars

\* A command that Ctrl-Z stopped is in the list when the prompt is back, so
\* that fg and kill reach it -- unless it was stopped before main had put its
\* process id into childPID (main.c:362-409).
StoppedIsListed ==
  alive /\ pc = "prompt" /\ "TSTP" \notin pending =>
    \A p \in stopped : serial[p] \notin missed => \E i \in 0 .. used - 1 : array[i] = p

\* An entry made while main waited for a command that the Ctrl-Z had stopped,
\* and not made a second time, names that command's process, which no waitpid
\* has reaped, and carries its name: kill and fg on it never reach a process
\* that was given the same id later.
EntryIsItsCommand ==
  alive => \A i \in 0 .. used - 1 :
    caught[i] # 0 /\ array[i] # Zero =>
      /\ array[i] \in Pids /\ at[array[i]] # "none"
      /\ serial[array[i]] = caught[i] /\ jobNames[i] = caught[i]

\* When the command that main waits for ends or stops, and when a pipeline or
\* the child of a builtin ends, the prompt comes back.
PromptReturns ==
  /\ pc \in {"wait", "helper"}
  /\ at[pid] = "zombie" \/ (kind = "command" /\ pid \in stopped)
  ~> pc = "prompt" \/ ~alive
=============================================================================
