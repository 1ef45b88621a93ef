---------------------------- MODULE Shell_proofs ----------------------------
(***************************************************************************)
(* Theorems about Shell, for any process ids, any number of commands and   *)
(* any number of times that Ctrl-Z is pressed.                             *)
(***************************************************************************)
EXTENDS Shell, FiniteSetTheorems, TLAPS

-----------------------------------------------------------------------------
(* The loop of main: masks, globals and process ids, place by place *)

\* What main has blocked, whom it has forked and what its globals say, at
\* each place of its loop (main.c:294-302, 351-363, 409-423).
Flow ==
  /\ pc \in {"prompt", "helper"} => mask = {"TSTP", "INT"}
  /\ pc = "unmask" => mask = {"TSTP", "INT", "CHLD"} /\ prev = {"TSTP", "INT"}
  /\ pc \in {"fork", "record", "name", "wait", "remask"} =>
       mask = {"CHLD"} /\ prev = {"TSTP", "INT"}
  /\ pc = "suspend" => mask = {"TSTP", "INT"} /\ prev = {"TSTP", "INT"}
  /\ pc \in {"unmask", "fork"} => kind \in {"command", "pipe"} /\ forks < MaxForks
  /\ pc \in {"record", "name"} => kind = "command"
  /\ pc = "record" => serial[pid] \in Serials
  /\ pc \in {"wait", "suspend", "remask"} => kind \in {"command", "pipe"}
  /\ pc \in {"record", "name", "wait", "suspend", "remask", "helper"} => pid \in Pids
  /\ pc \in {"name", "wait", "suspend", "remask"} /\ kind = "command" => childPID = pid
  /\ pc = "wait" /\ kind = "command" => nameOfJob = serial[pid]
  /\ nameOfJob # Null => childPID \in Pids

\* Each Ctrl-Z makes one entry at most (main.c:65-68).
Budget == used + (IF "TSTP" \in pending THEN 1 ELSE 0) <= presses

Core == TypeOK /\ Flow /\ Budget

LEMMA CoreInit == Init => Core
<1> SUFFICES ASSUME Init PROVE Core
  OBVIOUS
<1> USE ShellAssumption DEF Init
<1>1. TypeOK
  <2>1. Slots = {0}
    BY DEF Slots
  <2>2. array \in [Slots -> Pids \cup {Zero, Junk}]
    BY <2>1
  <2> QED
    BY <2>2 DEF TypeOK, ShellMask, Places, Null, Entries
<1>2. Flow
  BY DEF Flow, ShellMask
<1>3. Budget
  BY DEF Budget
<1> QED
  BY <1>1, <1>2, <1>3 DEF Core

\* A list that grows keeps its entries; the others were never written.
LEMMA GrownProperties ==
  ASSUME TypeOK, NEW grown \in Grown
  PROVE  \E n \in Nat \ {0} :
           /\ used < n /\ size <= n /\ n = Cardinality(DOMAIN grown)
           /\ grown \in [0 .. n - 1 -> Pids \cup {Zero, Junk}]
           /\ \A i \in Slots : grown[i] = array[i]
           /\ \A i \in size .. n - 1 : grown[i] \in {Zero, Junk}
<1> USE DEF TypeOK, Slots
<1>1. CASE used = size
  <2>1. PICK f \in [size .. 2 * size - 1 -> {Zero, Junk}] :
               grown = [i \in 0 .. 2 * size - 1 |-> IF i < size THEN array[i] ELSE f[i]]
    BY <1>1 DEF Grown
  <2>2. grown \in [0 .. 2 * size - 1 -> Pids \cup {Zero, Junk}]
    BY <2>1
  <2>3. 2 * size \in Nat \ {0} /\ used < 2 * size /\ size <= 2 * size
    BY <1>1
  <2>4. Cardinality(DOMAIN grown) = 2 * size
    BY <2>2, <2>3, FS_Interval
  <2>5. /\ \A i \in Slots : grown[i] = array[i]
        /\ \A i \in size .. 2 * size - 1 : grown[i] \in {Zero, Junk}
    BY <2>1
  <2> WITNESS 2 * size \in Nat \ {0}
  <2> QED
    BY <2>2, <2>3, <2>4, <2>5
<1>2. CASE used # size
  <2>1. grown = array
    BY <1>2 DEF Grown
  <2>2. Cardinality(DOMAIN grown) = size
    BY <2>1, FS_Interval
  <2> QED
    BY <1>2, <2>1, <2>2
<1> QED
  BY <1>1, <1>2

\* Every step keeps the types (main.c as a whole).
LEMMA TypeStep == ASSUME Core, [Next]_vars PROVE TypeOK'
<1> USE ShellAssumption
<1> USE DEF Core, TypeOK, ShellMask, Slots, processes, signals, jobs
<1>1. CASE UNCHANGED vars
  BY <1>1 DEF vars
<1>2. CASE CtrlZ
  <2>1. missed' \subseteq Serials
    BY <1>2 DEF CtrlZ, Flow
  <2>2. /\ at' \in [Pids -> {"none", "bare", "forked", "default", "program", "builtin",
                            "shell", "zombie"}]
        /\ stopped' \subseteq {p \in Pids : at'[p] \in {"default", "program"}}
        /\ doomed' \subseteq stopped'
    BY <1>2 DEF CtrlZ, Become
  <2>3. pending' \subseteq {"TSTP", "CHLD"} /\ presses' \in 0 .. MaxPresses /\ used <= presses'
    BY <1>2 DEF CtrlZ, Notified
  <2> QED
    BY <1>2, <2>1, <2>2, <2>3 DEF CtrlZ
<1>3. CASE CtrlC
  BY <1>3 DEF CtrlC, Become, Notified
<1>4. CASE sigtstp_handler
  <2>1. PICK grown \in Grown : /\ array' = [grown EXCEPT ![used] = childPID]
                               /\ size' = Cardinality(DOMAIN grown)
    BY <1>4 DEF sigtstp_handler
  <2>2. PICK n \in Nat \ {0} :
           /\ used < n /\ n = Cardinality(DOMAIN grown)
           /\ grown \in [0 .. n - 1 -> Pids \cup {Zero, Junk}]
    BY GrownProperties
  <2>3. used + 1 <= presses /\ used' = used + 1 /\ presses' = presses
    BY <1>4 DEF sigtstp_handler, Budget
  <2>4. /\ size' \in Nat \ {0} /\ used' \in Nat /\ used' <= size' /\ used' <= presses'
        /\ array' \in [0 .. size' - 1 -> Pids \cup {Zero, Junk}]
    <3>1. childPID \in Pids
      BY <1>4 DEF sigtstp_handler, Flow
    <3>2. used \in Nat
      OBVIOUS
    <3>3. array' \in [0 .. n - 1 -> Pids \cup {Zero, Junk}]
      BY ONLY <2>1, <2>2, <3>1, <3>2
    <3> QED
      BY ONLY <2>1, <2>2, <2>3, <3>2, <3>3
  <2>5. /\ jobNames' \in [Entries -> 0 .. MaxForks \cup {Junk}]
        /\ caught' \in [Entries -> 0 .. MaxForks]
    BY <1>4 DEF sigtstp_handler, Entries, FirstStop
  <2> QED
    BY <1>4, <2>4, <2>5 DEF sigtstp_handler
<1>5. CASE HandlerCrash
  BY <1>5 DEF HandlerCrash
<1>6. ASSUME NEW k \in {"command", "pipe"}, BlockChild(k) PROVE TypeOK'
  BY <1>6 DEF BlockChild, AtPrompt, Flow, Places
<1>7. CASE Unmask
  BY <1>7 DEF Unmask, Places
<1>8. ASSUME NEW p \in Pids, Fork(p) PROVE TypeOK'
  BY <1>8 DEF Fork, Spawn, Flow, Places
<1>9. CASE Record
  BY <1>9 DEF Record, Flow, Places
<1>10. CASE Name
  BY <1>10 DEF Name, Flow, Places
<1>11. CASE Wait
  <2>1. /\ at' \in [Pids -> {"none", "bare", "forked", "default", "program", "builtin",
                            "shell", "zombie"}]
        /\ stopped' \subseteq {p \in Pids : at'[p] \in {"default", "program"}}
    BY <1>11, SMTT(30) DEF Wait, Flow
  <2>2. mask' \subseteq ShellMask \cup {"CHLD"} /\ pc' \in Places
    BY <1>11 DEF Wait, Places
  <2> QED
    BY <1>11, <2>1, <2>2 DEF Wait
<1>12. CASE Suspend
  BY <1>12 DEF Suspend, Places
<1>13. CASE Remask
  BY <1>13 DEF Remask, Places
<1>14. ASSUME NEW p \in Pids, ResetHandler(p) PROVE TypeOK'
  BY <1>14 DEF ResetHandler
<1>15. ASSUME NEW p \in Pids, Exec(p) PROVE TypeOK'
  BY <1>15 DEF Exec
<1>16. ASSUME NEW p \in Pids, End(p) PROVE TypeOK'
  BY <1>16 DEF End, Notified
<1>17. ASSUME NEW p \in Pids, NEW state \in {"builtin", "shell"}, ForkHelper(p, state)
       PROVE  TypeOK'
  <2>1. state \in {"none", "bare", "forked", "default", "program", "builtin", "shell", "zombie"}
    OBVIOUS
  <2>2. /\ at' \in [Pids -> {"none", "bare", "forked", "default", "program", "builtin",
                            "shell", "zombie"}]
        /\ stopped' \subseteq {q \in Pids : at'[q] \in {"default", "program"}}
    BY <1>17, <2>1 DEF ForkHelper, Spawn
  <2>3. serial' \in [Pids -> 0 .. MaxForks] /\ forks' \in 0 .. MaxForks
    BY <1>17 DEF ForkHelper, Spawn
  <2> QED
    BY <1>17, <2>2, <2>3 DEF ForkHelper, Spawn, Places
<1>18. CASE WaitHelper
  BY <1>18 DEF WaitHelper, Flow, Places
<1>19. ASSUME NEW i \in Entries, KillJob(i) PROVE TypeOK'
  BY <1>19 DEF KillJob, KillChild
<1>20. ASSUME NEW p \in Pids, KillPid(p) PROVE TypeOK'
  BY <1>20 DEF KillPid, KillChild
<1>21. ASSUME NEW i \in Entries, Continue(i) PROVE TypeOK'
  BY <1>21 DEF Continue, Become
<1>22. CASE Leave
  BY <1>22 DEF Leave
<1> HIDE DEF Core, TypeOK, ShellMask, Slots, processes, signals, jobs
<1> QED
  BY <1>1, <1>2, <1>3, <1>4, <1>5, <1>6, <1>7, <1>8, <1>9, <1>10, <1>11, <1>12, <1>13,
     <1>14, <1>15, <1>16, <1>17, <1>18, <1>19, <1>20, <1>21, <1>22
  DEF Next, MainStep, User, Child

\* A process id is given again only when its process was reaped; what main
\* knows of the command in the foreground stays true (main.c:362-410).
LEMMA FlowStep == ASSUME Core, [Next]_vars PROVE Flow'
<1> USE ShellAssumption
<1> USE DEF Core, TypeOK, Flow, ShellMask, processes, signals, jobs, Null, Serials
<1>1. CASE UNCHANGED vars
  BY <1>1 DEF vars
<1>2. CASE CtrlZ
  BY <1>2 DEF CtrlZ
<1>3. CASE CtrlC
  BY <1>3 DEF CtrlC
<1>4. CASE sigtstp_handler
  BY <1>4 DEF sigtstp_handler
<1>5. CASE HandlerCrash
  BY <1>5 DEF HandlerCrash
<1>6. ASSUME NEW k \in {"command", "pipe"}, BlockChild(k) PROVE Flow'
  BY <1>6 DEF BlockChild, AtPrompt
<1>7. CASE Unmask
  BY <1>7 DEF Unmask
<1>8. ASSUME NEW p \in Pids, Fork(p) PROVE Flow'
  BY <1>8 DEF Fork, Spawn
<1>9. CASE Record
  BY <1>9 DEF Record
<1>10. CASE Name
  BY <1>10 DEF Name
<1>11. CASE Wait
  BY <1>11 DEF Wait
<1>12. CASE Suspend
  BY <1>12 DEF Suspend
<1>13. CASE Remask
  <2>1. mask' = {"TSTP", "INT"} /\ pc' = "prompt"
    BY <1>13 DEF Remask
  <2>2. nameOfJob' # Null => childPID' \in Pids
    BY <1>13 DEF Remask
  <2> QED
    BY <2>1, <2>2
<1>14. ASSUME NEW p \in Pids, ResetHandler(p) \/ Exec(p) \/ End(p) PROVE Flow'
  BY <1>14 DEF ResetHandler, Exec, End
<1>15. ASSUME NEW p \in Pids, NEW state \in {"builtin", "shell"}, ForkHelper(p, state)
       PROVE  Flow'
  BY <1>15 DEF ForkHelper, AtPrompt, Spawn
<1>16. CASE WaitHelper
  BY <1>16 DEF WaitHelper
<1>17. ASSUME NEW i \in Entries, KillJob(i) \/ Continue(i) PROVE Flow'
  BY <1>17 DEF KillJob, Continue, AtPrompt
<1>18. ASSUME NEW p \in Pids, KillPid(p) PROVE Flow'
  BY <1>18 DEF KillPid, AtPrompt
<1>19. CASE Leave
  BY <1>19 DEF Leave
<1> HIDE DEF Core, TypeOK, Flow, ShellMask, processes, signals, jobs
<1> QED
  BY <1>1, <1>2, <1>3, <1>4, <1>5, <1>6, <1>7, <1>8, <1>9, <1>10, <1>11, <1>12, <1>13,
     <1>14, <1>15, <1>16, <1>17, <1>18, <1>19
  DEF Next, MainStep, User, Child

\* Only a Ctrl-Z makes a SIGTSTP due, and each run of the handler takes one.
LEMMA BudgetStep == ASSUME Core, [Next]_vars PROVE Budget'
<1> USE DEF Core, TypeOK, Budget, processes, signals, jobs
<1>1. CASE UNCHANGED vars
  BY <1>1 DEF vars
<1>2. CASE CtrlZ
  BY <1>2 DEF CtrlZ
<1>3. CASE CtrlC
  BY <1>3 DEF CtrlC, Notified
<1>4. CASE sigtstp_handler
  BY <1>4 DEF sigtstp_handler
<1>5. ASSUME UNCHANGED <<used, presses>>, pending' \subseteq pending \cup {"CHLD"}
      PROVE  Budget'
  BY <1>5
<1>6. ASSUME NEW p \in Pids, Child(p) PROVE Budget'
  BY <1>5, <1>6 DEF Child, ResetHandler, Exec, End, Notified
<1>7. CASE Unmask \/ (\E p \in Pids : Fork(p)) \/ Record \/ Name \/ Wait \/ Suspend \/ Remask
           \/ WaitHelper \/ HandlerCrash \/ Leave
  BY <1>5, <1>7 DEF Unmask, Fork, Record, Name, Wait, Suspend, Remask, WaitHelper,
     HandlerCrash, Leave
<1>8. ASSUME NEW k \in {"command", "pipe"}, BlockChild(k) PROVE Budget'
  BY <1>5, <1>8 DEF BlockChild
<1>9. ASSUME NEW p \in Pids, NEW state \in {"builtin", "shell"}, ForkHelper(p, state)
      PROVE  Budget'
  BY <1>5, <1>9 DEF ForkHelper
<1>10. ASSUME NEW i \in Entries, KillJob(i) \/ Continue(i) PROVE Budget'
  BY <1>5, <1>10 DEF KillJob, Continue
<1>11. ASSUME NEW p \in Pids, KillPid(p) PROVE Budget'
  BY <1>5, <1>11 DEF KillPid
<1> HIDE DEF Core, TypeOK, Budget, processes, signals, jobs
<1> QED
  BY <1>1, <1>2, <1>3, <1>4, <1>6, <1>7, <1>8, <1>9, <1>10, <1>11
  DEF Next, MainStep, User

LEMMA CoreStep == ASSUME Core, [Next]_vars PROVE Core'
  BY TypeStep, FlowStep, BudgetStep DEF Core

\* The shell's variables keep their types; only a process that runs is stopped.
THEOREM TypeCorrect == Spec => []TypeOK
<1>1. Core => TypeOK
  BY DEF Core
<1> QED
  BY <1>1, CoreInit, CoreStep, PTL DEF Spec

\* Core holds always.
THEOREM CoreHolds == Spec => []Core
  BY CoreInit, CoreStep, PTL DEF Spec

-----------------------------------------------------------------------------
(* The list at the prompt, and the sleep in sigsuspend *)

\* At the prompt the SIGTSTP is blocked, and nothing but its handler makes
\* an entry (main.c:65-68, 78, 254-292, 423).
THEOREM QuietList == Spec => ListQuietAtPrompt
<1>1. Core /\ [Next]_vars => [(pc \in {"prompt", "helper"}) => (used' = used)]_vars
  <2> SUFFICES ASSUME Core, Next, pc \in {"prompt", "helper"}
               PROVE  used' = used
    OBVIOUS
  <2> USE DEF jobs
  <2>1. ~sigtstp_handler
    BY DEF Core, Flow, sigtstp_handler
  <2>2. CASE \/ Unmask \/ (\E p \in Pids : Fork(p)) \/ Record \/ Name \/ Wait \/ Suspend
             \/ Remask \/ WaitHelper \/ HandlerCrash
    BY <2>2 DEF Unmask, Fork, Record, Name, Wait, Suspend, Remask, WaitHelper, HandlerCrash
  <2>3. CASE User
    BY <2>3 DEF User, CtrlZ, CtrlC, Leave, BlockChild, KillPid, ForkHelper, KillJob, Continue
  <2>4. ASSUME NEW p \in Pids, Child(p) PROVE used' = used
    BY <2>4 DEF Child, ResetHandler, Exec, End
  <2> QED
    BY <2>1, <2>2, <2>3, <2>4 DEF Next, MainStep
<1> QED
  BY <1>1, CoreHolds, PTL DEF Spec, ListQuietAtPrompt

\* While main is between fork and sigsuspend the SIGCHLD of the child it
\* waits for stays due, since it is blocked (main.c:298, 360).
Due ==
  /\ pc \in {"record", "name", "wait"} /\ (at[pid] = "zombie" \/ pid \in stopped) =>
       "CHLD" \in pending
  /\ pc = "suspend" => "CHLD" \in pending

LEMMA DueStep == ASSUME Core, Due, [Next]_vars PROVE Due'
<1> USE DEF Core, TypeOK, Flow, Due, processes, signals, jobs
<1>1. CASE UNCHANGED vars
  BY <1>1 DEF vars
<1>2. CASE CtrlZ
  BY <1>2 DEF CtrlZ, Notified, Become
<1>3. CASE CtrlC
  BY <1>3 DEF CtrlC, Notified, Become
<1>4. CASE sigtstp_handler
  BY <1>4 DEF sigtstp_handler
<1>5. ASSUME NEW p \in Pids, Fork(p) PROVE Due'
  BY <1>5 DEF Fork, Spawn
<1>6. CASE Record \/ Name
  BY <1>6 DEF Record, Name
<1>7. CASE Wait
  BY <1>7 DEF Wait
<1>8. CASE Unmask \/ Suspend \/ Remask \/ WaitHelper
  BY <1>8 DEF Unmask, Suspend, Remask, WaitHelper
<1>9. CASE HandlerCrash \/ Leave
  BY <1>9 DEF HandlerCrash, Leave
<1>10. ASSUME NEW p \in Pids, ResetHandler(p) \/ Exec(p) PROVE Due'
  BY <1>10 DEF ResetHandler, Exec
<1>11. ASSUME NEW p \in Pids, End(p) PROVE Due'
  BY <1>11 DEF End, Notified
<1>12. ASSUME NEW k \in {"command", "pipe"}, BlockChild(k) PROVE Due'
  BY <1>12 DEF BlockChild
<1>13. ASSUME NEW p \in Pids, NEW state \in {"builtin", "shell"}, ForkHelper(p, state)
       PROVE  Due'
  BY <1>13 DEF ForkHelper
<1>14. ASSUME NEW i \in Entries, KillJob(i) \/ Continue(i) PROVE Due'
  BY <1>14 DEF KillJob, Continue, AtPrompt
<1>15. ASSUME NEW p \in Pids, KillPid(p) PROVE Due'
  BY <1>15 DEF KillPid, AtPrompt
<1> HIDE DEF Core, TypeOK, Flow, Due, processes, signals, jobs
<1> QED
  BY <1>1, <1>2, <1>3, <1>4, <1>5, <1>6, <1>7, <1>8, <1>9, <1>10, <1>11, <1>12, <1>13,
     <1>14, <1>15
  DEF Next, MainStep, User, Child

\* main never goes to sleep in sigsuspend after the SIGCHLD that is to wake
\* it was taken (main.c:352, 413).
THEOREM NoLostWakeup == Spec => []SuspendIsDue
<1>1. Init => Due
  BY DEF Init, Due
<1>2. Due => SuspendIsDue
  BY DEF Due, SuspendIsDue
<1> QED
  BY <1>1, <1>2, DueStep, CoreHolds, PTL DEF Spec

-----------------------------------------------------------------------------
(* What the list is for *)

Listed(p) == \E i \in 0 .. used - 1 : array[i] = p

\* A process that Ctrl-Z can stop, now or later.
Stoppable(p) == at[p] \in {"bare", "forked", "default", "program"}

\* main still has to make the entry of p, or p has not been stopped yet.
Foreground(p) ==
  /\ p = pid
  /\ \/ pc = "record" /\ p \notin stopped
     \/ pc \in {"name", "wait"} /\ (p \in stopped => "TSTP" \in pending)
     \/ pc = "wait" /\ kind = "pipe"

\* A process that is not the one in the foreground was stopped before, so it
\* has its entry, unless the Ctrl-Z was too early.
AllListed ==
  alive => \A p \in Pids :
    Stoppable(p) => serial[p] \in missed \/ Listed(p) \/ Foreground(p)

LEMMA AllListedStep == ASSUME Core, AllListed, [Next]_vars PROVE AllListed'
<1> USE ShellAssumption
<1> USE DEF Core, TypeOK, Flow, AllListed, Listed, Stoppable, Foreground, processes, signals, jobs
<1>1. CASE UNCHANGED vars
  BY <1>1 DEF vars
<1>2. CASE CtrlZ
  BY <1>2 DEF CtrlZ, Become, Notified
<1>3. CASE CtrlC
  BY <1>3 DEF CtrlC, Become, Notified
<1>4. CASE sigtstp_handler
  <2>1. PICK grown \in Grown : array' = [grown EXCEPT ![used] = childPID]
    BY <1>4 DEF sigtstp_handler
  <2>2. PICK n \in Nat \ {0} :
           /\ used < n /\ grown \in [0 .. n - 1 -> Pids \cup {Zero, Junk}]
           /\ \A i \in Slots : grown[i] = array[i]
    BY GrownProperties
  <2>3. array'[used] = childPID /\ \A i \in 0 .. used - 1 : array'[i] = array[i]
    BY <2>1, <2>2 DEF Slots
  <2>4. \A p \in Pids : Listed(p) \/ p = childPID => Listed(p)'
    BY <1>4, <2>3 DEF sigtstp_handler
  <2>5. UNCHANGED <<processes, pc, kind, alive, mask, pid, missed>>
    BY <1>4 DEF sigtstp_handler
  <2>6. ASSUME NEW p \in Pids, alive, Stoppable(p), serial[p] \notin missed
        PROVE  (Listed(p) \/ Foreground(p))'
    <3>1. CASE Listed(p) \/ p = childPID
      BY <2>4, <3>1
    <3>2. CASE Foreground(p) /\ p # childPID
      BY <2>5, <3>2
    <3> QED
      BY <2>6, <3>1, <3>2
  <2> QED
    BY <2>5, <2>6
<1>5. CASE HandlerCrash \/ Leave
  BY <1>5 DEF HandlerCrash, Leave
<1>6. ASSUME NEW p \in Pids, Fork(p) PROVE AllListed'
  BY <1>6 DEF Fork, Spawn
<1>7. CASE Record
  BY <1>7 DEF Record
<1>8. CASE Name
  BY <1>8 DEF Name
<1>9. CASE Wait
  BY <1>9 DEF Wait, Ready
<1>10. CASE Unmask \/ Suspend \/ Remask \/ WaitHelper
  <2>1. UNCHANGED <<stopped, serial, alive, pid, array, used, missed>>
    BY <1>10 DEF Unmask, Suspend, Remask, WaitHelper
  <2>2. pc \notin {"record", "name", "wait"}
    BY <1>10 DEF Unmask, Suspend, Remask, WaitHelper
  <2>3. \A p \in Pids : at'[p] = at[p] \/ at'[p] = "none"
    BY <1>10 DEF Unmask, Suspend, Remask, WaitHelper
  <2> QED
    BY <2>1, <2>2, <2>3
<1>11. ASSUME NEW p \in Pids, Child(p) PROVE AllListed'
  <2>1. CASE ResetHandler(p)
    BY <2>1 DEF ResetHandler
  <2>2. CASE Exec(p)
    BY <2>2 DEF Exec
  <2>3. CASE End(p)
    BY <2>3 DEF End, Notified
  <2> QED
    BY <1>11, <2>1, <2>2, <2>3 DEF Child
<1>12. ASSUME NEW k \in {"command", "pipe"}, BlockChild(k) PROVE AllListed'
  BY <1>12 DEF BlockChild, AtPrompt
<1>13. ASSUME NEW p \in Pids, NEW state \in {"builtin", "shell"}, ForkHelper(p, state)
       PROVE  AllListed'
  BY <1>13 DEF ForkHelper, Spawn, AtPrompt
<1>14. ASSUME NEW i \in Entries, KillJob(i) PROVE AllListed'
  BY <1>14 DEF KillJob, KillChild, AtPrompt
<1>15. ASSUME NEW i \in Entries, Continue(i) PROVE AllListed'
  BY <1>15 DEF Continue, Become, AtPrompt
<1>16. ASSUME NEW p \in Pids, KillPid(p) PROVE AllListed'
  <2>1. \A q \in Pids \ {p} : Listed(q) => Listed(q)'
    BY <1>16 DEF KillPid, Slots
  <2>2. /\ at' = [at EXCEPT ![p] = "none"] /\ pc = "prompt"
        /\ UNCHANGED <<serial, alive, missed>>
    BY <1>16 DEF KillPid, KillChild, AtPrompt
  <2> QED
    BY <2>1, <2>2
<1> HIDE DEF Core, TypeOK, Flow, AllListed, Listed, Stoppable, Foreground, processes, signals, jobs
<1> QED
  BY <1>1, <1>2, <1>3, <1>4, <1>5, <1>6, <1>7, <1>8, <1>9, <1>10, <1>11, <1>12, <1>13,
     <1>14, <1>15, <1>16
  DEF Next, MainStep, User

\* At the prompt every command that Ctrl-Z stopped is in the list, unless it
\* was stopped before childPID named it (main.c:362-409).
THEOREM StoppedAreListed == Spec => []StoppedIsListed
<1>1. Init => AllListed
  BY DEF Init, AllListed, Stoppable
<1>2. Core /\ AllListed => StoppedIsListed
  BY DEF Core, TypeOK, AllListed, Stoppable, Listed, Foreground, StoppedIsListed
<1> QED
  BY <1>1, <1>2, AllListedStep, CoreHolds, PTL DEF Spec

-----------------------------------------------------------------------------
(* What an entry stands for *)

\* Nothing was written behind the entries.
Unwritten == \A i \in Slots : i >= used => array[i] \in {Zero, Junk}

\* The entry that is in force for a stopped command.
InForce(i) == i \in 0 .. used - 1 /\ caught[i] # 0 /\ array[i] # Zero

\* Its process is there still, since main has not waited for it to the end;
\* and no other entry has the same process id, so that "kill %i", which sets
\* one entry to 0, does not leave the other (main.c:260).
Fresh(i) ==
  /\ array[i] \in Pids /\ at[array[i]] # "none"
  /\ serial[array[i]] = caught[i] /\ jobNames[i] = caught[i]
  /\ pc \in {"record", "name", "wait", "helper"} /\ array[i] = pid =>
       pc = "wait" /\ kind = "command" /\ pid \in stopped
  /\ \A j \in 0 .. used - 1 : array[j] = array[i] => j = i

AllFresh == Unwritten /\ (alive => \A i \in Entries : InForce(i) => Fresh(i))

LEMMA AllFreshStep == ASSUME Core, AllFresh, [Next]_vars PROVE AllFresh'
<1> USE ShellAssumption
<1>c. /\ used \in Nat /\ size \in Nat /\ used <= size /\ used <= MaxPresses
      /\ presses \in Nat /\ MaxPresses \in Nat
  BY DEF Core, TypeOK
<1> USE DEF Core, TypeOK, Flow, AllFresh, Unwritten, InForce, Fresh, Slots, Entries, processes,
        signals, jobs
<1>1. CASE UNCHANGED vars
  BY <1>1 DEF vars
<1>2. CASE CtrlZ
  BY <1>2 DEF CtrlZ, Become
<1>3. CASE CtrlC
  BY <1>3 DEF CtrlC, Become
<1>4. CASE sigtstp_handler
  <2>1. PICK grown \in Grown : /\ array' = [grown EXCEPT ![used] = childPID]
                               /\ size' = Cardinality(DOMAIN grown)
    BY <1>4 DEF sigtstp_handler
  <2>2. PICK n \in Nat \ {0} :
           /\ used < n /\ size <= n /\ n = Cardinality(DOMAIN grown)
           /\ grown \in [0 .. n - 1 -> Pids \cup {Zero, Junk}]
           /\ \A i \in Slots : grown[i] = array[i]
           /\ \A i \in size .. n - 1 : grown[i] \in {Zero, Junk}
    BY GrownProperties
  <2>3. /\ array'[used] = childPID /\ size' = n /\ used' = used + 1
        /\ \A i \in 0 .. used - 1 : array'[i] = array[i]
        /\ \A i \in used + 1 .. n - 1 : array'[i] \in {Zero, Junk}
    <3>1. \A i \in used .. size - 1 : grown[i] \in {Zero, Junk}
      <4> SUFFICES ASSUME NEW i \in used .. size - 1 PROVE grown[i] \in {Zero, Junk}
        OBVIOUS
      <4>1. i \in Slots /\ i >= used
        BY <1>c
      <4>2. array[i] \in {Zero, Junk}
        BY ONLY AllFresh, <4>1 DEF AllFresh, Unwritten
      <4> QED
        BY <2>2, <4>1, <4>2
    <3>2. \A i \in used + 1 .. n - 1 : array'[i] = grown[i]
      BY ONLY <1>c, <2>1, <2>2
    <3>3. \A i \in 0 .. used - 1 : array'[i] = array[i]
      BY ONLY <1>c, <2>1, <2>2 DEF Slots
    <3>4. \A i \in used + 1 .. n - 1 : i \in used .. size - 1 \/ i \in size .. n - 1
      BY ONLY <1>c
    <3>5. array'[used] = childPID /\ size' = n /\ used' = used + 1
      BY <1>4, <1>c, <2>1, <2>2 DEF sigtstp_handler
    <3>6. \A i \in used + 1 .. n - 1 : array'[i] \in {Zero, Junk}
      BY ONLY <2>2, <3>1, <3>2, <3>4
    <3> QED
      BY <3>3, <3>5, <3>6
  <2>4. Unwritten'
    BY <2>3
  <2>5. childPID \in Pids
    BY <1>4 DEF sigtstp_handler
  <2>6. UNCHANGED <<processes, pc, kind, alive, pid, childPID, nameOfJob>>
    BY <1>4 DEF sigtstp_handler
  <2>7. alive /\ used + 1 <= MaxPresses
    BY <1>4 DEF sigtstp_handler, Budget
  <2>8. ASSUME NEW i \in 0 .. used - 1, InForce(i)' PROVE Fresh(i)'
    <3>1. i \in Entries /\ i # used /\ i < used
      BY ONLY <1>c, <2>8 DEF Entries
    <3>2. caught'[i] = IF array[i] = childPID THEN 0 ELSE caught[i]
      BY <1>4, <3>1 DEF sigtstp_handler
    <3>3. jobNames'[i] = jobNames[i]
      BY <1>4, <3>1 DEF sigtstp_handler
    <3>4. array[i] # childPID /\ caught'[i] = caught[i]
      BY <2>8, <3>2
    <3>5. InForce(i) /\ Fresh(i)
      BY <2>3, <2>7, <2>8, <3>1, <3>4
    <3>6. \A j \in 0 .. used : array'[j] = array'[i] => j = i
      BY <1>c, <2>3, <3>1, <3>4, <3>5
    <3> QED
      BY <2>3, <2>6, <3>1, <3>3, <3>4, <3>5, <3>6
  <2>9. ASSUME NEW i \in Entries, i = used, InForce(i)' PROVE Fresh(i)'
    <3>1. FirstStop /\ caught'[i] = serial[childPID] /\ jobNames'[i] = nameOfJob
      BY <1>4, <2>7, <2>9 DEF sigtstp_handler
    <3>2. pc = "wait" /\ kind = "command" /\ childPID = pid /\ nameOfJob = serial[pid]
      BY <3>1 DEF FirstStop
    <3>3. at[pid] # "none" /\ pid \in stopped
      BY <3>1, <3>2 DEF FirstStop
    <3>4. \A j \in 0 .. used : array'[j] = childPID => j = i
      BY <2>3, <2>9, <3>1 DEF FirstStop
    <3>5. array'[i] = pid /\ pid \in Pids /\ pid' = pid
      BY <2>3, <2>5, <2>6, <2>9, <3>2
    <3>6. at'[pid] # "none" /\ serial'[pid] = caught'[i] /\ jobNames'[i] = caught'[i]
      BY <2>6, <3>1, <3>2, <3>3
    <3>7. pc' = "wait" /\ kind' = "command" /\ pid \in stopped'
      BY <2>6, <3>2, <3>3
    <3>8. \A j \in 0 .. used' - 1 : array'[j] = array'[i] => j = i
      BY <1>c, <2>3, <2>9, <3>4
    <3> QED
      BY <3>5, <3>6, <3>7, <3>8
  <2>10. \A i \in Entries : InForce(i)' => i \in 0 .. used - 1 \/ i = used
    BY <1>c, <2>3
  <2> HIDE DEF InForce, Fresh, Unwritten
  <2> QED
    BY <2>4, <2>8, <2>9, <2>10
<1>5. CASE HandlerCrash \/ Leave
  BY <1>5 DEF HandlerCrash, Leave
<1>6. ASSUME NEW p \in Pids, Fork(p) PROVE AllFresh'
  BY <1>6 DEF Fork, Spawn
<1>7. CASE Record
  BY <1>7 DEF Record
<1>8. CASE Name
  BY <1>8 DEF Name
<1>9. CASE Wait
  <2>1. UNCHANGED <<array, used, size, jobNames, caught, serial, alive>> /\ pc' = "suspend"
    BY <1>9 DEF Wait
  <2>2. alive /\ pc = "wait" /\ (pid \in stopped => at[pid] # "zombie")
    BY <1>9 DEF Wait, Ready
  <2>3. \A q \in Pids : at'[q] = at[q] \/ (q = pid /\ at[pid] = "zombie")
    BY <1>9 DEF Wait
  <2>4. \A i \in Entries : InForce(i) => at'[array[i]] # "none"
    BY <2>2, <2>3
  <2> QED
    BY <2>1, <2>2, <2>4
<1>10. CASE Unmask \/ Suspend \/ Remask
  <2>1. UNCHANGED <<array, used, size, jobNames, caught, serial, alive, at>>
    BY <1>10 DEF Unmask, Suspend, Remask
  <2>2. pc' \in {"fork", "remask", "prompt"}
    BY <1>10 DEF Unmask, Suspend, Remask
  <2> QED
    BY <2>1, <2>2
<1>11. CASE WaitHelper
  BY <1>11 DEF WaitHelper
<1>12. ASSUME NEW p \in Pids, ResetHandler(p) PROVE AllFresh'
  BY <1>12 DEF ResetHandler
<1>13. ASSUME NEW p \in Pids, Exec(p) PROVE AllFresh'
  BY <1>13 DEF Exec
<1>14. ASSUME NEW p \in Pids, End(p) PROVE AllFresh'
  BY <1>14 DEF End
<1>15. ASSUME NEW k \in {"command", "pipe"}, BlockChild(k) PROVE AllFresh'
  BY <1>15 DEF BlockChild, AtPrompt
<1>16. ASSUME NEW p \in Pids, NEW state \in {"builtin", "shell"}, ForkHelper(p, state)
       PROVE  AllFresh'
  BY <1>16 DEF ForkHelper, Spawn, AtPrompt
<1>17. ASSUME NEW i \in Entries, KillJob(i) PROVE AllFresh'
  BY <1>17 DEF KillJob, KillChild, AtPrompt
<1>18. ASSUME NEW p \in Pids, KillPid(p) PROVE AllFresh'
  <2>1. /\ alive /\ pc = "prompt" /\ pc' = pc /\ at' = [at EXCEPT ![p] = "none"]
        /\ array' = [i \in Slots |-> IF array[i] = p THEN Zero ELSE array[i]]
        /\ UNCHANGED <<serial, used, size, jobNames, caught>>
    BY <1>18 DEF KillPid, KillChild, AtPrompt
  <2>2. Unwritten'
    BY <1>c, <2>1
  <2>3. ASSUME NEW i \in Entries, InForce(i)' PROVE Fresh(i)'
    <3>1. i \in Slots /\ array[i] # p /\ array'[i] = array[i]
      BY <1>c, <2>1, <2>3
    <3>2. Fresh(i)
      BY <2>1, <2>3, <3>1
    <3>3. \A j \in 0 .. used - 1 : array'[j] = array[i] => array[j] = array[i]
      BY <1>c, <2>1, <3>2
    <3> QED
      BY <2>1, <3>1, <3>2, <3>3
  <2> QED
    BY <2>2, <2>3
<1>19. ASSUME NEW i \in Entries, Continue(i) PROVE AllFresh'
  BY <1>19 DEF Continue, Become, AtPrompt
<1> HIDE DEF Core, TypeOK, Flow, AllFresh, Unwritten, InForce, Fresh, Slots, Entries, processes,
        signals, jobs
<1> QED
  BY <1>1, <1>2, <1>3, <1>4, <1>5, <1>6, <1>7, <1>8, <1>9, <1>10, <1>11, <1>12, <1>13,
     <1>14, <1>15, <1>16, <1>17, <1>18, <1>19
  DEF Next, MainStep, User, Child

\* An entry in force names the command it was made for, whatever process ids
\* are given again: kill and fg never reach another process (main.c:254-292).
THEOREM EntriesAreTheirs == Spec => []EntryIsItsCommand
<1>1. Init => AllFresh
  BY DEF Init, AllFresh, Unwritten, InForce, Slots
<1>2. Core /\ AllFresh => EntryIsItsCommand
  <2> SUFFICES ASSUME Core, AllFresh, alive, NEW i \in 0 .. used - 1, caught[i] # 0,
                      array[i] # Zero
               PROVE  Fresh(i)
    BY DEF EntryIsItsCommand, Fresh
  <2>1. /\ used \in Nat /\ presses \in Nat /\ MaxPresses \in Nat
        /\ used <= presses /\ presses <= MaxPresses
    BY ShellAssumption DEF Core, TypeOK
  <2>2. i \in Entries /\ InForce(i)
    BY <2>1 DEF Entries, InForce
  <2> QED
    BY <2>2 DEF AllFresh
<1> QED
  BY <1>1, <1>2, AllFreshStep, CoreHolds, PTL DEF Spec
=============================================================================
