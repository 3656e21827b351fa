------------------------------ MODULE ShellProps ------------------------------
(***************************************************************************)
(* The properties of the shell of hw1.                                     *)
(***************************************************************************)
EXTENDS Shell

(***************************************************************************)
(* The list and the kernel agree: a child that was not reaped has exactly  *)
(* one entry that is not completed, and an entry with a number that is not *)
(* completed has a child. So whatever waitpid(-1) reports is found in the  *)
(* list, and no wait loop waits for a process that is gone. And the flag   *)
(* stopped, on which fg decides whether to send SIGCONT and wait whether   *)
(* to wait, is never left set on a process that runs.                      *)
(***************************************************************************)
OneEntry(p) == Cardinality({i \in DOMAIN list : list[i].pid = p /\ ~list[i].completed}) = 1
ListIsTrue ==
  /\ \A p \in Pids \ Free : OneEntry(p)
  /\ \A i \in DOMAIN list :
       ~list[i].completed =>
         /\ list[i].pid # 0 => list[i].pid \notin Free
         /\ list[i].stopped => proc[list[i].pid].st \in {"stopped", "zombie"}

(***************************************************************************)
(* The terminal belongs to the shell unless it is waiting for exactly the  *)
(* process that has it: a process in the background never has it, and the  *)
(* shell has it at every prompt.                                           *)
(***************************************************************************)
TerminalHandedBack ==
  term # Shell => pc \in {"continue", "waitpid", "regain"} /\ PidOf(cur) = term

(***************************************************************************)
(* No wait ends too early, though waitpid(-1) may report any child first:  *)
(* when cmd_wait returns, no child is running, whatever stopped, continued *)
(* or ended while it waited; and a foreground command returns only when    *)
(* its own process has ended or stopped.                                   *)
(***************************************************************************)
WaitReturns == pc = "cmd_wait" /\ pc' # "cmd_wait"
ForegroundReturns == WaitForProcess /\ pc' = "regain" /\ cur # 0 /\ PidOf(cur) # 0
NoneRunning == \A p \in Pids : proc[p].st \in {"none", "stopped", "zombie"}
ItsOwnReport == proc'[PidOf(cur)].st = "none" \/ list'[cur].stopped
WaitIsExact == (WaitReturns => NoneRunning) /\ (ForegroundReturns => ItsOwnReport)
WaitsExact == [][WaitIsExact]_vars

(***************************************************************************)
(* The prompt always comes back: neither a foreground process nor wait     *)
(* keeps the shell when every program ends or stops. The exception is an   *)
(* fg that waits for an entry that has no process: its own, when strtol    *)
(* read its argument as 0, the shell's, for -1, or one whose fork failed.  *)
(***************************************************************************)
WaitsForNobody == pc = "waitpid" /\ PidOf(cur) \notin Pids
PromptReturns == []<>(pc \in {"prompt", "exited"} \/ WaitsForNobody)

-----------------------------------------------------------------------------
(***************************************************************************)
(* The inductive invariant.                                                *)
(***************************************************************************)
TypeOK ==
  /\ pc \in {"prompt", "exited", "cmd_wait", "tcsetpgrp", "bg", "fork", "end",
             "continue", "waitpid", "regain"}
  /\ list \in Seq(Entry) /\ cur \in 0 .. Len(list) /\ cont \in BOOLEAN
  /\ term \in Pids \cup {Shell} /\ proc \in [Pids -> Process]

(* No two entries have the number of one child, and every child has one.   *)
PidsApart ==
  \A i, j \in DOMAIN list : list[i].pid = list[j].pid /\ list[i].pid # 0 => i = j
ChildrenListed ==
  \A p \in Pids \ Free : \E i \in DOMAIN list : list[i].pid = p /\ ~list[i].completed

(* What an entry says is so.                                               *)
EntryTrue(i) ==
  LET e == list[i] IN
  /\ e.pid = 0 => ~e.stopped /\ ~e.completed
  /\ e.pid # 0 => (e.completed <=> e.pid \in Free)
  /\ e.stopped /\ ~e.completed => proc[e.pid].st \in {"stopped", "zombie"}
  /\ e.completed => pc \in {"waitpid", "regain", "cmd_wait", "end"}
ListInv == PidsApart /\ ChildrenListed /\ \A i \in DOMAIN list : EntryTrue(i)

(* Only the last stop of a process may be left to report.                  *)
ProcInv == \A p \in Pids : proc[p].news => proc[p].st = "stopped"

(***************************************************************************)
(* An entry that is not a program goes with its line, unless an earlier    *)
(* one whose fork failed is what the shell looks at for ever.              *)
(***************************************************************************)
Behind(i) == \E j \in 1 .. i - 1 : list[j].argv = "program" /\ list[j].pid = 0
LineInv ==
  /\ \A i \in DOMAIN list :
       list[i].argv # "program" =>
         Behind(i) \/ (pc # "prompt" /\ i = Len(list) /\ list[i].pid = 0)
  /\ pc = "fork" => /\ list # <<>> /\ list[Len(list)].pid = 0
                    /\ list[Len(list)].argv = "program" \/ Behind(Len(list))
  /\ pc = "cmd_wait" => \A i \in DOMAIN list :
       list[i].argv # "program" => i = Len(list) /\ list[i].pid = 0

IInv == TypeOK /\ ListInv /\ ProcInv /\ LineInv /\ TerminalHandedBack
=============================================================================
