-------------------------------- MODULE Shell --------------------------------
(***************************************************************************)
(* The interactive shell of hw1 (shell.c, process.c), its child processes, *)
(* and what the kernel does for both: the terminal's foreground group,     *)
(* stop and continue signals, and waitpid.                                 *)
(*                                                                         *)
(* The shell's own data change together with its next system call. Between *)
(* any two system calls a child may take a step, the user may press ^C or  *)
(* ^Z, and the terminal may stop a background reader.                      *)
(*                                                                         *)
(* Each definition whose comment starts with "Fault" is a faulty variant of *)
(* the definition after it, with which a property must fail to hold.       *)
(***************************************************************************)
EXTENDS Integers, FiniteSets, SequencesExt

CONSTANTS
  Pids,        (* Process numbers: no more children can exist at a time.    *)
  MaxEntries,  (* Bound on the process list: no line is read beyond it.     *)
  ForkFails,   (* May fork fail?                                            *)
  Killing      (* May a stopped process be killed from elsewhere?           *)

ASSUME ShellAssumption ==
  /\ Pids \subseteq Nat \ {0} /\ IsFiniteSet(Pids)
  /\ MaxEntries \in Nat
  /\ {ForkFails, Killing} \subseteq BOOLEAN

VARIABLES
  pc,     (* What the shell does next.                                      *)
  list,   (* The process list without first_process, which has pid -1 and   *)
          (* never completes; in what follows it has index 0.               *)
  cur,    (* The process that is put in the foreground or background.       *)
  cont,   (* The argument cont of put_process_in_foreground.                *)
  term,   (* The terminal's foreground process group.                       *)
  proc    (* The children, as the kernel has them.                          *)

vars == <<pc, list, cur, cont, term, proc>>

Shell == 0        (* shell_pgid, in term.                                   *)
NoArg == -2       (* fg or bg without an argument.                          *)
Programs == {"program"}
Builtins == {"fg", "bg", "wait", "quit", "other"}   (* other: ?, cd, plist  *)
Words == Programs \cup Builtins \cup {"blank"}

Entry == [argv : Words, background : BOOLEAN, pid : Pids \cup {0},
          stopped : BOOLEAN, completed : BOOLEAN]

(***************************************************************************)
(* A child is "new" from fork to its setpgid; in its own "group", the      *)
(* shell's ignored signals still ignored; then "running" its program,      *)
(* "stopped", or a "zombie" that waits to be reaped. news: its last stop   *)
(* has not been reported by waitpid.                                       *)
(***************************************************************************)
Process == [st : {"none", "new", "group", "running", "stopped", "zombie"},
            news : BOOLEAN, own : BOOLEAN]
NoProcess == [st |-> "none", news |-> FALSE, own |-> FALSE]

Init ==
  /\ pc = "prompt" /\ list = <<>> /\ cur = 0 /\ cont = FALSE
  /\ term = Shell
  /\ proc = [p \in Pids |-> NoProcess]

Free == {p \in Pids : proc[p].st = "none"}
PidOf(i) == IF i = 0 THEN -1 ELSE list[i].pid

(* Does a process group with this number exist?                            *)
IsGroup(p) == p \in Pids /\ proc[p].own
-----------------------------------------------------------------------------
(* The first entry with a number, 0 when there is none.                    *)
WithPid(l, p) == SelectInSeq(l, LAMBDA e : e.pid = p)

(* The entry that the shell looks at after a line was added: the first     *)
(* that has no pid yet, or the last.                                       *)
NextEntry(l) == IF WithPid(l, 0) = 0 THEN Len(l) ELSE WithPid(l, 0)

(* cmd_fg and cmd_bg: the entry with the number, or without an argument    *)
(* the one before the command itself. -1 when there is none.               *)
Target(l, arg) ==
  IF arg = NoArg THEN IF Len(l) > 1 THEN Len(l) - 1 ELSE -1
  ELSE IF arg = -1 THEN 0
  ELSE IF WithPid(l, arg) = 0 THEN -1 ELSE WithPid(l, arg)

Set(l, i, f, v) == IF i = 0 THEN l ELSE [l EXCEPT ![i] = [@ EXCEPT ![f] = v]]

NewEntry(w, bg) == [argv |-> w, background |-> bg, pid |-> 0,
                    stopped |-> FALSE, completed |-> FALSE]

(* The while loop of shell(): create_process, add_process, and the choice  *)
(* of what to do with the line.                                            *)
ReadLine(w, bg, arg) ==
  /\ pc = "prompt" /\ Len(list) < MaxEntries
  /\ w = "program" => ForkFails \/ Free # {}
  /\ LET l == Append(list, NewEntry(w, bg))
         n == NextEntry(l)
         do == l[n].argv
         t == Target(l, arg) IN
       /\ list' = l
       /\ pc' = CASE do = "quit" -> "exited"
                  [] do = "wait" -> "cmd_wait"
                  [] do = "fg" /\ t # -1 -> "tcsetpgrp"
                  [] do = "bg" /\ t # -1 -> "bg"
                  [] do = "program" -> "fork"
                  [] OTHER -> "end"
       /\ IF do \in {"fg", "bg"} /\ t # -1
          THEN cur' = t /\ cont' = IF t = 0 THEN FALSE ELSE l[t].stopped
          ELSE UNCHANGED <<cur, cont>>
  /\ UNCHANGED <<term, proc>>

(* launch_process: the newest entry is forked, whichever NextEntry was.    *)
Fork ==
  /\ pc = "fork"
  /\ \E p \in Free :
       /\ list' = Set(list, Len(list), "pid", p)
       /\ proc' = [proc EXCEPT ![p] = [NoProcess EXCEPT !.st = "new"]]
  /\ IF list[Len(list)].background
     THEN pc' = "end" /\ UNCHANGED <<cur, cont>>
     ELSE pc' = "tcsetpgrp" /\ cur' = Len(list) /\ cont' = FALSE
  /\ UNCHANGED term

ForkError ==
  /\ pc = "fork" /\ ForkFails /\ pc' = "end"
  /\ UNCHANGED <<list, cur, cont, term, proc>>
-----------------------------------------------------------------------------
(* put_process_in_foreground: tcsetpgrp fails, unnoticed, when the group   *)
(* does not exist: for a child that has not come to its setpgid.           *)
TakeTerminal ==
  /\ pc = "tcsetpgrp"
  /\ term' = IF IsGroup(PidOf(cur)) THEN PidOf(cur) ELSE term
  /\ list' = Set(list, cur, "background", FALSE)
  /\ pc' = IF cont THEN "continue" ELSE "waitpid"
  /\ UNCHANGED <<cur, cont, proc>>

(* Fault: the process is marked as continued and gets no signal.           *)
ContinuedNot(i) == proc

(* kill(-pid, SIGCONT). A stop that was not yet reported never will be.    *)
Continued(i) ==
  IF IsGroup(PidOf(i)) /\ proc[PidOf(i)].st = "stopped"
  THEN [proc EXCEPT ![PidOf(i)].st = "running", ![PidOf(i)].news = FALSE]
  ELSE proc

(* Fault: the flag stays set.                                              *)
StillStopped(i) == list

MarkContinued(i) == Set(list, i, "stopped", FALSE)

Continue ==
  /\ pc = "continue" /\ pc' = "waitpid"
  /\ proc' = Continued(cur) /\ list' = MarkContinued(cur)
  /\ UNCHANGED <<cur, cont, term>>

(* waitpid(-1, &status, WUNTRACED) returns p: it has ended, or stopped.    *)
Reported(p) == proc[p].st = "zombie" \/ proc[p].news
AfterReport(p) == IF proc[p].st = "zombie" THEN [proc EXCEPT ![p] = NoProcess]
                  ELSE [proc EXCEPT ![p].news = FALSE]

(* mark_process_status.                                                    *)
Mark(p) == Set(list, WithPid(list, p),
               IF proc[p].st = "zombie" THEN "completed" ELSE "stopped", TRUE)

(* Fault: any report ends the wait, whichever process it is about.         *)
WaitedAny(l, i) == TRUE

(* The condition that ends the loop of wait_for_process.                   *)
Waited(l, i) == i # 0 /\ (l[i].completed \/ l[i].stopped)

WaitForProcess ==
  /\ pc = "waitpid"
  /\ \/ \E p \in Pids :
          /\ Reported(p)
          /\ proc' = AfterReport(p) /\ list' = Mark(p)
          /\ pc' = IF Waited(list', cur) THEN "regain" ELSE "waitpid"
     \/ /\ Free = Pids   (* ECHILD *)
        /\ pc' = "regain" /\ UNCHANGED <<proc, list>>
  /\ UNCHANGED <<cur, cont, term>>

(* Fault: the terminal is not taken back.                                  *)
LeaveTerminal == term' = term

TerminalBack == term' = Shell

RegainTerminal ==
  /\ pc = "regain" /\ pc' = "end"
  /\ TerminalBack
  /\ UNCHANGED <<list, cur, cont, proc>>

(* put_process_in_background(p, 1).                                        *)
Background ==
  /\ pc = "bg" /\ pc' = "end"
  /\ proc' = Continued(cur)
  /\ list' = Set(MarkContinued(cur), cur, "background", TRUE)
  /\ UNCHANGED <<cur, cont, term>>

(* num_active_proc.                                                        *)
Active == {i \in DOMAIN list : /\ ~list[i].stopped /\ ~list[i].completed
                               /\ list[i].argv # "wait"}

(* cmd_wait. With active entries but no child it would spin for ever.      *)
CmdWait ==
  /\ pc = "cmd_wait"
  /\ \/ Active = {} /\ pc' = "end" /\ UNCHANGED <<list, proc>>
     \/ /\ Active # {} /\ UNCHANGED pc
        /\ \E p \in Pids :
             Reported(p) /\ proc' = AfterReport(p) /\ list' = Mark(p)
  /\ UNCHANGED <<cur, cont, term>>

(* purge_proc_list: the entries that are not completed, in their order.    *)
Kept(l) == {i \in DOMAIN l : ~l[i].completed}
Place(l, i) == Cardinality({j \in Kept(l) : j <= i})
Purge(l) == [k \in 1 .. Cardinality(Kept(l)) |-> l[CHOOSE i \in Kept(l) : Place(l, i) = k]]

(* A builtin that ran, and a blank line, are completed; then the purge.    *)
EndLine ==
  /\ pc = "end" /\ pc' = "prompt"
  /\ LET n == NextEntry(list)
         ran == n = Len(list) /\ n > 0 /\ list[n].argv # "program" IN
       list' = Purge(IF ran THEN Set(list, n, "completed", TRUE) ELSE list)
  /\ cur' = 0 /\ cont' = FALSE
  /\ UNCHANGED <<term, proc>>
-----------------------------------------------------------------------------
(* The child after fork: setpgid, then the signals and execv.              *)
Become(p, from, to) ==
  /\ proc[p].st = from
  /\ proc' = [proc EXCEPT ![p] = to]
  /\ UNCHANGED <<pc, list, cur, cont, term>>

InGroup(st) == [st |-> st, news |-> FALSE, own |-> TRUE]
SetPgid(p) == Become(p, "new", InGroup("group"))
Exec(p) == Become(p, "group", InGroup("running"))

(* The program ends, or execv failed and the child exits.                  *)
Exit(p) == Become(p, "running", InGroup("zombie")) \/ Become(p, "group", InGroup("zombie"))

(* A program that is not in the foreground reads the terminal: SIGTTIN.    *)
Stopped == [InGroup("stopped") EXCEPT !.news = TRUE]
TtyRead(p) == term # p /\ Become(p, "running", Stopped)

(* ^C and ^Z go to the foreground group.                                   *)
CtrlC(p) == term = p /\ Become(p, "running", InGroup("zombie"))
CtrlZ(p) == term = p /\ Become(p, "running", Stopped)

Kill(p) == Killing /\ Become(p, "stopped", InGroup("zombie"))
-----------------------------------------------------------------------------
ShellStep ==
  \/ Fork \/ ForkError \/ TakeTerminal \/ Continue \/ WaitForProcess
  \/ RegainTerminal \/ Background \/ CmdWait \/ EndLine

(* strtol reads "%1", or a word, as 0.                                     *)
Args == Pids \cup {NoArg, 0, -1}

User ==
  \/ \E bg \in BOOLEAN : ReadLine("program", bg, NoArg)
  \/ \E w \in {"wait", "quit", "other", "blank"} : ReadLine(w, FALSE, NoArg)
  \/ \E w \in {"fg", "bg"}, arg \in Args : ReadLine(w, FALSE, arg)

Next ==
  \/ ShellStep \/ User
  \/ \E p \in Pids : \/ SetPgid(p) \/ Exec(p) \/ Exit(p) \/ TtyRead(p)
                     \/ CtrlC(p) \/ CtrlZ(p) \/ Kill(p)

(***************************************************************************)
(* The shell and a child up to its execv are ordinary processes that the   *)
(* scheduler lets run. That programs end, unless they are stopped, is an   *)
(* assumption about the programs.                                          *)
(***************************************************************************)
Fairness == /\ WF_vars(ShellStep)
            /\ \A p \in Pids : WF_vars(SetPgid(p)) /\ WF_vars(Exec(p)) /\ WF_vars(Exit(p))

Spec == Init /\ [][Next]_vars /\ Fairness
=============================================================================
