------------------------------- MODULE FuseMount -------------------------------
(***************************************************************************)
(* How a file system is mounted and unmounted by a user who is not root:   *)
(* fuse_kern_mount and fuse_kern_unmount of lib/mount.c in the program,    *)
(* and util/fusermount.c, which mounts, sends the program the open device, *)
(* and, with auto_unmount, stays until the program has gone and unmounts.  *)
(* /etc/mtab is a file; "fusermount -u" runs one at a time (lock_umount).  *)
(* All mounts are of one user, so that the entries of a mountpoint are     *)
(* the same. A step that fails leaves the others of its call out.          *)
(***************************************************************************)
EXTENDS Integers, Sequences, FiniteSets, Functions

CONSTANTS
  Programs, (* The programs, each of which mounts once.                      *)
  PointOf,  (* PointOf[p]: its mountpoint.                                   *)
  MountMax, (* mount_max of /etc/fuse.conf.                                  *)
  Hands     (* Bound: the times that a user runs "fusermount -u".            *)

ASSUME FuseMountAssumption == IsFiniteSet(Programs) /\ IsFiniteSet(Hands)

VARIABLES
  auto,     (* The programs that mount with auto_unmount.                    *)
  program,  (* program[p]: new, asking (waits for the device), serving, ask  *)
            (* (its "fusermount -u" runs), ended.                            *)
  helper,   (* helper[p]: its fusermount: none, start, counted, mounted,     *)
            (* listed, sent, waits, gone.                                    *)
  remover,  (* remover[r]: a "fusermount -u": none, want, checked, off, done.*)
  where,    (* where[h]: the mountpoint that a user unmounts.                *)
  stack,    (* stack[m]: the programs mounted there, the top one last.     *)
  mtab,     (* mtab[m]: the entries of /etc/mtab.                            *)
  unlisted, (* unlisted[m]: the mounts whose entry could not be added.       *)
  left      (* left[m]: a mount was left that nobody is there to unmount.    *)

mountvars == <<auto, program, helper, remover, where, stack, mtab, unlisted, left>>
-----------------------------------------------------------------------------
Points == {PointOf[p] : p \in Programs}
Own(p) == <<"program", p>>
Daemon(p) == <<"daemon", p>>
Hand(h) == <<"hand", h>>
Removers == {Own(p) : p \in Programs} \cup {Daemon(p) : p \in Programs} \cup {Hand(h) : h \in Hands}
PlaceOf(r) == IF r[1] = "hand" THEN where[r[2]] ELSE PointOf[r[2]]
IsMounted(p) == \E i \in DOMAIN stack[PointOf[p]] : stack[PointOf[p]][i] = p

MountInit ==
  /\ auto \in SUBSET Programs
  /\ program = [p \in Programs |-> "new"] /\ helper = [p \in Programs |-> "none"]
  /\ remover = [r \in Removers |-> "none"] /\ where = [h \in Hands |-> CHOOSE m \in Points : TRUE]
  /\ stack = [m \in Points |-> <<>>] /\ mtab = [m \in Points |-> 0]
  /\ unlisted = [m \in Points |-> 0] /\ left = [m \in Points |-> FALSE]

Goes(p, to) == program' = [program EXCEPT ![p] = to]
Helps(p, to) == helper' = [helper EXCEPT ![p] = to]
Removes(r, to) == remover' = [remover EXCEPT ![r] = to]
-----------------------------------------------------------------------------
(***************************************************************************)
(* fuse_kern_mount: mount(2) is not for this user, or does not do          *)
(* auto_unmount, so that fusermount is started.                            *)
(***************************************************************************)
KernMount(p) ==
  /\ program[p] = "new"
  /\ Goes(p, "asking") /\ Helps(p, "start")
  /\ UNCHANGED <<auto, remover, where, stack, mtab, unlisted, left>>

(* mount_fuse of fusermount: the mounts are counted in /etc/mtab.          *)
MountCount == FoldFunction(+, 0, mtab)
CountMounts(p) ==
  /\ helper[p] = "start"
  /\ Helps(p, IF MountCount >= MountMax THEN "gone" ELSE "counted")
  /\ UNCHANGED <<auto, program, remover, where, stack, mtab, unlisted, left>>
(* The device cannot be opened, or check_perm or do_mount fail.            *)
MountFails(p) ==
  /\ helper[p] \in {"start", "counted"}
  /\ Helps(p, "gone")
  /\ UNCHANGED <<auto, program, remover, where, stack, mtab, unlisted, left>>
DoMount(p) ==
  /\ helper[p] = "counted"
  /\ stack' = [stack EXCEPT ![PointOf[p]] = Append(@, p)]
  /\ Helps(p, "mounted")
  /\ UNCHANGED <<auto, program, remover, where, mtab, unlisted, left>>
AddMount(p) ==
  /\ helper[p] = "mounted"
  /\ mtab' = [mtab EXCEPT ![PointOf[p]] = @ + 1]
  /\ Helps(p, "listed")
  /\ UNCHANGED <<auto, program, remover, where, stack, unlisted, left>>
(* It does not clean up the mount, since that would be racy.               *)
AddFails(p) ==
  /\ helper[p] = "mounted"
  /\ unlisted' = [unlisted EXCEPT ![PointOf[p]] = @ + 1]
  /\ left' = [left EXCEPT ![PointOf[p]] = TRUE]
  /\ Helps(p, "gone")
  /\ UNCHANGED <<auto, program, remover, where, stack, mtab>>

(* send_fd. With auto_unmount, fusermount stays as a daemon. Nothing is    *)
(* sent to a program that has gone, and nothing unmounted. (Fault: it does *)
(* not stay.)                                                              *)
Leaves(p) == "sent"
Stays(p) == IF p \in auto THEN "waits" ELSE "sent"
SendFd(p) ==
  /\ helper[p] = "listed" /\ program[p] = "asking"
  /\ Helps(p, Stays(p))
  /\ UNCHANGED <<auto, program, remover, where, stack, mtab, unlisted, left>>
SendFails(p) ==
  /\ helper[p] = "listed" /\ program[p] = "ended"
  /\ Helps(p, "gone")
  /\ UNCHANGED <<auto, program, remover, where, stack, mtab, unlisted, left>>

(* receive_fd: the device, or the end of the socket.                       *)
ReceiveFd(p) ==
  /\ program[p] = "asking" /\ helper[p] \in {"sent", "waits", "gone"}
  /\ Goes(p, IF helper[p] = "gone" THEN "ended" ELSE "serving")
  /\ UNCHANGED <<auto, helper, remover, where, stack, mtab, unlisted, left>>
-----------------------------------------------------------------------------
(***************************************************************************)
(* fuse_kern_unmount, when the loop ends, or the program could not be set  *)
(* up: poll tells whether it is still mounted.                             *)
(***************************************************************************)
KernUnmount(p) ==
  /\ IF IsMounted(p) THEN Goes(p, "ask") /\ Removes(Own(p), "want")
     ELSE Goes(p, "ended") /\ UNCHANGED remover
  /\ UNCHANGED <<auto, helper, where, stack, mtab, unlisted, left>>
LoopEnds(p) == program[p] = "serving" /\ ~IsMounted(p) /\ KernUnmount(p)
Terminated(p) == program[p] = "serving" /\ IsMounted(p) /\ KernUnmount(p)
Unmounted(p) ==
  /\ program[p] = "ask" /\ remover[Own(p)] = "done"
  /\ Goes(p, "ended")
  /\ UNCHANGED <<auto, helper, remover, where, stack, mtab, unlisted, left>>

(* A program is killed: with auto_unmount, fusermount unmounts if it waits.*)
Killed(p) ==
  /\ program[p] \in {"asking", "serving", "ask"}
  /\ Goes(p, "ended")
  /\ left' = [left EXCEPT ![PointOf[p]] = @ \/ helper[p] # "waits"]
  /\ UNCHANGED <<auto, helper, remover, where, stack, mtab, unlisted>>

(* The daemon sees the socket closed. The "fusermount -u" of the program   *)
(* has it open, too.                                                       *)
SocketClosed(p) == program[p] = "ended" /\ remover[Own(p)] \in {"none", "done"}
DaemonWakes(p) ==
  /\ helper[p] = "waits" /\ SocketClosed(p)
  /\ Helps(p, "gone") /\ Removes(Daemon(p), "want")
  /\ UNCHANGED <<auto, program, where, stack, mtab, unlisted, left>>
UserUnmounts(h, m) ==
  /\ remover[Hand(h)] = "none"
  /\ where' = [where EXCEPT ![h] = m] /\ Removes(Hand(h), "want")
  /\ UNCHANGED <<auto, program, helper, stack, mtab, unlisted, left>>
-----------------------------------------------------------------------------
(***************************************************************************)
(* unmount_fuse. (Fault: /etc/mtab is not locked.)                         *)
(***************************************************************************)
NoLock == TRUE
LockUmount == \A r \in Removers : remover[r] \notin {"checked", "off"}
MayUnmount(r) ==
  /\ remover[r] = "want" /\ LockUmount
  /\ Removes(r, IF mtab[PlaceOf(r)] > 0 THEN "checked" ELSE "done")
  /\ UNCHANGED <<auto, program, helper, where, stack, mtab, unlisted, left>>
Umount(r) ==
  LET m == PlaceOf(r)
  IN  /\ remover[r] = "checked"
      /\ IF stack[m] = <<>> THEN Removes(r, "done") /\ UNCHANGED stack
         ELSE stack' = [stack EXCEPT ![m] = SubSeq(@, 1, Len(@) - 1)] /\ Removes(r, "off")
      /\ UNCHANGED <<auto, program, helper, where, mtab, unlisted, left>>
(* A user's is not lazy: somebody may still use the file system.           *)
UmountBusy(r) ==
  /\ remover[r] = "checked" /\ r[1] = "hand"
  /\ Removes(r, "done")
  /\ UNCHANGED <<auto, program, helper, where, stack, mtab, unlisted, left>>
RemoveMount(r) ==
  LET m == PlaceOf(r)
  IN  /\ remover[r] = "off"
      /\ mtab' = [mtab EXCEPT ![m] = IF @ = 0 THEN 0 ELSE @ - 1]
      /\ Removes(r, "done")
      /\ UNCHANGED <<auto, program, helper, where, stack, unlisted, left>>
-----------------------------------------------------------------------------
MountFaults(p) == MountFails(p) \/ AddFails(p) \/ Terminated(p) \/ Killed(p) \/ KernMount(p)
MountSteps(p) ==
  \/ CountMounts(p) \/ DoMount(p) \/ AddMount(p) \/ SendFd(p) \/ SendFails(p) \/ ReceiveFd(p)
  \/ LoopEnds(p) \/ Unmounted(p) \/ DaemonWakes(p)
UnmountSteps(r) == MayUnmount(r) \/ Umount(r) \/ RemoveMount(r)

MountNext ==
  \/ \E p \in Programs : MountFaults(p) \/ MountSteps(p)
  \/ \E r \in Removers : UnmountSteps(r) \/ UmountBusy(r)
  \/ \E h \in Hands, m \in Points : UserUnmounts(h, m)

(* What has been begun goes on; nobody has to mount, unmount or kill.      *)
MountFairness ==
  /\ \A p \in Programs : WF_mountvars(MountSteps(p))
  /\ \A r \in Removers : WF_mountvars(UnmountSteps(r))

MountSpec == MountInit /\ [][MountNext]_mountvars /\ MountFairness
-----------------------------------------------------------------------------
(***************************************************************************)
(* /etc/mtab has an entry for every mount, but for those that are just     *)
(* being made and those whose entry could not be added, and one too many   *)
(* only while a mount has been taken off: whoever mounts and unmounts at   *)
(* the same time, "fusermount -u" never refuses a mount that is there, nor *)
(* takes one off twice.                                                    *)
(***************************************************************************)
Mounting(m) == {p \in Programs : PointOf[p] = m /\ helper[p] = "mounted"}
Unlisting(m) == {r \in Removers : PlaceOf(r) = m /\ remover[r] = "off"}
MtabMatches ==
  \A m \in Points :
    mtab[m] + unlisted[m] + Cardinality(Mounting(m)) = Len(stack[m]) + Cardinality(Unlisting(m))

(***************************************************************************)
(* auto_unmount, however the programs end, and whatever a user unmounts    *)
(* by hand in between: when all programs of a mountpoint have gone,        *)
(* nothing stays mounted there and nothing in /etc/mtab. (Unless one that  *)
(* fusermount did not wait for was killed, or an entry could not be added; *)
(* and programs without auto_unmount must not share a mountpoint.)         *)
(***************************************************************************)
AutoUnmounted ==
  \A m \in Points :
    LET There == {p \in Programs : PointOf[p] = m}
    IN  There \subseteq auto \/ Cardinality(There) = 1 =>
          (<>[](~left[m] /\ \A p \in There : program[p] \in {"new", "ended"}) => <>[](stack[m] = <<>> /\ mtab[m] = 0))

-----------------------------------------------------------------------------
(***************************************************************************)
(* What makes MtabMatches inductive: one "fusermount -u" at a time has     *)
(* /etc/mtab locked, and takes off a mount only when it found an entry.    *)
(***************************************************************************)
MountTypeOK ==
  /\ auto \subseteq Programs
  /\ program \in [Programs -> {"new", "asking", "serving", "ask", "ended"}]
  /\ helper \in [Programs -> {"none", "start", "counted", "mounted", "listed", "sent", "waits", "gone"}]
  /\ remover \in [Removers -> {"none", "want", "checked", "off", "done"}]
  /\ DOMAIN where = Hands
  /\ stack \in [Points -> Seq(Programs)]
  /\ mtab \in [Points -> Nat] /\ unlisted \in [Points -> Nat] /\ left \in [Points -> BOOLEAN]
Holds(r) == remover[r] \in {"checked", "off"}
LockedAlone == \A r, s \in Removers : Holds(r) /\ Holds(s) => r = s
HasPlace == \A r \in Removers : remover[r] # "none" => PlaceOf(r) \in Points
FoundInMtab == \A r \in Removers : Holds(r) => mtab[PlaceOf(r)] > 0
NotYet == \A p \in Programs :
  /\ program[p] = "new" => helper[p] = "none"
  /\ program[p] \in {"new", "asking", "serving"} => remover[Own(p)] = "none"
  /\ helper[p] # "gone" => remover[Daemon(p)] = "none"
MountInv == MountTypeOK /\ NotYet /\ LockedAlone /\ HasPlace /\ FoundInMtab /\ MtabMatches
=============================================================================
