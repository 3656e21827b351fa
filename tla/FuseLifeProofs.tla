---------------------------- MODULE FuseLifeProofs ----------------------------
(***************************************************************************)
(* Proofs about FuseMount, FuseSession and FusePaths: for any number of    *)
(* programs and users /etc/mtab is a true account of what is mounted; for  *)
(* any number of threads and requests nothing dangles, is kept twice or is *)
(* miscounted; and in any tree the paths that are locked stay true.        *)
(***************************************************************************)
EXTENDS FusePathsProps, FuseSessionProps, FuseMount, FiniteSetTheorems, SequenceTheorems, TLAPS

-----------------------------------------------------------------------------
(***************************************************************************)
(* Mounting.                                                               *)
(***************************************************************************)

LEMMA RemoverKinds ==
  /\ \A p \in Programs : /\ Own(p) \in Removers /\ Own(p)[1] # "hand" /\ Own(p)[2] = p
                         /\ Daemon(p) \in Removers /\ Daemon(p)[1] # "hand" /\ Daemon(p)[2] = p
  /\ \A h \in Hands : Hand(h) \in Removers /\ Hand(h)[1] = "hand" /\ Hand(h)[2] = h
  /\ \A r \in Removers : \/ r[1] = "hand" /\ r[2] \in Hands /\ r = Hand(r[2])
                         \/ r[1] # "hand" /\ r[2] \in Programs /\ PlaceOf(r) \in Points
BY DEF Removers, Own, Daemon, Hand, PlaceOf, Points

LEMMA RemoversApart ==
  ASSUME NEW p, NEW q
  PROVE  /\ Own(p) # Daemon(q) /\ Own(q) # Daemon(p)
         /\ Own(p) = Own(q) => p = q
         /\ Daemon(p) = Daemon(q) => p = q
BY DEF Own, Daemon

LEMMA RemoversFinite == IsFiniteSet(Removers)
<1> DEFINE A == {Own(p) : p \in Programs}
           B == {Daemon(p) : p \in Programs}
           C == {Hand(h) : h \in Hands}
<1>1. IsFiniteSet(A)
  <2>1. [p \in Programs |-> Own(p)] \in Surjection(Programs, A)
    BY DEF Surjection
  <2> QED  BY <2>1, FS_Surjection, FuseMountAssumption
<1>2. IsFiniteSet(B)
  <2>1. [p \in Programs |-> Daemon(p)] \in Surjection(Programs, B)
    BY DEF Surjection
  <2> QED  BY <2>1, FS_Surjection, FuseMountAssumption
<1>3. IsFiniteSet(C)
  <2>1. [h \in Hands |-> Hand(h)] \in Surjection(Hands, C)
    BY DEF Surjection
  <2> QED  BY <2>1, FS_Surjection, FuseMountAssumption
<1>4. Removers = (A \cup B) \cup C
  BY DEF Removers
<1> HIDE DEF A, B, C
<1> QED  BY <1>1, <1>2, <1>3, <1>4, FS_Union

\* The two counts of MtabMatches are of finite sets.
LEMMA CountsFinite ==
  /\ \A m : IsFiniteSet(Mounting(m)) /\ Cardinality(Mounting(m)) \in Nat
  /\ \A m : IsFiniteSet(Unlisting(m)) /\ Cardinality(Unlisting(m)) \in Nat
<1>1. \A m : Mounting(m) \in SUBSET Programs /\ Unlisting(m) \in SUBSET Removers
  BY DEF Mounting, Unlisting
<1>2. \A m : IsFiniteSet(Mounting(m)) /\ IsFiniteSet(Unlisting(m))
  BY <1>1, FS_Subset, RemoversFinite, FuseMountAssumption
<1> QED  BY <1>2, FS_CardinalityType

LEMMA MountInitInv == MountInit => MountInv
<1> SUFFICES ASSUME MountInit PROVE MountInv
  OBVIOUS
<1>1. /\ auto \subseteq Programs
      /\ program = [p \in Programs |-> "new"] /\ helper = [p \in Programs |-> "none"]
      /\ remover = [r \in Removers |-> "none"] /\ DOMAIN where = Hands
      /\ stack = [m \in Points |-> <<>>] /\ mtab = [m \in Points |-> 0]
      /\ unlisted = [m \in Points |-> 0] /\ left = [m \in Points |-> FALSE]
  BY DEF MountInit
<1>2. <<>> \in Seq(Programs) /\ Len(<<>>) = 0
  BY EmptySeq
<1>3. MountTypeOK
  BY <1>1, <1>2 DEF MountTypeOK
<1>4. \A r \in Removers : remover[r] = "none"
  BY <1>1
<1>5. \A m : Mounting(m) = {} /\ Unlisting(m) = {}
  BY <1>1, <1>4 DEF Mounting, Unlisting
<1>6. MtabMatches
  <2>1. Cardinality({}) = 0
    BY FS_EmptySet
  <2>2. \A m \in Points : /\ mtab[m] = 0 /\ unlisted[m] = 0 /\ Len(stack[m]) = 0
                          /\ Cardinality(Mounting(m)) = 0 /\ Cardinality(Unlisting(m)) = 0
    BY <1>1, <1>2, <1>5, <2>1
  <2> QED  BY <2>2 DEF MtabMatches
<1>7. NotYet
  <2>1. \A p \in Programs : remover[Own(p)] = "none" /\ remover[Daemon(p)] = "none"
    BY <1>4, RemoverKinds
  <2> QED  BY <1>1, <2>1 DEF NotYet
<1>8. LockedAlone /\ HasPlace /\ FoundInMtab
  BY <1>4 DEF LockedAlone, HasPlace, FoundInMtab, Holds
<1> QED  BY <1>3, <1>6, <1>7, <1>8 DEF MountInv

\* A step that neither takes the lock nor changes what MtabMatches is about.
LEMMA QuietStep ==
  ASSUME MountInv, MountTypeOK', UNCHANGED <<stack, mtab, unlisted>>,
         \A p \in Programs : helper'[p] = "mounted" <=> helper[p] = "mounted",
         \A r \in Removers : remover'[r] = "off" <=> remover[r] = "off",
         \A r \in Removers : remover'[r] = "checked" => remover[r] = "checked",
         \A r \in Removers : remover[r] # "none" => PlaceOf(r)' = PlaceOf(r),
         NotYet',
         \A r \in Removers : remover'[r] # "none" => PlaceOf(r)' \in Points
  PROVE  MountInv'
<1>1. \A r \in Removers : Holds(r)' => Holds(r) /\ PlaceOf(r)' = PlaceOf(r)
  BY DEF Holds
<1>2. LockedAlone' /\ HasPlace' /\ FoundInMtab'
  BY <1>1 DEF MountInv, LockedAlone, HasPlace, FoundInMtab
<1>3. \A m \in Points : Mounting(m)' = Mounting(m) /\ Unlisting(m)' = Unlisting(m)
  BY DEF Mounting, Unlisting
<1>4. MtabMatches'
  BY <1>3 DEF MountInv, MtabMatches
<1> QED  BY <1>2, <1>4 DEF MountInv

\* No variable of a mount leaves its type.
LEMMA MountTypes ==
  ASSUME MountInv, [MountNext]_mountvars
  PROVE  MountTypeOK'
<1> USE DEF MountTypeOK, Goes, Helps, Removes
<1>0. MountTypeOK
  BY DEF MountInv
<1>1. CASE UNCHANGED mountvars
  BY <1>0, <1>1 DEF mountvars
<1>2. ASSUME NEW p \in Programs, MountFaults(p) \/ MountSteps(p)
      PROVE  MountTypeOK'
  <2>1. PointOf[p] \in Points /\ Own(p) \in Removers /\ Daemon(p) \in Removers
    BY RemoverKinds DEF Points
  <2>2. ASSUME MountFails(p) \/ KernMount(p) \/ CountMounts(p) \/ SendFd(p) \/ SendFails(p)
        PROVE  MountTypeOK'
    BY <1>0, <2>2 DEF MountFails, KernMount, CountMounts, SendFd, SendFails, Stays
  <2>3. ASSUME Terminated(p) \/ LoopEnds(p) \/ ReceiveFd(p) \/ Unmounted(p) \/ DaemonWakes(p)
        PROVE  MountTypeOK'
    BY <1>0, <2>1, <2>3 DEF Terminated, LoopEnds, KernUnmount, ReceiveFd, Unmounted, DaemonWakes
  <2>4. ASSUME Killed(p) \/ AddFails(p) \/ AddMount(p)
        PROVE  MountTypeOK'
    <3>1. CASE Killed(p)
      <4>1. left[PointOf[p]] \in BOOLEAN
        BY <1>0, <2>1
      <4>2. (left[PointOf[p]] \/ helper[p] # "waits") \in BOOLEAN
        OBVIOUS
      <4> QED  BY <1>0, <2>1, <3>1, <4>2 DEF Killed
    <3>2. CASE AddFails(p)
      BY <1>0, <2>1, <3>2 DEF AddFails
    <3>3. CASE AddMount(p)
      BY <1>0, <2>1, <3>3 DEF AddMount
    <3> QED  BY <2>4, <3>1, <3>2, <3>3
  <2>5. ASSUME DoMount(p) PROVE MountTypeOK'
    <3>1. Append(stack[PointOf[p]], p) \in Seq(Programs)
      BY <1>0, <2>1, AppendProperties
    <3> QED  BY <1>0, <2>1, <2>5, <3>1 DEF DoMount
  <2> QED  BY <1>2, <2>2, <2>3, <2>4, <2>5 DEF MountFaults, MountSteps
<1>3. ASSUME NEW r \in Removers, UnmountSteps(r) \/ UmountBusy(r)
      PROVE  MountTypeOK'
  <2>1. ASSUME MayUnmount(r) \/ UmountBusy(r) PROVE MountTypeOK'
    BY <1>0, <2>1 DEF MayUnmount, UmountBusy
  <2>2. ASSUME Umount(r) PROVE MountTypeOK'
    <3>1. CASE stack[PlaceOf(r)] = <<>>
      BY <1>0, <2>2, <3>1 DEF Umount
    <3>2. CASE stack[PlaceOf(r)] # <<>>
      <4>1. PlaceOf(r) \in Points
        BY <2>2 DEF MountInv, HasPlace, Umount
      <4> DEFINE s == stack[PlaceOf(r)]
      <4>2. s \in Seq(Programs) /\ s # <<>>
        BY <1>0, <3>2, <4>1
      <4> HIDE DEF s
      <4>3. SubSeq(s, 1, Len(s) - 1) \in Seq(Programs)
        <5>1. Len(s) \in Nat /\ Len(s) # 0
          BY <4>2, EmptySeq, LenProperties
        <5> QED  BY <4>2, <5>1, SubSeqProperties
      <4> QED  BY <1>0, <2>2, <3>2, <4>1, <4>3 DEF Umount, s
    <3> QED  BY <3>1, <3>2
  <2>3. ASSUME RemoveMount(r) PROVE MountTypeOK'
    <3>1. PlaceOf(r) \in Points
      BY <2>3 DEF MountInv, HasPlace, RemoveMount
    <3>2. mtab[PlaceOf(r)] \in Nat
      BY <1>0, <3>1
    <3>3. (IF mtab[PlaceOf(r)] = 0 THEN 0 ELSE mtab[PlaceOf(r)] - 1) \in Nat
      BY <3>2
    <3> QED  BY <1>0, <2>3, <3>1, <3>3 DEF RemoveMount
  <2> QED  BY <1>3, <2>1, <2>2, <2>3 DEF UnmountSteps
<1>4. ASSUME NEW h \in Hands, NEW m \in Points, UserUnmounts(h, m)
      PROVE  MountTypeOK'
  BY <1>0, <1>4, RemoverKinds DEF UserUnmounts
<1> QED  BY <1>1, <1>2, <1>3, <1>4 DEF MountNext

\* The steps of fusermount at a mount, and of the program, that leave the
\* numbers of mounts and of entries as they are.
LEMMA ProgramQuiet ==
  ASSUME MountInv, MountTypeOK', NEW p \in Programs,
         \/ MountFails(p) \/ KernMount(p) \/ CountMounts(p) \/ SendFd(p) \/ SendFails(p)
         \/ Terminated(p) \/ LoopEnds(p) \/ ReceiveFd(p) \/ Unmounted(p) \/ DaemonWakes(p)
         \/ Killed(p)
  PROVE  MountInv'
<1>1. UNCHANGED <<where, stack, mtab, unlisted>> /\ MountTypeOK
  BY DEF MountInv, MountFails, KernMount, CountMounts, SendFd, SendFails, Terminated, LoopEnds,
         KernUnmount, ReceiveFd, Unmounted, DaemonWakes, Killed
<1>2. \A r \in Removers : PlaceOf(r)' = PlaceOf(r)
  BY <1>1 DEF PlaceOf
<1>3. \A q \in Programs : helper'[q] = "mounted" <=> helper[q] = "mounted"
  <2>1. CASE UNCHANGED helper
    BY <2>1
  <2>2. ASSUME NEW to, Helps(p, to), to # "mounted", helper[p] # "mounted"
        PROVE  \A q \in Programs : helper'[q] = "mounted" <=> helper[q] = "mounted"
    BY <1>1, <2>2 DEF MountTypeOK, Helps
  <2>3. CASE \/ Terminated(p) \/ LoopEnds(p) \/ ReceiveFd(p) \/ Unmounted(p) \/ Killed(p)
    BY <2>1, <2>3 DEF Terminated, LoopEnds, KernUnmount, ReceiveFd, Unmounted, Killed
  <2>4. CASE MountFails(p) \/ KernMount(p)
    <3>1. MountFails(p) => Helps(p, "gone") /\ helper[p] # "mounted"
      BY DEF MountFails
    <3>2. KernMount(p) => Helps(p, "start") /\ helper[p] # "mounted"
      BY DEF KernMount, MountInv, NotYet
    <3> QED  BY <2>2, <2>4, <3>1, <3>2
  <2>5. CASE CountMounts(p)
    <3>1. helper[p] # "mounted" /\ (Helps(p, "gone") \/ Helps(p, "counted"))
      BY <2>5 DEF CountMounts
    <3> QED  BY <2>2, <3>1
  <2>6. CASE SendFd(p) \/ SendFails(p) \/ DaemonWakes(p)
    <3>1. helper[p] # "mounted" /\ (Helps(p, "gone") \/ Helps(p, "waits") \/ Helps(p, "sent"))
      BY <2>6 DEF SendFd, Stays, SendFails, DaemonWakes
    <3> QED  BY <2>2, <3>1
  <2> QED  BY <2>3, <2>4, <2>5, <2>6
<1>4. \A r \in Removers : \/ remover'[r] = remover[r]
                          \/ remover[r] = "none" /\ remover'[r] = "want" /\ PlaceOf(r) \in Points
  <2>1. CASE UNCHANGED remover
    BY <2>1
  <2>2. ASSUME NEW who \in {Own(p), Daemon(p)}, Removes(who, "want"), remover[who] = "none"
        PROVE  \A r \in Removers :
                 \/ remover'[r] = remover[r]
                 \/ remover[r] = "none" /\ remover'[r] = "want" /\ PlaceOf(r) \in Points
    <3>1. who \in Removers /\ PlaceOf(who) \in Points
      BY RemoverKinds
    <3> QED  BY <1>1, <2>2, <3>1 DEF MountTypeOK, Removes
  <2>3. CASE Terminated(p) \/ LoopEnds(p)
    <3>1. program[p] = "serving" /\ (UNCHANGED remover \/ Removes(Own(p), "want"))
      BY <2>3 DEF Terminated, LoopEnds, KernUnmount
    <3>2. remover[Own(p)] = "none"
      BY <3>1 DEF MountInv, NotYet
    <3> QED  BY <2>1, <2>2, <3>1, <3>2
  <2>4. CASE DaemonWakes(p)
    <3>1. helper[p] = "waits" /\ Removes(Daemon(p), "want")
      BY <2>4 DEF DaemonWakes
    <3>2. remover[Daemon(p)] = "none"
      BY <3>1 DEF MountInv, NotYet
    <3> QED  BY <2>2, <3>1, <3>2
  <2>5. CASE \/ MountFails(p) \/ KernMount(p) \/ CountMounts(p) \/ SendFd(p) \/ SendFails(p)
             \/ ReceiveFd(p) \/ Unmounted(p) \/ Killed(p)
    BY <2>1, <2>5 DEF MountFails, KernMount, CountMounts, SendFd, SendFails, ReceiveFd,
                      Unmounted, Killed
  <2> QED  BY <2>3, <2>4, <2>5
<1>5. NotYet'
  <2> SUFFICES ASSUME NEW q \in Programs
               PROVE  /\ program'[q] = "new" => helper'[q] = "none"
                      /\ program'[q] \in {"new", "asking", "serving"} => remover'[Own(q)] = "none"
                      /\ helper'[q] # "gone" => remover'[Daemon(q)] = "none"
    BY DEF NotYet
  <2>1. /\ program[q] = "new" => helper[q] = "none"
        /\ program[q] \in {"new", "asking", "serving"} => remover[Own(q)] = "none"
        /\ helper[q] # "gone" => remover[Daemon(q)] = "none"
    BY DEF MountInv, NotYet
  <2>0. /\ Own(q) \in Removers /\ Daemon(q) \in Removers
        /\ Own(q) # Daemon(p) /\ Own(p) # Daemon(q)
        /\ Own(p) = Own(q) => p = q
        /\ Daemon(p) = Daemon(q) => p = q
    BY RemoverKinds, RemoversApart
  <2> USE DEF MountTypeOK, Goes, Helps, Removes
  <2>2. CASE MountFails(p) \/ KernMount(p)
    BY <1>1, <2>0, <2>1, <2>2 DEF MountFails, KernMount
  <2>3. CASE CountMounts(p) \/ SendFails(p) \/ SendFd(p)
    BY <1>1, <2>0, <2>1, <2>3 DEF CountMounts, SendFails, SendFd, Stays
  <2>4. CASE Terminated(p) \/ LoopEnds(p)
    BY <1>1, <2>0, <2>1, <2>4 DEF Terminated, LoopEnds, KernUnmount
  <2>5. CASE ReceiveFd(p) \/ Unmounted(p) \/ Killed(p)
    BY <1>1, <2>0, <2>1, <2>5 DEF ReceiveFd, Unmounted, Killed
  <2>6. CASE DaemonWakes(p)
    BY <1>1, <2>0, <2>1, <2>6 DEF DaemonWakes
  <2> QED  BY <2>2, <2>3, <2>4, <2>5, <2>6
<1>6. \A r \in Removers : remover[r] # "none" => PlaceOf(r) \in Points
  BY DEF MountInv, HasPlace
<1> QED  BY <1>1, <1>2, <1>3, <1>4, <1>5, <1>6, QuietStep

\* The account of one mountpoint, as it is kept by the steps at another.
LEMMA MountedStep ==
  ASSUME MountInv, MountTypeOK', NEW p \in Programs, DoMount(p) \/ AddMount(p) \/ AddFails(p)
  PROVE  MountInv'
<1> DEFINE M == PointOf[p]
<1>1. /\ UNCHANGED <<program, remover, where>> /\ M \in Points /\ MountTypeOK
      /\ \A q \in Programs : q # p => helper'[q] = helper[q]
      /\ helper[p] \in {"counted", "mounted"} /\ helper'[p] \in {"mounted", "listed", "gone"}
  BY DEF MountInv, MountTypeOK, Helps, DoMount, AddMount, AddFails, Points
<1>2. \A m : Unlisting(m)' = Unlisting(m)
  BY <1>1 DEF Unlisting, PlaceOf
<1>3. \A m : m # M => Mounting(m)' = Mounting(m)
  BY <1>1 DEF Mounting
<1>4. \A m \in Points : m # M => stack'[m] = stack[m] /\ mtab'[m] = mtab[m] /\ unlisted'[m] = unlisted[m]
  BY <1>1 DEF MountTypeOK, DoMount, AddMount, AddFails
<1>5. /\ mtab[M] \in Nat /\ unlisted[M] \in Nat /\ stack[M] \in Seq(Programs) /\ Len(stack[M]) \in Nat
      /\ Cardinality(Mounting(M)) \in Nat /\ Cardinality(Unlisting(M)) \in Nat
      /\ IsFiniteSet(Mounting(M))
      /\ mtab[M] + unlisted[M] + Cardinality(Mounting(M)) = Len(stack[M]) + Cardinality(Unlisting(M))
  BY <1>1, CountsFinite, LenProperties DEF MountTypeOK, MountInv, MtabMatches
<1> HIDE DEF M
<1>6. /\ mtab'[M] + unlisted'[M] + Cardinality(Mounting(M)') = Len(stack'[M]) + Cardinality(Unlisting(M))
      /\ mtab'[M] >= mtab[M]
  <2>1. CASE DoMount(p)
    <3>1. helper[p] # "mounted" /\ helper'[p] = "mounted"
      BY <1>1, <2>1 DEF DoMount, MountTypeOK, Helps
    <3>2. Mounting(M)' = Mounting(M) \cup {p} /\ p \notin Mounting(M)
      BY <1>1, <3>1 DEF Mounting, M
    <3>3. Cardinality(Mounting(M)') = Cardinality(Mounting(M)) + 1
      BY <1>5, <3>2, FS_AddElement
    <3>4. Len(Append(stack[M], p)) = Len(stack[M]) + 1
      BY <1>5, AppendProperties
    <3>5. stack'[M] = Append(stack[M], p) /\ mtab'[M] = mtab[M] /\ unlisted'[M] = unlisted[M]
      BY <1>1, <2>1 DEF DoMount, MountTypeOK, M
    <3>6. /\ mtab[M] + unlisted[M] + (Cardinality(Mounting(M)) + 1) = (Len(stack[M]) + 1) + Cardinality(Unlisting(M))
          /\ mtab[M] >= mtab[M]
      BY <1>5, SMTT(30)
    <3> QED  BY <3>3, <3>4, <3>5, <3>6
  <2>2. CASE AddMount(p) \/ AddFails(p)
    <3>1. helper[p] = "mounted" /\ helper'[p] # "mounted"
      BY <1>1, <2>2 DEF AddMount, AddFails, MountTypeOK, Helps
    <3>2. Mounting(M)' = Mounting(M) \ {p} /\ p \in Mounting(M)
      BY <1>1, <3>1 DEF Mounting, M
    <3>3. Cardinality(Mounting(M)') = Cardinality(Mounting(M)) - 1
      BY <1>5, <3>2, FS_RemoveElement
    <3>4. /\ UNCHANGED stack
          /\ \/ mtab'[M] = mtab[M] + 1 /\ unlisted'[M] = unlisted[M]
             \/ unlisted'[M] = unlisted[M] + 1 /\ mtab'[M] = mtab[M]
      BY <1>1, <2>2 DEF AddMount, AddFails, MountTypeOK, M
    <3>5. /\ (mtab[M] + 1) + unlisted[M] + (Cardinality(Mounting(M)) - 1) = Len(stack[M]) + Cardinality(Unlisting(M))
          /\ mtab[M] + (unlisted[M] + 1) + (Cardinality(Mounting(M)) - 1) = Len(stack[M]) + Cardinality(Unlisting(M))
          /\ mtab[M] >= mtab[M] /\ mtab[M] + 1 >= mtab[M]
      BY <1>5, SMTT(30)
    <3> QED  BY <3>3, <3>4, <3>5
  <2> QED  BY <2>1, <2>2
<1>7. MtabMatches'
  <2> SUFFICES ASSUME NEW m \in Points
               PROVE  mtab'[m] + unlisted'[m] + Cardinality(Mounting(m)')
                        = Len(stack'[m]) + Cardinality(Unlisting(m)')
    BY DEF MtabMatches
  <2>1. CASE m = M
    BY <1>2, <1>6, <2>1
  <2>2. CASE m # M
    BY <1>2, <1>3, <1>4, <2>2 DEF MountInv, MtabMatches
  <2> QED  BY <2>1, <2>2
<1>8. FoundInMtab'
  <2> SUFFICES ASSUME NEW r \in Removers, Holds(r)
               PROVE  mtab'[PlaceOf(r)] > 0
    BY <1>1 DEF FoundInMtab, Holds, PlaceOf
  <2>1. PlaceOf(r) \in Points /\ mtab[PlaceOf(r)] > 0
    BY DEF MountInv, HasPlace, FoundInMtab, Holds
  <2>2. mtab[PlaceOf(r)] \in Nat /\ mtab'[PlaceOf(r)] \in Nat
    BY <1>1, <2>1 DEF MountTypeOK
  <2> QED  BY <1>4, <1>6, <2>1, <2>2
<1>9. NotYet'
  <2>1. helper[p] # "gone" /\ program[p] # "new"
    BY <1>1 DEF MountInv, NotYet
  <2> QED  BY <1>1, <2>1 DEF MountInv, NotYet
<1>10. LockedAlone' /\ HasPlace'
  BY <1>1 DEF MountInv, LockedAlone, HasPlace, Holds, PlaceOf
<1> QED  BY <1>7, <1>8, <1>9, <1>10 DEF MountInv

\* "fusermount -u", whoever runs it: it has the lock, so that the entry it found
\* is still there when it takes one out.
LEMMA RemoverStep ==
  ASSUME MountInv, MountTypeOK', NEW r \in Removers, UnmountSteps(r) \/ UmountBusy(r)
  PROVE  MountInv'
<1> DEFINE M == PlaceOf(r)
<1>1. /\ UNCHANGED <<program, helper, where, unlisted>> /\ MountTypeOK
      /\ \A q \in Removers : q # r => remover'[q] = remover[q]
      /\ remover[r] # "none" /\ remover'[r] # "none"
  BY DEF MountInv, MountTypeOK, Removes, UnmountSteps, MayUnmount, Umount, RemoveMount, UmountBusy
<1>2. M \in Points /\ \A q : PlaceOf(q)' = PlaceOf(q)
  BY <1>1 DEF MountInv, HasPlace, PlaceOf
<1>3. (\A q \in Removers : ~Holds(q)) \/ Holds(r)
  BY DEF UnmountSteps, MayUnmount, LockUmount, Umount, RemoveMount, UmountBusy, Holds
<1>4. \A q \in Removers : q # r => ~Holds(q) /\ ~Holds(q)'
  BY <1>1, <1>3 DEF MountInv, LockedAlone, Holds
<1>5. LockedAlone' /\ HasPlace'
  BY <1>1, <1>2, <1>4 DEF MountInv, LockedAlone, HasPlace
<1>6. NotYet'
  <2>1. \A p \in Programs : /\ Own(p) \in Removers /\ Daemon(p) \in Removers
    BY RemoverKinds
  <2>2. \A q \in Removers : remover[q] = "none" => remover'[q] = "none"
    BY <1>1
  <2> QED  BY <1>1, <2>1, <2>2 DEF MountInv, NotYet
<1>7. \A m : m # M => Unlisting(m)' = Unlisting(m)
  BY <1>1, <1>2 DEF Unlisting
<1>8. \A m : Mounting(m)' = Mounting(m)
  BY <1>1 DEF Mounting
<1>9. \A m \in Points : m # M => stack'[m] = stack[m] /\ mtab'[m] = mtab[m]
  BY <1>1 DEF MountTypeOK, UnmountSteps, MayUnmount, Umount, RemoveMount, UmountBusy
<1>10. /\ mtab[M] \in Nat /\ unlisted[M] \in Nat /\ stack[M] \in Seq(Programs) /\ Len(stack[M]) \in Nat
       /\ Cardinality(Mounting(M)) \in Nat /\ Cardinality(Unlisting(M)) \in Nat
       /\ IsFiniteSet(Unlisting(M))
       /\ mtab[M] + unlisted[M] + Cardinality(Mounting(M)) = Len(stack[M]) + Cardinality(Unlisting(M))
  BY <1>1, <1>2, CountsFinite, LenProperties DEF MountTypeOK, MountInv, MtabMatches
<1>11. Holds(r) => mtab[M] > 0
  BY DEF MountInv, FoundInMtab
<1>12. M' = M
  BY <1>2
<1>13. /\ remover'[r] = "off" => r \in Unlisting(M)'
       /\ remover'[r] # "off" => r \notin Unlisting(M)'
       /\ remover[r] = "off" => r \in Unlisting(M)
       /\ remover[r] # "off" => r \notin Unlisting(M)
       /\ \A q : q # r => (q \in Unlisting(M)' <=> q \in Unlisting(M))
  BY <1>1, <1>2 DEF Unlisting
<1> HIDE DEF M
<1>14. /\ mtab'[M] + unlisted[M] + Cardinality(Mounting(M)) = Len(stack'[M]) + Cardinality(Unlisting(M)')
       /\ Holds(r)' => mtab'[M] > 0
  <2>1. CASE remover[r] = "checked" /\ remover'[r] = "off"
    <3>1. stack[M] # <<>> /\ stack'[M] = SubSeq(stack[M], 1, Len(stack[M]) - 1) /\ UNCHANGED mtab
      BY <1>1, <1>2, <2>1 DEF UnmountSteps, MayUnmount, Umount, RemoveMount, UmountBusy, Removes,
                              MountTypeOK, M
    <3>2. Len(stack[M]) # 0 /\ \A i \in 1 .. Len(stack[M]) - 1 : stack[M][i] \in Programs
      BY <1>10, <3>1, EmptySeq, ElementOfSeq
    <3>3. Len(stack'[M]) = Len(stack[M]) - 1
      BY <1>10, <3>1, <3>2, SubSeqProperties
    <3>4. Unlisting(M)' = Unlisting(M) \cup {r} /\ r \notin Unlisting(M)
      BY <1>13, <2>1
    <3>5. Cardinality(Unlisting(M)') = Cardinality(Unlisting(M)) + 1
      BY <1>10, <3>4, FS_AddElement
    <3>6. mtab'[M] = mtab[M] /\ mtab[M] > 0
      BY <1>11, <2>1, <3>1 DEF Holds
    <3> QED  BY <1>10, <3>3, <3>5, <3>6
  <2>2. CASE remover[r] = "off"
    <3>1. UNCHANGED stack /\ mtab'[M] = mtab[M] - 1 /\ ~Holds(r)'
      <4>1. mtab[M] # 0
        BY <1>10, <1>11, <2>2 DEF Holds
      <4> QED  BY <1>1, <1>2, <2>2, <4>1 DEF UnmountSteps, MayUnmount, Umount, RemoveMount, UmountBusy,
                                         Removes, MountTypeOK, M, Holds
    <3>2. Unlisting(M)' = Unlisting(M) \ {r} /\ r \in Unlisting(M)
      BY <1>13, <2>2, <3>1 DEF Holds
    <3>3. Cardinality(Unlisting(M)') = Cardinality(Unlisting(M)) - 1
      BY <1>10, <3>2, FS_RemoveElement
    <3>4. Len(stack'[M]) = Len(stack[M])
      BY <3>1
    <3>5. mtab'[M] + unlisted[M] + Cardinality(Mounting(M)) = Len(stack'[M]) + Cardinality(Unlisting(M)')
      <4>1. mtab'[M] = mtab[M] - 1
        BY <3>1
      <4>2. (mtab[M] - 1) + unlisted[M] + Cardinality(Mounting(M))
              = Len(stack[M]) + (Cardinality(Unlisting(M)) - 1)
        <5> DEFINE a == mtab[M]
                   b == unlisted[M]
                   c == Cardinality(Mounting(M))
                   d == Len(stack[M])
                   e == Cardinality(Unlisting(M))
        <5>1. a \in Nat /\ b \in Nat /\ c \in Nat /\ d \in Nat /\ e \in Nat /\ a + b + c = d + e
          BY <1>10
        <5> HIDE DEF a, b, c, d, e
        <5>2. (a - 1) + b + c = d + (e - 1)
          BY <5>1
        <5> QED  BY <5>2 DEF a, b, c, d, e
      <4> QED  BY <3>3, <3>4, <4>1, <4>2
    <3> QED  BY <3>1, <3>5
  <2>3. CASE remover[r] # "off" /\ remover'[r] # "off"
    <3>1. UNCHANGED <<stack, mtab>> /\ (Holds(r)' => mtab[M] > 0)
      BY <1>1, <1>2, <2>3 DEF UnmountSteps, MayUnmount, Umount, RemoveMount, UmountBusy, Removes,
                              MountTypeOK, M, Holds
    <3>2. Unlisting(M)' = Unlisting(M)
      BY <1>13, <2>3
    <3> QED  BY <1>10, <3>1, <3>2
  <2>4. \/ remover[r] = "off" \/ remover'[r] # "off"
        \/ remover[r] = "checked" /\ remover'[r] = "off"
    BY <1>1 DEF UnmountSteps, MayUnmount, Umount, RemoveMount, UmountBusy, Removes, MountTypeOK
  <2> QED  BY <2>1, <2>2, <2>3, <2>4
<1>15. MtabMatches'
  <2> SUFFICES ASSUME NEW m \in Points
               PROVE  mtab'[m] + unlisted'[m] + Cardinality(Mounting(m)')
                        = Len(stack'[m]) + Cardinality(Unlisting(m)')
    BY DEF MtabMatches
  <2>1. CASE m = M
    BY <1>1, <1>8, <1>12, <1>14, <2>1
  <2>2. CASE m # M
    BY <1>1, <1>7, <1>8, <1>9, <2>2 DEF MountInv, MtabMatches
  <2> QED  BY <2>1, <2>2
<1>16. FoundInMtab'
  BY <1>2, <1>4, <1>14 DEF FoundInMtab, M
<1> QED  BY <1>5, <1>6, <1>15, <1>16 DEF MountInv

LEMMA UserUnmountsInv ==
  ASSUME MountInv, MountTypeOK', NEW h \in Hands, NEW m \in Points, UserUnmounts(h, m)
  PROVE  MountInv'
<1>1. /\ UNCHANGED <<auto, program, helper, stack, mtab, unlisted, left>> /\ MountTypeOK
      /\ Hand(h) \in Removers /\ remover[Hand(h)] = "none" /\ remover'[Hand(h)] = "want"
      /\ \A r \in Removers : r # Hand(h) => remover'[r] = remover[r]
      /\ where'[h] = m /\ \A k \in Hands : k # h => where'[k] = where[k]
  BY RemoverKinds DEF MountInv, MountTypeOK, UserUnmounts, Removes
<1>2. PlaceOf(Hand(h))' = m /\ \A r \in Removers : r # Hand(h) => PlaceOf(r)' = PlaceOf(r)
  BY <1>1, RemoverKinds DEF PlaceOf
<1>3. NotYet'
  <2>1. \A p \in Programs : /\ Own(p) \in Removers \ {Hand(h)} /\ Daemon(p) \in Removers \ {Hand(h)}
    BY RemoverKinds
  <2> QED  BY <1>1, <2>1 DEF MountInv, NotYet
<1>4. \A r \in Removers : remover'[r] # "none" => PlaceOf(r)' \in Points
  BY <1>1, <1>2 DEF MountInv, HasPlace
<1> QED  BY <1>1, <1>2, <1>3, <1>4, QuietStep

LEMMA MountNextInv ==
  ASSUME MountInv, [MountNext]_mountvars
  PROVE  MountInv'
<1>1. MountTypeOK'
  BY MountTypes
<1>2. CASE UNCHANGED mountvars
  <2>1. UNCHANGED <<auto, program, helper, remover, where, stack, mtab, unlisted, left>>
    BY <1>2 DEF mountvars
  <2>2. \A r : PlaceOf(r)' = PlaceOf(r)
    BY <2>1 DEF PlaceOf
  <2>3. NotYet'
    BY <2>1 DEF MountInv, NotYet
  <2>4. \A r \in Removers : remover[r] # "none" => PlaceOf(r) \in Points
    BY DEF MountInv, HasPlace
  <2> QED  BY <1>1, <2>1, <2>2, <2>3, <2>4, QuietStep
<1>3. ASSUME NEW p \in Programs, MountFaults(p) \/ MountSteps(p)
      PROVE  MountInv'
  BY <1>1, <1>3, ProgramQuiet, MountedStep DEF MountFaults, MountSteps
<1>4. ASSUME NEW r \in Removers, UnmountSteps(r) \/ UmountBusy(r)
      PROVE  MountInv'
  BY <1>1, <1>4, RemoverStep
<1>5. ASSUME NEW h \in Hands, NEW m \in Points, UserUnmounts(h, m)
      PROVE  MountInv'
  BY <1>1, <1>5, UserUnmountsInv
<1> QED  BY <1>2, <1>3, <1>4, <1>5 DEF MountNext

(***************************************************************************)
(* /etc/mtab stays a true account of what is mounted, for any number of    *)
(* programs, mountpoints and users: add_mount and fuse_mnt_remove_mount of *)
(* fusermount keep pace with mount and umount2, however the calls mix.     *)
(***************************************************************************)
THEOREM MtabIsTrue == MountSpec => []MtabMatches
<1>1. MountInv => MtabMatches
  BY DEF MountInv
<1> QED  BY <1>1, MountInitInv, MountNextInv, PTL DEF MountSpec

-----------------------------------------------------------------------------
(***************************************************************************)
(* The session: its threads.                                               *)
(***************************************************************************)

\* The workers that count as available, which numavail is the number of.
Available == {w \in listed : ~AtWork(w)}

\* A worker that goes on, neither taking up nor ending a request.
LEMMA WorkerGoesOn ==
  ASSUME ThreadInv, NEW w \in Workers, UNCHANGED <<main, mt_exit, listed, numavail>>,
         listed \subseteq Workers,
         \A v \in Workers : v # w => pc'[v] = pc[v] /\ job'[v] = job[v],
         pc[w] \notin {"none", "dead"}, pc'[w] # "none",
         pc[w] \in Idles <=> pc'[w] \in Idles,
         pc[w] \in Idles \/ job'[w] = job[w]
  PROVE  ThreadInv'
<1>1. \A v \in Workers : AtWork(v)' <=> AtWork(v)
  BY DEF AtWork, Counts, Idles
<1>2. AvailTrue'
  <2>1. {v \in listed : ~AtWork(v)}' = {v \in listed : ~AtWork(v)}
    BY <1>1
  <2> QED  BY <2>1 DEF ThreadInv, AvailTrue
<1>3. ThreadsListed'
  BY DEF ThreadInv, ThreadsListed
<1> QED  BY <1>2, <1>3 DEF ThreadInv

\* A step in which no worker moves.
LEMMA WorkersRest ==
  ASSUME SessionTypeOK, ThreadInv, UNCHANGED <<mt_exit, listed, numavail, pc, job>>,
         main' \in {"join", "ended"} <=> main \in {"join", "ended"},
         main' = "ended" => main = "ended"
  PROVE  ThreadInv'
<1>1. AvailTrue'
  <2>1. {v \in listed : ~AtWork(v)}' = {v \in listed : ~AtWork(v)}
    BY DEF AtWork, Counts
  <2>2. main' \in {"check", "goes", "wait", "cancel"} => main \in {"check", "goes", "wait", "cancel"}
    BY DEF SessionTypeOK
  <2> QED  BY <2>1, <2>2 DEF ThreadInv, AvailTrue
<1> QED  BY <1>1 DEF ThreadInv, ThreadsListed

\* fuse_do_work takes a message, and may have fuse_loop_start_thread add a thread.
LEMMA TakeJobThreads ==
  ASSUME SessionTypeOK, ThreadInv, NEW w \in Workers, TakeJob(w)
  PROVE  ThreadInv'
<1>1. /\ pc \in [Workers -> Serves \cup Refers \cup Idles \cup {"process", "worked"}]
      /\ listed \subseteq Workers /\ numavail \in Int /\ IsFiniteSet(listed)
      /\ pc[w] = "got" /\ UNCHANGED <<main, mt_exit, job>> /\ w \in listed
  BY FS_Subset, FuseSessionAssumption DEF SessionTypeOK, ThreadInv, ThreadsListed, TakeJob
<1>2. CASE mt_exit
  <2>1. /\ UNCHANGED <<listed, numavail>> /\ pc'[w] = "dead"
        /\ \A v \in Workers : v # w => pc'[v] = pc[v]
    BY <1>1, <1>2 DEF TakeJob, Go
  <2> QED  BY <1>1, <2>1, WorkerGoesOn DEF Idles
<1>3. CASE ~mt_exit
  <2>1. PICK new \in NewThreads(numavail - Counts(w)) :
          /\ listed' = listed \cup new
          /\ numavail' = numavail - Counts(w) + Cardinality(new)
          /\ pc' = [v \in Workers |-> IF v = w THEN "process" ELSE IF v \in new THEN "loop" ELSE pc[v]]
    BY <1>3 DEF TakeJob
  <2>2. /\ new = {} \/ \E v \in Workers : new = {v} /\ pc[v] = "none"
        /\ new \subseteq Workers /\ \A v \in new : pc[v] = "none"
    BY DEF NewThreads
  <2>3. w \notin new /\ new \cap listed = {}
    BY <1>1, <2>2 DEF ThreadInv, ThreadsListed
  <2>4. ThreadsListed'
    <3>1. mt_exit' <=> main' \in {"join", "ended"}
      BY <1>1 DEF ThreadInv, ThreadsListed
    <3>2. \A v \in Workers : pc'[v] \notin {"none", "dead"} => v \in listed'
      BY <1>1, <2>1, <2>2 DEF ThreadInv, ThreadsListed
    <3>3. \A v \in Workers : pc'[v] = "none" => v \notin listed'
      BY <1>1, <2>1, <2>2 DEF ThreadInv, ThreadsListed
    <3>4. \A v \in Workers : pc'[v] # "none" => v \in listed'
      BY <1>1, <1>3, <2>1, <2>2 DEF ThreadInv, ThreadsListed
    <3>5. main' # "ended"
      BY <1>1, <1>3 DEF ThreadInv, ThreadsListed
    <3> QED  BY <3>1, <3>2, <3>3, <3>4, <3>5 DEF ThreadsListed
  <2>5. Available' = (Available \cup new) \ (IF Counts(w) = 1 THEN {w} ELSE {})
    <3>1. \A v \in Workers : v # w /\ v \notin new => (AtWork(v)' <=> AtWork(v))
      BY <1>1, <2>1 DEF AtWork, Counts
    <3>2. \A v \in new : v # w /\ ~AtWork(v)'
      BY <2>1, <2>2, <2>3 DEF AtWork
    <3>3. AtWork(w)' <=> Counts(w) = 1
      BY <1>1, <2>1 DEF AtWork, Counts
    <3>4. ~AtWork(w)
      BY <1>1 DEF AtWork
    <3>5. listed' = listed \cup new /\ listed \subseteq Workers
      BY <1>1, <2>1
    <3> QED  BY <1>1, <3>1, <3>2, <3>3, <3>4, <3>5, <2>3 DEF Available
  <2>6. /\ IsFiniteSet(Available) /\ Cardinality(Available) = numavail /\ numavail \in Nat
        /\ w \in Available
    <3>1. IsFiniteSet(Available)
      BY <1>1, FS_Subset DEF Available
    <3>2. main \in {"check", "goes", "wait", "cancel"}
      BY <1>3 DEF ThreadInv, ThreadsListed, SessionTypeOK
    <3> QED  BY <1>1, <3>1, <3>2, FS_CardinalityType DEF ThreadInv, AvailTrue, Available, AtWork
  <2>7. /\ IsFiniteSet(Available \cup new)
        /\ Cardinality(Available \cup new) = numavail + Cardinality(new)
        /\ Cardinality(new) \in Nat
    <3>1. CASE new = {}
      BY <2>6, <3>1, FS_EmptySet
    <3>2. ASSUME NEW v \in Workers, new = {v}
          PROVE  /\ IsFiniteSet(Available \cup new)
                 /\ Cardinality(Available \cup new) = numavail + Cardinality(new)
                 /\ Cardinality(new) \in Nat
      <4>1. v \notin Available
        BY <2>3, <3>2 DEF Available
      <4>2. Cardinality(new) = 1
        BY <3>2, FS_Singleton
      <4> QED  BY <2>6, <3>2, <4>1, <4>2, FS_AddElement
    <3> QED  BY <2>2, <3>1, <3>2
  <2>8. Cardinality(Available') = numavail'
    <3>1. CASE Counts(w) = 1
      <4>1. Available' = (Available \cup new) \ {w} /\ w \in Available \cup new
        BY <2>5, <2>6, <3>1
      <4>2. Cardinality(Available') = Cardinality(Available \cup new) - 1
        BY <2>7, <4>1, FS_RemoveElement
      <4> QED  BY <2>1, <2>6, <2>7, <3>1, <4>2
    <3>2. CASE Counts(w) = 0
      <4>1. Available' = Available \cup new
        BY <2>5, <3>2
      <4> QED  BY <2>1, <2>6, <2>7, <3>2, <4>1
    <3> QED  BY <3>1, <3>2 DEF Counts
  <2> QED  BY <2>4, <2>8 DEF ThreadInv, AvailTrue, Available
<1> QED  BY <1>2, <1>3

\* fuse_do_work after a request: the thread becomes available, or ends.
LEMMA JobDoneThreads ==
  ASSUME SessionTypeOK, ThreadInv, NEW w \in Workers, JobDone(w)
  PROVE  ThreadInv'
<1> DEFINE n == numavail + Counts(w)
<1>1. /\ pc \in [Workers -> Serves \cup Refers \cup Idles \cup {"process", "worked"}]
      /\ listed \subseteq Workers /\ numavail \in Int /\ IsFiniteSet(listed) /\ MaxIdle \in Nat
      /\ job \in [Workers -> Jobs]
      /\ pc[w] = "worked" /\ UNCHANGED <<main, mt_exit>> /\ w \in listed
      /\ Counts(w) \in {0, 1} /\ n \in Int
  BY FS_Subset, FuseSessionAssumption DEF SessionTypeOK, ThreadInv, ThreadsListed, JobDone, Counts
<1>2. /\ \A v \in Workers : v # w => pc'[v] = pc[v] /\ job'[v] = job[v]
      /\ \/ n > MaxIdle /\ ~mt_exit /\ listed' = listed \ {w} /\ numavail' = n - 1 /\ pc'[w] = "none"
         \/ numavail' = n /\ UNCHANGED listed /\ pc'[w] = "loop"
         \/ mt_exit /\ numavail' = n /\ UNCHANGED listed /\ pc'[w] = "dead"
  <2>1. \A v \in Workers : v # w => pc'[v] = pc[v] /\ job'[v] = job[v]
    BY <1>1 DEF JobDone, Go
  <2>2. CASE n > MaxIdle /\ ~mt_exit
    BY <1>1, <2>1, <2>2 DEF JobDone, Go
  <2>3. CASE ~(n > MaxIdle /\ ~mt_exit)
    BY <1>1, <2>1, <2>3 DEF JobDone, Go
  <2> QED  BY <2>2, <2>3
<1> HIDE DEF n
<1>3. ThreadsListed'
  <2>1. mt_exit' <=> main' \in {"join", "ended"}
    BY <1>1 DEF ThreadInv, ThreadsListed
  <2>2. main' # "ended"
    BY <1>1 DEF ThreadInv, ThreadsListed
  <2>3. \A v \in Workers : pc'[v] \notin {"none", "dead"} => v \in listed'
    BY <1>1, <1>2 DEF ThreadInv, ThreadsListed
  <2>4. \A v \in Workers : pc'[v] = "none" => v \notin listed'
    BY <1>1, <1>2 DEF ThreadInv, ThreadsListed
  <2>5. ~mt_exit' => \A v \in Workers : pc'[v] # "none" => v \in listed'
    BY <1>1, <1>2 DEF ThreadInv, ThreadsListed
  <2> QED  BY <2>1, <2>2, <2>3, <2>4, <2>5 DEF ThreadsListed
<1>4. \A v \in Workers : v # w => (AtWork(v)' <=> AtWork(v))
  BY <1>2 DEF AtWork, Counts
<1>5. ~AtWork(w)' /\ (AtWork(w) <=> Counts(w) = 1)
  BY <1>1, <1>2 DEF AtWork
<1>6. ASSUME main' \in {"check", "goes", "wait", "cancel"}
      PROVE  numavail' = Cardinality(Available')
  <2>1. ~mt_exit
    BY <1>1, <1>6 DEF ThreadInv, ThreadsListed
  <2>2. IsFiniteSet(Available) /\ Cardinality(Available) = numavail
    BY <1>1, <1>6, FS_Subset DEF ThreadInv, AvailTrue, Available
  <2>3. /\ IsFiniteSet(Available \cup {w})
        /\ Cardinality(Available \cup {w}) = n
    <3>1. w \in Available <=> Counts(w) = 0
      BY <1>1, <1>5 DEF Available
    <3> QED  BY <1>1, <2>2, <3>1, FS_AddElement DEF n
  <2>4. CASE numavail' = n /\ UNCHANGED listed
    <3>1. Available' = Available \cup {w}
      BY <1>1, <1>4, <1>5, <2>4 DEF Available
    <3> QED  BY <2>3, <2>4, <3>1
  <2>5. CASE listed' = listed \ {w} /\ numavail' = n - 1
    <3>1. Available' = (Available \cup {w}) \ {w}
      BY <1>1, <1>4, <2>5 DEF Available
    <3>2. Cardinality((Available \cup {w}) \ {w}) = Cardinality(Available \cup {w}) - 1
      BY <2>3, FS_RemoveElement
    <3> QED  BY <2>3, <2>5, <3>1, <3>2
  <2> QED  BY <1>2, <2>4, <2>5
<1> QED  BY <1>3, <1>6 DEF ThreadInv, AvailTrue, Available

\* fuse_session_loop_mt: it cancels the threads and joins each.
LEMMA MainThreads ==
  ASSUME SessionTypeOK, ThreadInv, MainCancels \/ MainJoins
  PROVE  ThreadInv'
<1>1. UNCHANGED pc /\ main' \in {"join", "ended"} /\ mt_exit'
  BY DEF MainCancels, MainJoins, ToMain, ThreadInv, ThreadsListed
<1>2. listed' \subseteq listed /\ \A w \in listed \ listed' : pc[w] = "dead"
  BY DEF MainCancels, MainJoins, ToMain
<1>3. main' = "ended" => listed' = {}
  BY DEF MainCancels, MainJoins, ToMain, ThreadInv, ThreadsListed
<1>4. AvailTrue'
  BY <1>1 DEF AvailTrue
<1> QED  BY <1>1, <1>2, <1>3, <1>4 DEF ThreadInv, ThreadsListed, SessionTypeOK

-----------------------------------------------------------------------------
(***************************************************************************)
(* The session: f->interrupts.                                             *)
(***************************************************************************)

\* A set of numbers that is not empty has a least member.
LEMMA LeastMember ==
  ASSUME NEW S \in SUBSET Nat, S # {}
  PROVE  Min(S) \in S /\ \A k \in S : Min(S) <= k
<1>1. PICK m \in S : \A k \in S : ~(<<k, m>> \in OpToRel(<, Nat))
  BY NatLessThanWellFounded, WFMin
<1>2. ASSUME NEW k \in S PROVE m <= k
  <2>1. k \in Nat /\ m \in Nat
    OBVIOUS
  <2>2. ~(k < m)
    BY <1>1, <2>1 DEF OpToRel
  <2> QED  BY <2>1, <2>2
<1> QED  BY <1>2 DEF Min

\* t is s, which names nobody twice, without r.
Without(s, r, t) ==
  /\ t \in Seq(Ops) /\ IsInjective(t)
  /\ \A q : q \in Range(t) <=> q \in Range(s) /\ q # r

\* A message is added to a list of different ones.
LEMMA AppendShape ==
  ASSUME NEW s \in Seq(Ops), IsInjective(s), NEW r \in Ops, r \notin Range(s)
  PROVE  /\ Append(s, r) \in Seq(Ops) /\ IsInjective(Append(s, r))
         /\ Range(Append(s, r)) = Range(s) \cup {r}
<1> DEFINE t == Append(s, r)
<1>1. /\ t \in Seq(Ops) /\ Len(t) = Len(s) + 1 /\ t[Len(s) + 1] = r
      /\ \A i \in 1 .. Len(s) : t[i] = s[i]
      /\ DOMAIN s = 1 .. Len(s) /\ Len(s) \in Nat /\ DOMAIN t = 1 .. Len(t)
  BY AppendProperties, LenProperties
<1> HIDE DEF t
<1>2. DOMAIN t = DOMAIN s \cup {Len(s) + 1} /\ Len(s) + 1 \notin DOMAIN s
  BY <1>1
<1> QED  BY <1>1, <1>2 DEF Range, IsInjective, t

\* The first one is taken.
LEMMA TailShape ==
  ASSUME NEW s \in Seq(Ops), IsInjective(s), s # <<>>
  PROVE  Head(s) \in Range(s) /\ Head(s) \in Ops /\ Without(s, Head(s), Tail(s))
<1> DEFINE t == Tail(s)
<1>1. /\ t \in Seq(Ops) /\ Len(t) = Len(s) - 1 /\ Head(s) = s[1] /\ Head(s) \in Ops
      /\ DOMAIN s = 1 .. Len(s) /\ Len(s) \in Nat /\ DOMAIN t = 1 .. Len(t)
      /\ \A i \in 1 .. Len(t) : t[i] = s[i + 1]
  BY HeadTailProperties, LenProperties
<1>2. Len(s) > 0 /\ 1 \in DOMAIN s
  BY <1>1, EmptySeq
<1> HIDE DEF t
<1>3. IsInjective(t)
  <2> SUFFICES ASSUME NEW i \in DOMAIN t, NEW j \in DOMAIN t, t[i] = t[j] PROVE i = j
    BY DEF IsInjective
  <2>1. i + 1 \in DOMAIN s /\ j + 1 \in DOMAIN s /\ s[i + 1] = s[j + 1]
    BY <1>1
  <2>2. i + 1 = j + 1
    BY <2>1 DEF IsInjective
  <2> QED  BY <1>1, <2>2
<1>4. ASSUME NEW q \in Range(t) PROVE q \in Range(s) /\ q # Head(s)
  <2>1. PICK i \in DOMAIN t : t[i] = q
    BY DEF Range
  <2>2. i + 1 \in DOMAIN s /\ s[i + 1] = q /\ i + 1 # 1
    BY <1>1, <2>1
  <2> QED  BY <1>1, <1>2, <2>2 DEF Range, IsInjective
<1>5. ASSUME NEW q \in Range(s), q # Head(s) PROVE q \in Range(t)
  <2>1. PICK i \in DOMAIN s : s[i] = q
    BY DEF Range
  <2>2. i - 1 \in DOMAIN t /\ t[i - 1] = s[(i - 1) + 1] /\ (i - 1) + 1 = i
    BY <1>1, <1>5, <2>1
  <2> QED  BY <2>1, <2>2 DEF Range
<1> QED  BY <1>1, <1>2, <1>3, <1>4, <1>5 DEF Without, Range, t

\* One is found, and taken.
LEMMA RemoveFirstShape ==
  ASSUME NEW s \in Seq(Ops), IsInjective(s), NEW r, Contains(s, r)
  PROVE  Without(s, r, RemoveFirst(s, r))
<1> DEFINE I == {i \in 1 .. Len(s) : s[i] = r}
           k == Min(I)
           a == SubSeq(s, 1, k - 1)
           b == SubSeq(s, k + 1, Len(s))
           t == a \o b
<1>1. DOMAIN s = 1 .. Len(s) /\ Len(s) \in Nat /\ \A i \in DOMAIN s : s[i] \in Ops
  BY LenProperties, ElementOfSeq
<1>2. I # {} /\ I \in SUBSET Nat
  BY <1>1 DEF Contains
<1>3. k \in I
  BY <1>2, LeastMember
<1>4. RemoveFirst(s, r) = t
  BY <1>2 DEF RemoveFirst, RemoveAt, SelectInSeq, Contains
<1>5. k \in 1 .. Len(s) /\ s[k] = r
  BY <1>3
<1> HIDE DEF k, I
<1>6. /\ a \in Seq(Ops) /\ Len(a) = k - 1
      /\ \A i \in 1 .. k - 1 : a[i] = s[i]
  <2>1. 1 \in Int /\ k - 1 \in Int /\ \A i \in 1 .. k - 1 : s[i] \in Ops
    BY <1>1, <1>5
  <2>2. /\ a \in Seq(Ops) /\ Len(a) = IF 1 <= k - 1 THEN (k - 1) - 1 + 1 ELSE 0
        /\ \A i \in 1 .. (k - 1) - 1 + 1 : a[i] = s[1 + i - 1]
    BY <2>1, SubSeqProperties
  <2> QED  BY <1>5, <2>2
<1>7. /\ b \in Seq(Ops) /\ Len(b) = Len(s) - k
      /\ \A i \in 1 .. Len(s) - k : b[i] = s[i + k]
  <2>1. k + 1 \in Int /\ Len(s) \in Int /\ \A i \in k + 1 .. Len(s) : s[i] \in Ops
    BY <1>1, <1>5
  <2>2. /\ b \in Seq(Ops) /\ Len(b) = IF k + 1 <= Len(s) THEN Len(s) - (k + 1) + 1 ELSE 0
        /\ \A i \in 1 .. Len(s) - (k + 1) + 1 : b[i] = s[(k + 1) + i - 1]
    BY <2>1, SubSeqProperties
  <2> QED  BY <1>1, <1>5, <2>2
<1> HIDE DEF a, b
<1>8. /\ t \in Seq(Ops) /\ Len(t) = Len(s) - 1 /\ DOMAIN t = 1 .. Len(t)
      /\ \A i \in 1 .. Len(t) : t[i] = IF i < k THEN s[i] ELSE s[i + 1]
  <2>1. /\ t \in Seq(Ops) /\ Len(t) = Len(a) + Len(b)
        /\ \A i \in 1 .. Len(a) + Len(b) : t[i] = IF i <= Len(a) THEN a[i] ELSE b[i - Len(a)]
    BY <1>6, <1>7, ConcatProperties
  <2>2. Len(t) = Len(s) - 1
    BY <1>1, <1>5, <1>6, <1>7, <2>1
  <2>3. ASSUME NEW i \in 1 .. Len(t) PROVE t[i] = IF i < k THEN s[i] ELSE s[i + 1]
    <3>1. CASE i < k
      BY <1>1, <1>5, <1>6, <1>7, <2>1, <2>2, <3>1
    <3>2. CASE ~(i < k)
      <4>1. i - (k - 1) \in 1 .. Len(s) - k /\ (i - (k - 1)) + k = i + 1 /\ ~(i <= k - 1)
        BY <1>1, <1>5, <2>2, <3>2
      <4>2. t[i] = b[i - (k - 1)]
        BY <1>6, <1>7, <2>1, <4>1
      <4> QED  BY <1>7, <3>2, <4>1, <4>2
    <3> QED  BY <3>1, <3>2
  <2> QED  BY <2>1, <2>2, <2>3, LenProperties
<1> HIDE DEF t
<1>9. \A i \in DOMAIN t : \E j \in DOMAIN s : j # k /\ t[i] = s[j] /\ j = IF i < k THEN i ELSE i + 1
  BY <1>1, <1>5, <1>8
<1>10. \A j \in DOMAIN s : j # k => \E i \in DOMAIN t : t[i] = s[j]
  <2> SUFFICES ASSUME NEW j \in DOMAIN s, j # k PROVE \E i \in DOMAIN t : t[i] = s[j]
    OBVIOUS
  <2>1. CASE j < k
    <3>1. j \in DOMAIN t /\ t[j] = s[j]
      BY <1>1, <1>5, <1>8, <2>1
    <3> QED  BY <3>1
  <2>2. CASE ~(j < k)
    <3>1. j - 1 \in DOMAIN t /\ ~(j - 1 < k) /\ (j - 1) + 1 = j
      BY <1>1, <1>5, <1>8, <2>2
    <3>2. t[j - 1] = s[(j - 1) + 1]
      BY <1>8, <3>1
    <3> QED  BY <3>1, <3>2
  <2> QED  BY <2>1, <2>2
<1>11. IsInjective(t)
  <2> SUFFICES ASSUME NEW i \in DOMAIN t, NEW j \in DOMAIN t, t[i] = t[j] PROVE i = j
    BY DEF IsInjective
  <2>1. PICK ii \in DOMAIN s : t[i] = s[ii] /\ ii = IF i < k THEN i ELSE i + 1
    BY <1>9
  <2>2. PICK jj \in DOMAIN s : t[j] = s[jj] /\ jj = IF j < k THEN j ELSE j + 1
    BY <1>9
  <2>3. ii = jj
    BY <2>1, <2>2 DEF IsInjective
  <2> QED  BY <1>5, <1>8, <2>1, <2>2, <2>3
<1>12. \A q : q \in Range(t) <=> q \in Range(s) /\ q # r
  <2>1. ASSUME NEW q, q \in Range(t) PROVE q \in Range(s) /\ q # r
    <3>1. PICK j \in DOMAIN s : j # k /\ q = s[j]
      BY <1>9, <2>1 DEF Range
    <3> QED  BY <1>1, <1>5, <3>1 DEF Range, IsInjective
  <2>2. ASSUME NEW q, q \in Range(s), q # r PROVE q \in Range(t)
    <3>1. PICK j \in DOMAIN s : s[j] = q
      BY <2>2 DEF Range
    <3>2. j # k
      BY <1>5, <2>2, <3>1
    <3> QED  BY <1>10, <3>1, <3>2 DEF Range
  <2> QED  BY <2>1, <2>2
<1> QED  BY <1>4, <1>8, <1>11, <1>12 DEF Without

-----------------------------------------------------------------------------
(***************************************************************************)
(* The session: its requests.                                              *)
(***************************************************************************)

LEMMA SessionInitInv == SessionInit => SessionInv
<1> SUFFICES ASSUME SessionInit PROVE SessionInv
  OBVIOUS
<1> DEFINE w0 == CHOOSE w \in Workers : TRUE
<1>1. /\ w0 \in Workers
      /\ ask = [r \in Ops \cup Forgets |-> "none"]
      /\ intr = [r \in Ops |-> [at |-> "none", again |-> 0]]
      /\ mounted = TRUE /\ exited = FALSE /\ main = "check" /\ finish = 0 /\ mt_exit = FALSE
      /\ listed = {w0} /\ numavail = 1 /\ cancelled = {} /\ list = {} /\ interrupts = <<>>
      /\ pc = [v \in Workers |-> IF v = w0 THEN "loop" ELSE "none"]
      /\ job = [w \in Workers |-> NoJob] /\ req = [r \in Ops |-> NoReq] /\ sig = [r \in Ops |-> FALSE]
  BY FuseSessionAssumption DEF SessionInit
<1> HIDE DEF w0
<1>2. SessionTypeOK
  <2>1. NoJob \in Jobs /\ NoReq \in Request /\ <<>> \in Seq(Ops)
    BY EmptySeq DEF Jobs, NoReq, Request
  <2>2. [at |-> "none", again |-> 0] \in [at : Whereabouts, again : Nat]
    BY DEF Whereabouts
  <2>3. ask \in [Ops \cup Forgets -> Whereabouts] /\ intr \in [Ops -> [at : Whereabouts, again : Nat]]
    BY <1>1, <2>2 DEF Whereabouts
  <2>4. pc \in [Workers -> Serves \cup Refers \cup Idles \cup {"process", "worked"}]
    BY <1>1 DEF Idles
  <2>5. job \in [Workers -> Jobs] /\ req \in [Ops -> Request] /\ sig \in [Ops -> BOOLEAN]
    BY <1>1, <2>1
  <2>6. mounted \in BOOLEAN /\ exited \in BOOLEAN /\ mt_exit \in BOOLEAN
    BY <1>1
  <2>7. /\ main \in {"check", "goes", "wait", "cancel", "join", "ended"} /\ finish \in Nat
        /\ numavail \in Int
    BY <1>1
  <2>8. listed \subseteq Workers /\ cancelled \subseteq Workers /\ list \subseteq Ops
    BY <1>1
  <2>9. interrupts \in Seq(Ops)
    BY <1>1, <2>1
  <2> QED  BY <2>3, <2>4, <2>5, <2>6, <2>7, <2>8, <2>9 DEF SessionTypeOK
<1>3. ThreadsListed
  BY <1>1 DEF ThreadsListed
<1>4. AvailTrue
  <2>1. {w \in listed : ~AtWork(w)} = {w0}
    BY <1>1 DEF AtWork
  <2> QED  BY <1>1, <2>1, FS_Singleton DEF AvailTrue
<1>5. IsInjective(interrupts) /\ Range(interrupts) = {}
  BY <1>1 DEF IsInjective, Range
<1>6. ASSUME NEW r \in Ops PROVE RequestInv(r)
  <2>1. \A w \in Workers : job[w] # OpMessage(r) /\ job[w] # InterruptMessage(r)
    BY <1>1 DEF NoJob, OpMessage, InterruptMessage
  <2>2. req[r].ctr = 0 /\ req[r].func = FALSE /\ r \notin list /\ r \notin Range(interrupts)
    BY <1>1, <1>5 DEF NoReq
  <2> QED  BY <2>1, <2>2 DEF RequestInv, HandledOnce, Handling, InterruptedOnce, Interrupting,
                             LockHeld, Referring, CtrTrue, Referred
<1> QED  BY <1>2, <1>3, <1>4, <1>5, <1>6 DEF SessionInv, ThreadInv

\* A step does not change what RequestInv says of the part of worker v in q.
WorkerUndisturbed(v, q) ==
  /\ Handling(v, q)' => Handling(v, q)
  /\ Handling(v, q)' /\ pc'[v] \in {"got", "process"} => pc[v] \in {"got", "process"}
  /\ \A s \in Serves : (Handling(v, q)' /\ pc'[v] = s) <=> (Handling(v, q) /\ pc[v] = s)
  /\ Interrupting(v, q)' => Interrupting(v, q)
  /\ \A s \in Refers : (Referring(v, q)' /\ pc'[v] = s) <=> (Referring(v, q) /\ pc[v] = s)

\* A step does not change what RequestInv says of q.
Undisturbed(q) ==
  /\ ask'[q] \in {"none", "queued"} => ask[q] \in {"none", "queued"}
  /\ q \in Range(interrupts)' => q \in Range(interrupts)
  /\ \/ intr[q].at = "sent" => intr'[q].at = "sent"
     \/ q \in Range(interrupts) /\ q \notin Range(interrupts)'
  /\ req'[q] = req[q] /\ (q \in list' <=> q \in list)
  /\ \A v \in Workers : WorkerUndisturbed(v, q)

LEMMA UndisturbedInv ==
  ASSUME NEW q \in Ops, RequestInv(q), Undisturbed(q)
  PROVE  RequestInv(q)'
<1>1. HandledOnce(q)'
  <2>1. \A v \in Workers : Handling(v, q)' => Handling(v, q)
    BY DEF Undisturbed, WorkerUndisturbed
  <2>2. \A v \in Workers : (Handling(v, q)' /\ pc'[v] \in Serves) <=> (Handling(v, q) /\ pc[v] \in Serves)
    BY DEF Undisturbed, WorkerUndisturbed
  <2> QED  BY <2>1, <2>2 DEF Undisturbed, RequestInv, HandledOnce
<1>2. InterruptedOnce(q)'
  <2>1. \A v \in Workers : Interrupting(v, q)' => Interrupting(v, q)
    BY DEF Undisturbed, WorkerUndisturbed
  <2> QED  BY <2>1 DEF Undisturbed, RequestInv, InterruptedOnce
<1>3. \A v \in Workers : Referring(v, q)' => pc'[v] \in Refers
  BY DEF Referring
<1>4. \A v \in Workers : Referring(v, q) => pc[v] \in Refers
  BY DEF Referring
<1>5. \A v \in Workers : /\ Referring(v, q)' <=> Referring(v, q)
                         /\ Referring(v, q)' => pc'[v] = pc[v]
  BY <1>3, <1>4 DEF Undisturbed, WorkerUndisturbed
<1>6. LockHeld(q)'
  <2>1. \A v \in Workers : Handling(v, q) /\ pc[v] \in {"fs", "returned", "finished"}
                             => Handling(v, q)' /\ pc'[v] \in {"fs", "returned", "finished"}
    BY DEF Undisturbed, WorkerUndisturbed, Serves
  <2> QED  BY <1>5, <2>1 DEF Undisturbed, RequestInv, LockHeld
<1>7. CtrTrue(q)'
  <2>1. Referred(q)' <=> Referred(q)
    BY <1>5 DEF Referred
  <2>2. req'[q].ctr = (IF q \in list' THEN 1 ELSE 0) + (IF Referred(q)' THEN 1 ELSE 0)
    BY <2>1 DEF Undisturbed, RequestInv, CtrTrue
  <2> QED  BY <2>1, <2>2 DEF Undisturbed, WorkerUndisturbed, RequestInv, CtrTrue
<1> QED  BY <1>1, <1>2, <1>6, <1>7 DEF RequestInv

\* A worker that stays as it is, and one that is not at request q.
LEMMA WorkerStays ==
  ASSUME NEW v, NEW q, pc'[v] = pc[v], job'[v] = job[v]
  PROVE  WorkerUndisturbed(v, q)
BY DEF WorkerUndisturbed, Handling, Interrupting, Referring

LEMMA WorkerElsewhere ==
  ASSUME NEW v, NEW q, job'[v] = job[v], job[v] # OpMessage(q), job[v] # InterruptMessage(q)
  PROVE  WorkerUndisturbed(v, q)
BY DEF WorkerUndisturbed, Handling, Interrupting, Referring

\* A worker between its messages, or one that takes it up or is done with it.
LEMMA WorkerBetween ==
  ASSUME NEW v, NEW q \in Ops, job'[v] = job[v] \/ job'[v] = NoJob,
         pc[v] \notin Serves \cup Refers, pc'[v] \notin Serves \cup Refers,
         pc'[v] \in {"got", "process"} => pc[v] \in {"got", "process"}
  PROVE  WorkerUndisturbed(v, q)
<1>1. NoJob # OpMessage(q) /\ NoJob # InterruptMessage(q)
  BY DEF NoJob, OpMessage, InterruptMessage
<1> QED  BY <1>1 DEF WorkerUndisturbed, Handling, Interrupting, Referring

-----------------------------------------------------------------------------
(***************************************************************************)
(* The session: types.                                                     *)
(***************************************************************************)

\* What a worker does and with what.
ProgramCounters == Serves \cup Refers \cup Idles \cup {"process", "worked"}

LEMMA GoTypes ==
  ASSUME pc \in [Workers -> ProgramCounters], NEW w \in Workers, NEW to \in ProgramCounters, Go(w, to)
  PROVE  pc' \in [Workers -> ProgramCounters]
BY DEF Go

\* What check_interrupt does to the list of INTERRUPTs that came too early.
LEMMA CheckInterruptShape ==
  ASSUME SessionTypeOK, IsInjective(interrupts), NEW r, CheckInterrupt(r)
  PROVE  /\ interrupts' \in Seq(Ops) /\ IsInjective(interrupts')
         /\ intr' \in [Ops -> [at : Whereabouts, again : Nat]]
         /\ r \notin Range(interrupts')
         /\ \A q : q \in Range(interrupts') => q \in Range(interrupts)
         /\ \A q \in Ops : \/ intr'[q] = intr[q]
                           \/ q # r /\ q \in Range(interrupts) /\ q \notin Range(interrupts')
<1>1. /\ interrupts \in Seq(Ops) /\ intr \in [Ops -> [at : Whereabouts, again : Nat]]
      /\ DOMAIN interrupts = 1 .. Len(interrupts)
  BY LenProperties DEF SessionTypeOK
<1>2. Matched(r) <=> r \in Range(interrupts)
  BY <1>1 DEF Matched, Contains, Range
<1>3. CASE Matched(r)
  <2>1. interrupts' = RemoveFirst(interrupts, r) /\ UNCHANGED intr
    BY <1>3 DEF CheckInterrupt
  <2>2. Without(interrupts, r, interrupts')
    BY <1>1, <1>3, <2>1, RemoveFirstShape DEF Matched
  <2> QED  BY <1>1, <2>1, <2>2 DEF Without
<1>4. CASE ~Matched(r) /\ interrupts = <<>>
  BY <1>1, <1>2, <1>4 DEF CheckInterrupt
<1>5. CASE ~Matched(r) /\ interrupts # <<>>
  <2>1. interrupts' = Tail(interrupts) /\ SendAgain(Head(interrupts))
    BY <1>5 DEF CheckInterrupt, Oldest
  <2>2. Head(interrupts) \in Range(interrupts) /\ Head(interrupts) \in Ops
        /\ Without(interrupts, Head(interrupts), interrupts')
    BY <1>1, <1>5, <2>1, TailShape
  <2> DEFINE h == Head(interrupts)
  <2>3. /\ h \in Ops /\ h # r /\ h \in Range(interrupts) /\ h \notin Range(interrupts')
        /\ interrupts' \in Seq(Ops) /\ IsInjective(interrupts')
        /\ \A q : q \in Range(interrupts') => q \in Range(interrupts)
    BY <1>2, <1>5, <2>2 DEF Without
  <2> HIDE DEF h
  <2>4. /\ intr' \in [Ops -> [at : Whereabouts, again : Nat]]
        /\ \A q \in Ops : q # h => intr'[q] = intr[q]
    <3>1. SendAgain(h)
      BY <2>1 DEF h
    <3>2. intr[h] \in [at : Whereabouts, again : Nat]
      BY <1>1, <2>3
    <3>3. /\ [at |-> "queued", again |-> intr[h].again + 1] \in [at : Whereabouts, again : Nat]
          /\ [intr[h] EXCEPT !.at = "answered"] \in [at : Whereabouts, again : Nat]
      BY <3>2 DEF Whereabouts
    <3>4. \E x \in [at : Whereabouts, again : Nat] : intr' = [intr EXCEPT ![h] = x]
      BY <3>1, <3>3 DEF SendAgain
    <3> QED  BY <1>1, <2>3, <3>4
  <2>5. r \notin Range(interrupts')
    BY <1>2, <1>5, <2>3
  <2> QED  BY <2>3, <2>4, <2>5
<1> QED  BY <1>3, <1>4, <1>5

\* The steps of the kernel.
LEMMA KernelTypes ==
  ASSUME SessionTypeOK,
         (\E r \in Ops \cup Forgets : Call(r)) \/ (\E r \in Ops : CallerSignalled(r)) \/ Unmount
  PROVE  SessionTypeOK'
<1>1. ask \in [Ops \cup Forgets -> Whereabouts] /\ intr \in [Ops -> [at : Whereabouts, again : Nat]]
  BY DEF SessionTypeOK
<1>2. UNCHANGED <<exited, main, finish, mt_exit, listed, numavail, cancelled, pc, job,
                  list, interrupts, req, sig>>
  BY DEF Call, CallerSignalled, Unmount, mtvars, llvars
<1>3. mounted' \in BOOLEAN
  BY DEF SessionTypeOK, Call, CallerSignalled, Unmount
<1>4. ask' \in [Ops \cup Forgets -> Whereabouts]
  BY <1>1 DEF Call, CallerSignalled, Unmount, Whereabouts
<1>5. intr' \in [Ops -> [at : Whereabouts, again : Nat]]
  <2>1. ASSUME NEW r \in Ops, CallerSignalled(r) PROVE intr' \in [Ops -> [at : Whereabouts, again : Nat]]
    <3>1. intr[r] \in [at : Whereabouts, again : Nat]
      BY <1>1
    <3>2. [intr[r] EXCEPT !.at = "queued"] \in [at : Whereabouts, again : Nat]
      BY <3>1 DEF Whereabouts
    <3> QED  BY <1>1, <2>1, <3>2 DEF CallerSignalled
  <2>2. CASE ~\E r \in Ops : CallerSignalled(r)
    BY <1>1, <2>2 DEF Call, Unmount
  <2> QED  BY <2>1, <2>2
<1> QED  BY <1>2, <1>3, <1>4, <1>5 DEF SessionTypeOK

\* The steps of fuse_session_loop_mt.
LEMMA MainTypes ==
  ASSUME SessionTypeOK, ExitHandler \/ Main
  PROVE  SessionTypeOK'
<1>1. UNCHANGED <<ask, intr, mounted, pc, job, list, interrupts, req, sig, numavail>>
  BY DEF ExitHandler, Main, MainChecks, MainWaits, MainWoken, MainCancels, MainJoins, ToMain,
         kernel, mtvars, llvars
<1>2. main' \in {"check", "goes", "wait", "cancel", "join", "ended"}
  BY DEF ExitHandler, Main, MainChecks, MainWaits, MainWoken, MainCancels, MainJoins, ToMain, SessionTypeOK
<1>3. exited' \in BOOLEAN /\ mt_exit' \in BOOLEAN
  BY DEF ExitHandler, Main, MainChecks, MainWaits, MainWoken, MainCancels, MainJoins, SessionTypeOK, mtvars
<1>4. finish' \in Nat
  BY DEF ExitHandler, Main, MainChecks, MainWaits, MainWoken, MainCancels, MainJoins, SessionTypeOK, mtvars
<1>5. listed' \subseteq Workers /\ cancelled' \subseteq Workers
  BY DEF ExitHandler, Main, MainChecks, MainWaits, MainWoken, MainCancels, MainJoins, SessionTypeOK, mtvars
<1> QED  BY <1>1, <1>2, <1>3, <1>4, <1>5 DEF SessionTypeOK

\* The steps of the loop of a worker.
LEMMA LoopTypes ==
  ASSUME SessionTypeOK, NEW w \in Workers,
         Loop(w) \/ ReceiveUnmounted(w) \/ Cancelled(w) \/ TakeJob(w) \/ JobDone(w)
  PROVE  SessionTypeOK'
<1>1. /\ pc \in [Workers -> ProgramCounters] /\ job \in [Workers -> Jobs]
      /\ numavail \in Int /\ listed \subseteq Workers /\ finish \in Nat
  BY DEF SessionTypeOK, ProgramCounters
<1>2. {"loop", "read", "got", "dead", "none", "process", "worked"} \subseteq ProgramCounters
  BY DEF ProgramCounters, Idles
<1>3. UNCHANGED <<ask, intr, mounted, main, mt_exit, cancelled, list, interrupts, req, sig>>
  BY DEF Loop, ReceiveUnmounted, Cancelled, TakeJob, JobDone, kernel, mtvars, llvars
<1>4. exited' \in BOOLEAN
  BY DEF SessionTypeOK, Loop, ReceiveUnmounted, Cancelled, TakeJob, JobDone
<1>5. finish' \in Nat
  BY <1>1 DEF Loop, ReceiveUnmounted, Cancelled, TakeJob, JobDone, LeavesLoop, mtvars
<1>6. job' \in [Workers -> Jobs]
  <2>1. NoJob \in Jobs
    BY DEF Jobs
  <2> QED  BY <1>1, <2>1 DEF Loop, ReceiveUnmounted, Cancelled, TakeJob, JobDone
<1>7. CASE Loop(w) \/ ReceiveUnmounted(w) \/ Cancelled(w)
  <2>1. UNCHANGED <<listed, numavail>>
    BY <1>7 DEF Loop, ReceiveUnmounted, Cancelled, mtvars
  <2>2. pc' \in [Workers -> ProgramCounters]
    BY <1>1, <1>2, <1>7 DEF Loop, ReceiveUnmounted, Cancelled, LeavesLoop, Go
  <2> QED  BY <1>1, <1>3, <1>4, <1>5, <1>6, <2>1, <2>2 DEF SessionTypeOK, ProgramCounters
<1>8. Counts(w) \in Int
  BY DEF Counts
<1>9. CASE TakeJob(w)
  <2>1. CASE mt_exit
    <3>1. pc' \in [Workers -> ProgramCounters] /\ UNCHANGED <<listed, numavail>>
      BY <1>1, <1>2, <1>9, <2>1 DEF TakeJob, Go
    <3> QED  BY <1>1, <1>3, <1>4, <1>5, <1>6, <3>1 DEF SessionTypeOK, ProgramCounters
  <2>2. CASE ~mt_exit
    <3>1. PICK new \in NewThreads(numavail - Counts(w)) :
          /\ listed' = listed \cup new
          /\ numavail' = numavail - Counts(w) + Cardinality(new)
          /\ pc' = [v \in Workers |-> IF v = w THEN "process" ELSE IF v \in new THEN "loop" ELSE pc[v]]
      BY <1>9, <2>2 DEF TakeJob
    <3>2. new = {} \/ \E v \in Workers : new = {v}
      BY DEF NewThreads
    <3>3. new \subseteq Workers /\ IsFiniteSet(new)
      BY <3>2, FS_EmptySet, FS_Singleton
    <3>4. Cardinality(new) \in Int
      BY <3>3, FS_CardinalityType
    <3>5. numavail' \in Int
      BY <1>1, <1>8, <3>1, <3>4
    <3>6. pc' \in [Workers -> ProgramCounters] /\ listed' \subseteq Workers
      BY <1>1, <1>2, <3>1, <3>3
    <3> QED  BY <1>1, <1>3, <1>4, <1>5, <1>6, <3>5, <3>6 DEF SessionTypeOK, ProgramCounters
  <2> QED  BY <2>1, <2>2
<1>10. CASE JobDone(w)
  <2>1. pc' \in [Workers -> ProgramCounters]
    BY <1>1, <1>2, <1>10 DEF JobDone, Go
  <2>2. numavail' \in Int /\ listed' \subseteq Workers
    BY <1>1, <1>8, <1>10 DEF JobDone
  <2> QED  BY <1>1, <1>3, <1>4, <1>5, <1>6, <2>1, <2>2 DEF SessionTypeOK, ProgramCounters
<1> QED  BY <1>7, <1>9, <1>10

\* What read returns, and what the kernel makes of it.
LEMMA ReceiveTypes ==
  ASSUME SessionTypeOK, NEW w \in Workers, Receive(w)
  PROVE  SessionTypeOK'
<1>1. /\ ask \in [Ops \cup Forgets -> Whereabouts] /\ intr \in [Ops -> [at : Whereabouts, again : Nat]]
      /\ pc \in [Workers -> ProgramCounters] /\ job \in [Workers -> Jobs] /\ finish \in Nat
  BY DEF SessionTypeOK, ProgramCounters
<1>2. "got" \in ProgramCounters /\ "dead" \in ProgramCounters
  BY DEF ProgramCounters, Idles
<1>3. PICK m \in Messages :
        /\ Sent(m)
        /\ IF exited THEN LeavesLoop(w) /\ UNCHANGED job
           ELSE job' = [job EXCEPT ![w] = m] /\ Go(w, "got") /\ UNCHANGED finish
  BY DEF Receive
<1>4. /\ m \in Jobs
      /\ m.kind = "interrupt" => m.r \in Ops
      /\ m.kind # "interrupt" => m.r \in Ops \cup Forgets
  BY <1>1 DEF Messages, Jobs, OpMessage, InterruptMessage
<1>5. pc' \in [Workers -> ProgramCounters]
  BY <1>1, <1>2, <1>3 DEF LeavesLoop, Go
<1>6. job' \in [Workers -> Jobs]
  BY <1>1, <1>3, <1>4
<1>7. finish' \in Nat
  BY <1>1, <1>3 DEF LeavesLoop
<1>8. intr' \in [Ops -> [at : Whereabouts, again : Nat]]
  <2>1. CASE m.kind = "interrupt"
    <3>1. intr[m.r] \in [at : Whereabouts, again : Nat] /\ m.r \in Ops
      BY <1>1, <1>4, <2>1
    <3>2. [intr[m.r] EXCEPT !.at = "sent"] \in [at : Whereabouts, again : Nat]
      BY <3>1 DEF Whereabouts
    <3>3. intr' = [intr EXCEPT ![m.r] = [intr[m.r] EXCEPT !.at = "sent"]]
      BY <1>1, <1>3, <2>1, <3>1 DEF Sent
    <3> QED  BY <1>1, <3>1, <3>2, <3>3
  <2>2. CASE m.kind # "interrupt"
    BY <1>1, <1>3, <2>2 DEF Sent
  <2> QED  BY <2>1, <2>2
<1>9. ask' \in [Ops \cup Forgets -> Whereabouts]
  BY <1>1, <1>3, <1>4 DEF Sent, Whereabouts
<1>10. UNCHANGED <<mounted, exited, main, mt_exit, listed, numavail, cancelled, list, interrupts, req, sig>>
  BY DEF Receive, llvars
<1> QED  BY <1>5, <1>6, <1>7, <1>8, <1>9, <1>10 DEF SessionTypeOK, ProgramCounters

-----------------------------------------------------------------------------
(***************************************************************************)
(* The session: steps of which RequestInv says nothing.                    *)
(***************************************************************************)

\* What the kind of its message says of it.
LEMMA JobKinds ==
  ASSUME SessionTypeOK, NEW w \in Workers
  PROVE  /\ job[w].kind = "op" => job[w].r \in Ops /\ job[w] = OpMessage(job[w].r)
         /\ job[w].kind = "interrupt" => job[w].r \in Ops /\ job[w] = InterruptMessage(job[w].r)
BY DEF SessionTypeOK, Jobs, NoJob, OpMessage, InterruptMessage

LEMMA MessagesDiffer ==
  /\ \A q, r : OpMessage(q) = OpMessage(r) => q = r
  /\ \A q, r : InterruptMessage(q) = InterruptMessage(r) => q = r
  /\ \A q, r : OpMessage(q) # InterruptMessage(r)
BY DEF OpMessage, InterruptMessage

\* No worker changes what it is at, and the kernel does not go back.
LEMMA NobodyDisturbed ==
  ASSUME SessionInv, UNCHANGED <<list, interrupts, req>>,
         \A q \in Ops : ask'[q] \in {"none", "queued"} => ask[q] \in {"none", "queued"},
         \A q \in Ops : intr[q].at = "sent" => intr'[q].at = "sent",
         \A v \in Workers, q \in Ops : WorkerUndisturbed(v, q)
  PROVE  IsInjective(interrupts)' /\ \A q \in Ops : RequestInv(q)'
<1>1. ASSUME NEW q \in Ops PROVE RequestInv(q)'
  <2>1. Undisturbed(q)
    BY DEF Undisturbed
  <2> QED  BY <2>1, UndisturbedInv DEF SessionInv
<1> QED  BY <1>1 DEF SessionInv

LEMMA KernelInv ==
  ASSUME SessionInv,
         (\E r \in Ops \cup Forgets : Call(r)) \/ (\E r \in Ops : CallerSignalled(r)) \/ Unmount
  PROVE  SessionInv'
<1>1. UNCHANGED <<main, mt_exit, listed, numavail, pc, job, list, interrupts, req>> /\ SessionTypeOK
  BY DEF Call, CallerSignalled, Unmount, mtvars, llvars, SessionInv
<1>2. ThreadInv'
  BY <1>1, WorkersRest DEF SessionInv
<1>3. \A q \in Ops : ask'[q] \in {"none", "queued"} => ask[q] \in {"none", "queued"}
  BY <1>1 DEF Call, CallerSignalled, Unmount, SessionTypeOK
<1>4. \A q \in Ops : intr[q].at = "sent" => intr'[q].at = "sent"
  BY <1>1 DEF Call, CallerSignalled, Unmount, SessionTypeOK
<1>5. \A v \in Workers, q \in Ops : WorkerUndisturbed(v, q)
  BY <1>1, WorkerStays
<1> QED  BY <1>1, <1>2, <1>3, <1>4, <1>5, NobodyDisturbed, KernelTypes DEF SessionInv

LEMMA MainInv ==
  ASSUME SessionInv, ExitHandler \/ Main
  PROVE  SessionInv'
<1>1. /\ UNCHANGED <<ask, intr, pc, job, list, interrupts, req>>
      /\ SessionTypeOK /\ ThreadInv
  BY DEF ExitHandler, Main, MainChecks, MainWaits, MainWoken, MainCancels, MainJoins, ToMain,
         kernel, llvars, SessionInv
<1>2. ThreadInv'
  <2>1. CASE ExitHandler \/ MainChecks \/ MainWaits \/ MainWoken
    <3>1. UNCHANGED <<mt_exit, listed, numavail>>
      BY <2>1 DEF ExitHandler, MainChecks, MainWaits, MainWoken, mtvars
    <3>2. main \notin {"join", "ended"} /\ main' \notin {"join", "ended"}
      BY <2>1 DEF ExitHandler, MainChecks, MainWaits, MainWoken, ToMain
    <3> QED  BY <1>1, <3>1, <3>2, WorkersRest
  <2>2. CASE MainCancels \/ MainJoins
    BY <1>1, <2>2, MainThreads
  <2> QED  BY <2>1, <2>2 DEF Main
<1>3. \A v \in Workers, q \in Ops : WorkerUndisturbed(v, q)
  BY <1>1, WorkerStays
<1>4. \A q \in Ops : /\ ask'[q] \in {"none", "queued"} => ask[q] \in {"none", "queued"}
                     /\ intr[q].at = "sent" => intr'[q].at = "sent"
  BY <1>1
<1> QED  BY <1>1, <1>2, <1>3, <1>4, NobodyDisturbed, MainTypes DEF SessionInv

LEMMA LoopInv ==
  ASSUME SessionInv, NEW w \in Workers,
         Loop(w) \/ ReceiveUnmounted(w) \/ Cancelled(w) \/ TakeJob(w) \/ JobDone(w)
  PROVE  SessionInv'
<1>1. /\ UNCHANGED <<ask, intr, main, mt_exit, list, interrupts, req>>
      /\ SessionTypeOK /\ ThreadInv
  BY DEF Loop, ReceiveUnmounted, Cancelled, TakeJob, JobDone, kernel, mtvars, llvars, SessionInv
<1>2. pc \in [Workers -> ProgramCounters] /\ job \in [Workers -> Jobs]
  BY <1>1 DEF SessionTypeOK, ProgramCounters
<1>3. SessionTypeOK'
  BY <1>1, LoopTypes
<1>4. \A q \in Ops : /\ ask'[q] \in {"none", "queued"} => ask[q] \in {"none", "queued"}
                     /\ intr[q].at = "sent" => intr'[q].at = "sent"
  BY <1>1
<1>5. CASE Loop(w) \/ ReceiveUnmounted(w) \/ Cancelled(w)
  <2>1. /\ UNCHANGED <<listed, numavail, job>> /\ pc[w] \in {"loop", "read"} /\ pc'[w] \in {"read", "dead"}
        /\ \A v \in Workers : v # w => pc'[v] = pc[v]
    BY <1>2, <1>5 DEF Loop, ReceiveUnmounted, Cancelled, LeavesLoop, Go, mtvars
  <2>2. ThreadInv'
    <3>1. /\ pc[w] \notin {"none", "dead"} /\ pc'[w] # "none" /\ pc[w] \in Idles /\ pc'[w] \in Idles
          /\ listed \subseteq Workers /\ \A v \in Workers : v # w => pc'[v] = pc[v] /\ job'[v] = job[v]
      BY <1>1, <2>1 DEF Idles, SessionTypeOK
    <3> QED  BY <1>1, <2>1, <3>1, WorkerGoesOn
  <2>3. \A v \in Workers, q \in Ops : WorkerUndisturbed(v, q)
    <3>1. ASSUME NEW q \in Ops PROVE WorkerUndisturbed(w, q)
      BY <2>1, WorkerBetween DEF Serves, Refers
    <3> QED  BY <2>1, <3>1, WorkerStays
  <2> QED  BY <1>1, <1>3, <1>4, <2>2, <2>3, NobodyDisturbed DEF SessionInv
<1>6. CASE TakeJob(w)
  <2>1. /\ UNCHANGED job /\ pc[w] = "got" /\ pc'[w] \in {"process", "dead"}
        /\ \A v \in Workers : v # w /\ pc'[v] # pc[v] => pc[v] = "none" /\ pc'[v] = "loop"
    <3>1. CASE mt_exit
      BY <1>2, <1>6, <3>1 DEF TakeJob, Go
    <3>2. CASE ~mt_exit
      BY <1>2, <1>6, <3>2 DEF TakeJob, NewThreads
    <3> QED  BY <3>1, <3>2
  <2>2. \A v \in Workers, q \in Ops : WorkerUndisturbed(v, q)
    <3> SUFFICES ASSUME NEW v \in Workers, NEW q \in Ops PROVE WorkerUndisturbed(v, q)
      OBVIOUS
    <3>1. CASE v = w
      BY <2>1, <3>1, WorkerBetween DEF Serves, Refers
    <3>2. CASE v # w /\ pc'[v] # pc[v]
      BY <2>1, <3>2, WorkerBetween DEF Serves, Refers
    <3>3. CASE pc'[v] = pc[v]
      BY <2>1, <3>3, WorkerStays
    <3> QED  BY <3>1, <3>2, <3>3
  <2> QED  BY <1>1, <1>3, <1>4, <1>6, <2>2, NobodyDisturbed, TakeJobThreads DEF SessionInv
<1>7. CASE JobDone(w)
  <2>1. /\ pc[w] = "worked" /\ pc'[w] \in {"none", "dead", "loop"} /\ job'[w] = NoJob
        /\ \A v \in Workers : v # w => pc'[v] = pc[v] /\ job'[v] = job[v]
    BY <1>2, <1>7 DEF JobDone, Go
  <2>2. \A v \in Workers, q \in Ops : WorkerUndisturbed(v, q)
    <3>1. ASSUME NEW q \in Ops PROVE WorkerUndisturbed(w, q)
      BY <2>1, WorkerBetween DEF Serves, Refers
    <3> QED  BY <2>1, <3>1, WorkerStays
  <2> QED  BY <1>1, <1>3, <1>4, <1>7, <2>2, NobodyDisturbed, JobDoneThreads DEF SessionInv
<1> QED  BY <1>5, <1>6, <1>7

\* A worker that is given a message about another request.
LEMMA WorkerCalledElsewhere ==
  ASSUME NEW v, NEW q \in Ops, pc[v] \notin Serves \cup Refers, pc'[v] \notin Serves \cup Refers,
         job'[v] # OpMessage(q), job'[v] # InterruptMessage(q)
  PROVE  WorkerUndisturbed(v, q)
BY DEF WorkerUndisturbed, Handling, Interrupting, Referring

\* A worker reads an operation that nobody has seen yet.
LEMMA ReceiveOp ==
  ASSUME NEW w \in Workers, NEW r \in Ops, RequestInv(r), pc[w] = "read", pc'[w] = "got",
         job'[w] = OpMessage(r), \A v \in Workers : v # w => pc'[v] = pc[v] /\ job'[v] = job[v],
         ask[r] = "queued", ask'[r] = "sent", UNCHANGED <<intr, list, interrupts, req>>
  PROVE  RequestInv(r)'
<1>1. /\ \A v \in Workers : ~Handling(v, r) /\ ~Referring(v, r)
      /\ r \notin list /\ ~Referred(r) /\ ~req[r].func
  BY DEF RequestInv, HandledOnce, CtrTrue, Referred, LockHeld
<1>2. /\ \A v \in Workers : Handling(v, r)' => v = w
      /\ \A v \in Workers : ~Referring(v, r)'
      /\ \A v \in Workers : Interrupting(v, r)' => Interrupting(v, r)
  BY <1>1, MessagesDiffer DEF Handling, Referring, Interrupting, Refers
<1>3. HandledOnce(r)'
  BY <1>1, <1>2 DEF HandledOnce, Serves
<1>4. InterruptedOnce(r)'
  BY <1>2 DEF RequestInv, InterruptedOnce
<1>5. LockHeld(r)'
  BY <1>1, <1>2 DEF LockHeld
<1>6. CtrTrue(r)'
  <2>1. ~Referred(r)'
    BY <1>2 DEF Referred
  <2> QED  BY <1>1, <2>1 DEF RequestInv, CtrTrue
<1> QED  BY <1>3, <1>4, <1>5, <1>6 DEF RequestInv

\* A worker reads an INTERRUPT that nobody has seen yet.
LEMMA ReceiveInterrupt ==
  ASSUME NEW w \in Workers, NEW r \in Ops, RequestInv(r), pc[w] = "read", pc'[w] = "got",
         job'[w] = InterruptMessage(r), \A v \in Workers : v # w => pc'[v] = pc[v] /\ job'[v] = job[v],
         intr[r].at = "queued", intr'[r].at = "sent", UNCHANGED <<ask, list, interrupts, req>>
  PROVE  RequestInv(r)'
<1>1. (\A v \in Workers : ~Interrupting(v, r)) /\ r \notin Range(interrupts)
  BY DEF RequestInv, InterruptedOnce
<1>2. /\ \A v \in Workers : Handling(v, r)' => v # w /\ Handling(v, r)
      /\ \A v \in Workers : Handling(v, r) /\ pc[v] \in Serves => Handling(v, r)' /\ pc'[v] = pc[v]
      /\ \A v \in Workers : Referring(v, r)' <=> Referring(v, r)
      /\ \A v \in Workers : Referring(v, r)' => pc'[v] = pc[v]
      /\ \A v \in Workers : Interrupting(v, r)' => v = w
  BY <1>1, MessagesDiffer DEF Handling, Referring, Interrupting, Refers, Serves
<1>3. HandledOnce(r)'
  <2>1. \A v \in Workers : Handling(v, r)' /\ pc'[v] \in Serves => Handling(v, r) /\ pc[v] \in Serves
    BY <1>2
  <2> QED  BY <1>2, <2>1 DEF RequestInv, HandledOnce
<1>4. InterruptedOnce(r)'
  BY <1>1, <1>2 DEF InterruptedOnce
<1>5. LockHeld(r)'
  <2>1. \A v \in Workers : Handling(v, r) /\ pc[v] \in {"fs", "returned", "finished"} =>
                             Handling(v, r)' /\ pc'[v] \in {"fs", "returned", "finished"}
    BY <1>2 DEF Serves
  <2> QED  BY <1>2, <2>1 DEF RequestInv, LockHeld
<1>6. CtrTrue(r)'
  <2>1. Referred(r)' <=> Referred(r)
    BY <1>2 DEF Referred
  <2> QED  BY <1>2, <2>1 DEF RequestInv, CtrTrue
<1> QED  BY <1>3, <1>4, <1>5, <1>6 DEF RequestInv

LEMMA ReceiveInv ==
  ASSUME SessionInv, NEW w \in Workers, Receive(w)
  PROVE  SessionInv'
<1>1. /\ UNCHANGED <<main, mt_exit, listed, numavail, list, interrupts, req>>
      /\ SessionTypeOK /\ ThreadInv /\ IsInjective(interrupts)' /\ pc[w] = "read"
  BY DEF Receive, llvars, SessionInv
<1>2. /\ pc \in [Workers -> ProgramCounters] /\ job \in [Workers -> Jobs]
      /\ ask \in [Ops \cup Forgets -> Whereabouts] /\ intr \in [Ops -> [at : Whereabouts, again : Nat]]
  BY <1>1 DEF SessionTypeOK, ProgramCounters
<1>3. PICK m \in Messages :
        /\ Sent(m)
        /\ IF exited THEN LeavesLoop(w) /\ UNCHANGED job
           ELSE job' = [job EXCEPT ![w] = m] /\ Go(w, "got") /\ UNCHANGED finish
  BY DEF Receive
<1>4. /\ pc'[w] \in {"got", "dead"} /\ \A v \in Workers : v # w => pc'[v] = pc[v] /\ job'[v] = job[v]
      /\ (job'[w] = job[w] /\ pc'[w] = "dead") \/ (job'[w] = m /\ pc'[w] = "got")
  BY <1>2, <1>3 DEF LeavesLoop, Go
<1>5. ThreadInv'
  <2>1. /\ pc[w] \notin {"none", "dead"} /\ pc'[w] # "none" /\ pc[w] \in Idles /\ pc'[w] \in Idles
        /\ listed \subseteq Workers
    BY <1>1, <1>4 DEF Idles, SessionTypeOK
  <2> QED  BY <1>1, <1>4, <2>1, WorkerGoesOn
<1>6. \/ \E r \in Ops : m = InterruptMessage(r) /\ intr[r].at = "queued" /\ ask[r] = "sent"
      \/ \E r \in Ops : m = OpMessage(r) /\ ask[r] = "queued"
      \/ \E r \in Forgets : m = [kind |-> "forget", r |-> r] /\ ask[r] = "queued"
  BY <1>2 DEF Messages, OpMessage, InterruptMessage
<1>7. \A q \in Ops : ask'[q] \in {"none", "queued"} => ask[q] \in {"none", "queued"}
  BY <1>2, <1>3, <1>6 DEF Sent, OpMessage, InterruptMessage
<1>8. \A q \in Ops : intr[q].at = "sent" => intr'[q].at = "sent"
  BY <1>2, <1>3, <1>6 DEF Sent, OpMessage, InterruptMessage
<1>9. ASSUME NEW q \in Ops, WorkerUndisturbed(w, q) PROVE RequestInv(q)'
  <2>1. \A v \in Workers : WorkerUndisturbed(v, q)
    BY <1>4, <1>9, WorkerStays
  <2>2. Undisturbed(q)
    BY <1>1, <1>7, <1>8, <2>1 DEF Undisturbed
  <2> QED  BY <2>2, UndisturbedInv DEF SessionInv
<1>10. ASSUME NEW q \in Ops PROVE RequestInv(q)'
  <2>1. pc[w] \notin Serves \cup Refers /\ pc'[w] \notin Serves \cup Refers
    BY <1>1, <1>4 DEF Serves, Refers
  <2>2. CASE job'[w] = job[w] /\ pc'[w] = "dead"
    <3>1. WorkerUndisturbed(w, q)
      BY <2>1, <2>2, WorkerBetween
    <3> QED  BY <3>1, <1>9
  <2>3. CASE job'[w] = m /\ pc'[w] = "got" /\ m # OpMessage(q) /\ m # InterruptMessage(q)
    <3>1. WorkerUndisturbed(w, q)
      BY <2>1, <2>3, WorkerCalledElsewhere
    <3> QED  BY <3>1, <1>9
  <2>4. CASE job'[w] = m /\ pc'[w] = "got" /\ m = OpMessage(q)
    <3>1. ask[q] = "queued" /\ ask'[q] = "sent" /\ UNCHANGED intr
      <4>1. m.kind = "op" /\ m.r = q
        BY <2>4 DEF OpMessage
      <4>2. ask[q] = "queued"
        BY <1>6, <4>1 DEF OpMessage, InterruptMessage
      <4> QED  BY <1>2, <1>3, <4>1, <4>2 DEF Sent
    <3> QED  BY <1>1, <1>4, <2>4, <3>1, ReceiveOp DEF SessionInv
  <2>5. CASE job'[w] = m /\ pc'[w] = "got" /\ m = InterruptMessage(q)
    <3>1. intr[q].at = "queued" /\ intr'[q].at = "sent" /\ UNCHANGED ask
      <4>1. m.kind = "interrupt" /\ m.r = q
        BY <2>5 DEF InterruptMessage
      <4>2. intr[q].at = "queued"
        BY <1>6, <4>1 DEF OpMessage, InterruptMessage
      <4>3. intr[q] \in [at : Whereabouts, again : Nat]
        BY <1>2
      <4>4. intr'[q] = [intr[q] EXCEPT !.at = "sent"] /\ UNCHANGED ask
        BY <1>2, <1>3, <4>1 DEF Sent
      <4> QED  BY <4>2, <4>3, <4>4
    <3> QED  BY <1>1, <1>4, <2>5, <3>1, ReceiveInterrupt DEF SessionInv
  <2> QED  BY <1>4, <2>2, <2>3, <2>4, <2>5
<1> QED  BY <1>1, <1>5, <1>10, ReceiveTypes DEF SessionInv

-----------------------------------------------------------------------------
(***************************************************************************)
(* The session: a request on its way.                                      *)
(***************************************************************************)

\* A worker goes on with its message, which says nothing of its thread.
LEMMA WorkerSteps ==
  ASSUME SessionInv, NEW w \in Workers, pc[w] \notin Idles,
         NEW to \in ProgramCounters \ Idles, Go(w, to),
         UNCHANGED <<mounted, exited, main, finish, mt_exit, listed, numavail, cancelled, job>>,
         ask' \in [Ops \cup Forgets -> Whereabouts], intr' \in [Ops -> [at : Whereabouts, again : Nat]],
         list' \subseteq Ops, interrupts' \in Seq(Ops), IsInjective(interrupts'),
         req' \in [Ops -> Request], sig' \in [Ops -> BOOLEAN],
         \A r \in Ops : RequestInv(r)'
  PROVE  SessionInv'
<1>1. /\ pc \in [Workers -> ProgramCounters] /\ SessionTypeOK /\ ThreadInv
  BY DEF SessionInv, SessionTypeOK, ProgramCounters
<1>2. /\ pc' \in [Workers -> ProgramCounters] /\ pc'[w] = to
      /\ \A v \in Workers : v # w => pc'[v] = pc[v] /\ job'[v] = job[v]
  BY <1>1 DEF Go
<1>3. SessionTypeOK'
  BY <1>1, <1>2 DEF SessionTypeOK, ProgramCounters
<1>4. ThreadInv'
  <2>1. pc[w] \notin {"none", "dead"} /\ pc'[w] # "none" /\ pc'[w] \notin Idles /\ listed \subseteq Workers
    BY <1>1, <1>2 DEF Idles, SessionTypeOK
  <2> QED  BY <1>1, <1>2, <2>1, WorkerGoesOn
<1> QED  BY <1>3, <1>4 DEF SessionInv

\* What a worker does about one request leaves the others alone.
LEMMA OthersUndisturbed ==
  ASSUME NEW w \in Workers, NEW r, NEW q \in Ops, q # r, RequestInv(q),
         job[w] \in {OpMessage(r), InterruptMessage(r)}, UNCHANGED job,
         \A v \in Workers : v # w => pc'[v] = pc[v],
         ask'[q] = ask[q], req'[q] = req[q], q \in list' <=> q \in list,
         q \in Range(interrupts') => q \in Range(interrupts),
         \/ intr'[q] = intr[q]
         \/ q \in Range(interrupts) /\ q \notin Range(interrupts')
  PROVE  RequestInv(q)'
<1>1. job[w] # OpMessage(q) /\ job[w] # InterruptMessage(q)
  BY MessagesDiffer
<1>2. \A v \in Workers : WorkerUndisturbed(v, q)
  BY <1>1, WorkerStays, WorkerElsewhere
<1>3. Undisturbed(q)
  BY <1>2 DEF Undisturbed
<1> QED  BY <1>3, UndisturbedInv

\* fuse_ll_process_buf starts with an operation.
LEMMA OpStarts ==
  ASSUME NEW w \in Workers, NEW r \in Ops, RequestInv(r), job[w] = OpMessage(r), UNCHANGED <<job, ask>>,
         pc[w] = "process", pc'[w] = "handle", \A v \in Workers : v # w => pc'[v] = pc[v],
         list' = list \cup {r}, req'[r].ctr = 1, req'[r].func = FALSE,
         intr'[r] = intr[r], r \notin Range(interrupts')
  PROVE  RequestInv(r)'
<1>1. Handling(w, r) /\ \A v \in Workers : Handling(v, r) => v = w
  BY DEF Handling, RequestInv, HandledOnce
<1>2. ~Referred(r)
  BY <1>1 DEF RequestInv, CtrTrue
<1>3. job[w] # InterruptMessage(r)
  BY MessagesDiffer
<1>4. /\ \A v \in Workers : Handling(v, r)' <=> Handling(v, r)
      /\ \A v \in Workers : ~Referring(v, r)'
      /\ \A v \in Workers : Interrupting(v, r)' => Interrupting(v, r)
  BY <1>2, <1>3 DEF Handling, Referring, Interrupting, Referred
<1>5. HandledOnce(r)'
  <2>1. Handling(w, r)' /\ pc'[w] \in Serves
    BY <1>1, <1>4 DEF Serves
  <2> QED  BY <1>4, <2>1 DEF RequestInv, HandledOnce
<1>6. InterruptedOnce(r)'
  BY <1>4 DEF RequestInv, InterruptedOnce
<1>7. LockHeld(r)'
  BY <1>4 DEF LockHeld
<1>8. CtrTrue(r)'
  <2>1. ~Referred(r)' /\ r \in list'
    BY <1>4 DEF Referred
  <2> QED  BY <2>1 DEF CtrTrue
<1> QED  BY <1>5, <1>6, <1>7, <1>8 DEF RequestInv

\* find_interrupted finds the operation of an INTERRUPT.
LEMMA InterruptFinds ==
  ASSUME NEW w \in Workers, NEW r \in Ops, RequestInv(r), job[w] = InterruptMessage(r), UNCHANGED <<job, ask>>,
         pc[w] = "process", pc'[w] = "ilock", \A v \in Workers : v # w => pc'[v] = pc[v],
         r \in list, UNCHANGED <<list, intr, interrupts>>,
         req'[r].ctr = req[r].ctr + 1, req'[r].func = req[r].func, req'[r].locker = req[r].locker
  PROVE  RequestInv(r)'
<1>1. Interrupting(w, r) /\ \A v \in Workers : Interrupting(v, r) => v = w
  BY DEF Interrupting, RequestInv, InterruptedOnce
<1>2. ~Referred(r) /\ \A v \in Workers : ~Referring(v, r)
  BY <1>1 DEF Referring, Interrupting, Refers, Referred
<1>3. /\ \A v \in Workers : Handling(v, r)' <=> Handling(v, r)
      /\ \A v \in Workers : Handling(v, r) => v # w /\ pc'[v] = pc[v]
      /\ \A v \in Workers : Referring(v, r)' <=> v = w
      /\ \A v \in Workers : Interrupting(v, r)' <=> Interrupting(v, r)
  BY <1>1, <1>2, MessagesDiffer DEF Handling, Referring, Interrupting, Refers
<1>4. HandledOnce(r)'
  BY <1>3 DEF RequestInv, HandledOnce
<1>5. InterruptedOnce(r)'
  BY <1>3 DEF RequestInv, InterruptedOnce
<1>6. LockHeld(r)'
  BY <1>3 DEF RequestInv, LockHeld
<1>7. CtrTrue(r)'
  <2>1. Referred(r)'
    BY <1>3 DEF Referred
  <2>2. PICK h \in Workers : Handling(h, r) /\ pc[h] \in Serves
    BY DEF RequestInv, HandledOnce
  <2>3. ask[r] \notin {"none", "queued"} /\ \A v \in Workers : Handling(v, r) => v = h
    BY <2>2 DEF RequestInv, HandledOnce
  <2>4. \A v \in Workers : Handling(v, r)' => pc'[v] \notin {"got", "process"}
    BY <1>3, <2>2, <2>3 DEF Serves
  <2>5. req'[r].ctr = 2
    BY <1>2 DEF RequestInv, CtrTrue
  <2> QED  BY <2>1, <2>3, <2>4, <2>5 DEF CtrTrue
<1> QED  BY <1>4, <1>5, <1>6, <1>7 DEF RequestInv

\* It does not find it, and the INTERRUPT is kept.
LEMMA InterruptKept ==
  ASSUME NEW w \in Workers, NEW r \in Ops, RequestInv(r), job[w] = InterruptMessage(r), UNCHANGED <<job, ask>>,
         pc[w] = "process", pc'[w] = "worked", \A v \in Workers : v # w => pc'[v] = pc[v],
         r \notin list, UNCHANGED <<list, intr, req>>
  PROVE  RequestInv(r)'
<1>1. Interrupting(w, r) /\ \A v \in Workers : Interrupting(v, r) => v = w
  BY DEF Interrupting, RequestInv, InterruptedOnce
<1>2. /\ \A v \in Workers : Handling(v, r)' <=> Handling(v, r)
      /\ \A v \in Workers : Handling(v, r) => v # w /\ pc'[v] = pc[v]
      /\ \A v \in Workers : Referring(v, r)' <=> Referring(v, r)
      /\ \A v \in Workers : Referring(v, r) => pc'[v] = pc[v]
      /\ \A v \in Workers : ~Interrupting(v, r)'
  BY <1>1, MessagesDiffer DEF Handling, Referring, Interrupting, Refers
<1>3. HandledOnce(r)'
  BY <1>2 DEF RequestInv, HandledOnce
<1>4. InterruptedOnce(r)'
  BY <1>1, <1>2 DEF RequestInv, InterruptedOnce
<1>5. LockHeld(r)'
  BY <1>2 DEF RequestInv, LockHeld
<1>6. CtrTrue(r)'
  <2>1. Referred(r)' <=> Referred(r)
    BY <1>2 DEF Referred
  <2> QED  BY <1>2, <2>1 DEF RequestInv, CtrTrue
<1> QED  BY <1>3, <1>4, <1>5, <1>6 DEF RequestInv

LEMMA ProcessInv ==
  ASSUME SessionInv, NEW w \in Workers, Process(w)
  PROVE  SessionInv'
<1>1. /\ UNCHANGED <<ask, mounted, exited, main, finish, mt_exit, listed, numavail, cancelled, job>>
      /\ pc[w] = "process" /\ SessionTypeOK /\ IsInjective(interrupts)
      /\ pc[w] \notin Idles /\ {"handle", "worked", "ilock"} \subseteq ProgramCounters \ Idles
  BY DEF Process, mtvars, SessionInv, ProgramCounters, Idles, Serves, Refers
<1>2. /\ ask \in [Ops \cup Forgets -> Whereabouts] /\ intr \in [Ops -> [at : Whereabouts, again : Nat]]
      /\ pc \in [Workers -> ProgramCounters] /\ job \in [Workers -> Jobs]
      /\ list \subseteq Ops /\ interrupts \in Seq(Ops)
      /\ req \in [Ops -> Request] /\ sig \in [Ops -> BOOLEAN]
  BY <1>1 DEF SessionTypeOK, ProgramCounters
<1>3. \A q \in Ops : RequestInv(q)
  BY DEF SessionInv
<1>4. ASSUME NEW r \in Ops, job[w] = OpMessage(r), ProcessOp(w, r) PROVE SessionInv'
  <2>1. /\ r \in Ops /\ job[w] = OpMessage(r) /\ CheckInterrupt(r) /\ Go(w, "handle")
        /\ list' = list \cup {r} /\ UNCHANGED sig
        /\ req' = [req EXCEPT ![r] = [NoReq EXCEPT !.ctr = 1, !.interrupted = Matched(r)]]
    BY <1>4 DEF ProcessOp
  <2>2. /\ interrupts' \in Seq(Ops) /\ IsInjective(interrupts')
        /\ intr' \in [Ops -> [at : Whereabouts, again : Nat]]
        /\ r \notin Range(interrupts')
        /\ \A q : q \in Range(interrupts') => q \in Range(interrupts)
        /\ \A q \in Ops : \/ intr'[q] = intr[q]
                          \/ q # r /\ q \in Range(interrupts) /\ q \notin Range(interrupts')
    BY <1>1, <2>1, CheckInterruptShape
  <2>3. pc'[w] = "handle" /\ \A v \in Workers : v # w => pc'[v] = pc[v]
    BY <1>2, <2>1 DEF Go
  <2>4. PICK m \in BOOLEAN : req' = [req EXCEPT ![r] = [NoReq EXCEPT !.ctr = 1, !.interrupted = m]]
    <3>1. Matched(r) \in BOOLEAN
      BY DEF Matched, Contains
    <3> QED  BY <2>1, <3>1, Zenon
  <2>10. /\ [NoReq EXCEPT !.ctr = 1, !.interrupted = m] \in Request
         /\ [NoReq EXCEPT !.ctr = 1, !.interrupted = m].ctr = 1
         /\ [NoReq EXCEPT !.ctr = 1, !.interrupted = m].func = FALSE
    <3>1. NoReq \in Request /\ NoReq.func = FALSE
      BY DEF NoReq, Request
    <3>2. [NoReq EXCEPT !.ctr = 1] \in Request
      BY <3>1 DEF Request
    <3>3. [[NoReq EXCEPT !.ctr = 1] EXCEPT !.interrupted = m] \in Request
      BY <3>2 DEF Request
    <3>4. /\ [NoReq EXCEPT !.ctr = 1, !.interrupted = m] = [[NoReq EXCEPT !.ctr = 1] EXCEPT !.interrupted = m]
          /\ [NoReq EXCEPT !.ctr = 1, !.interrupted = m].ctr = 1
          /\ [NoReq EXCEPT !.ctr = 1, !.interrupted = m].func = NoReq.func
      BY <3>1 DEF Request
    <3> QED  BY <3>1, <3>3, <3>4
  <2>5. /\ req' \in [Ops -> Request] /\ req'[r].ctr = 1 /\ req'[r].func = FALSE
        /\ \A q \in Ops : q # r => req'[q] = req[q]
    BY <1>2, <2>1, <2>4, <2>10
  <2>6. RequestInv(r)'
    BY <1>1, <1>3, <2>1, <2>2, <2>3, <2>5, OpStarts
  <2>7. ASSUME NEW q \in Ops, q # r PROVE RequestInv(q)'
    BY <1>1, <1>3, <2>1, <2>2, <2>3, <2>5, <2>7, OthersUndisturbed
  <2>8. list' \subseteq Ops /\ sig' \in [Ops -> BOOLEAN] /\ ask' \in [Ops \cup Forgets -> Whereabouts]
    BY <1>1, <1>2, <2>1
  <2>9. \A q \in Ops : RequestInv(q)'
    BY <2>6, <2>7
  <2> QED  BY <1>1, <2>1, <2>2, <2>5, <2>8, <2>9, WorkerSteps
<1>5. ASSUME NEW r, job[w].kind = "forget", ProcessForget(w, r) PROVE SessionInv'
  <2>1. /\ CheckInterrupt(r) /\ Go(w, "worked") /\ UNCHANGED <<list, req, sig>>
        /\ \A q : job[w] # OpMessage(q) /\ job[w] # InterruptMessage(q)
    BY <1>5 DEF ProcessForget, OpMessage, InterruptMessage
  <2>2. /\ interrupts' \in Seq(Ops) /\ IsInjective(interrupts')
        /\ intr' \in [Ops -> [at : Whereabouts, again : Nat]]
        /\ \A q : q \in Range(interrupts') => q \in Range(interrupts)
        /\ \A q \in Ops : \/ intr'[q] = intr[q]
                          \/ q # r /\ q \in Range(interrupts) /\ q \notin Range(interrupts')
    BY <1>1, <2>1, CheckInterruptShape
  <2>3. \A v \in Workers : v # w => pc'[v] = pc[v]
    BY <1>2, <2>1 DEF Go
  <2>4. ASSUME NEW q \in Ops PROVE RequestInv(q)'
    <3>1. \A v \in Workers : WorkerUndisturbed(v, q)
      BY <1>1, <2>1, <2>3, WorkerStays, WorkerElsewhere
    <3>2. Undisturbed(q)
      BY <1>1, <2>1, <2>2, <3>1 DEF Undisturbed
    <3> QED  BY <1>3, <3>2, UndisturbedInv
  <2>5. /\ list' \subseteq Ops /\ sig' \in [Ops -> BOOLEAN] /\ req' \in [Ops -> Request]
        /\ ask' \in [Ops \cup Forgets -> Whereabouts]
    BY <1>1, <1>2, <2>1
  <2> QED  BY <1>1, <2>1, <2>2, <2>4, <2>5, WorkerSteps
<1>6. ASSUME NEW r \in Ops, job[w] = InterruptMessage(r), ProcessInterrupt(w, r) PROVE SessionInv'
  <2>1. /\ r \in Ops /\ job[w] = InterruptMessage(r) /\ UNCHANGED <<intr, list, sig>>
        /\ IF r \in list THEN req' = FindReference(r) /\ Go(w, "ilock") /\ UNCHANGED interrupts
           ELSE /\ interrupts' = IF Matched(r) THEN interrupts ELSE Append(interrupts, r)
                /\ Go(w, "worked") /\ UNCHANGED req
    BY <1>6 DEF ProcessInterrupt
  <2>2. \A v \in Workers : v # w => pc'[v] = pc[v]
    BY <1>2, <2>1 DEF Go
  <2>3. /\ list' \subseteq Ops /\ sig' \in [Ops -> BOOLEAN] /\ ask' \in [Ops \cup Forgets -> Whereabouts]
        /\ intr' \in [Ops -> [at : Whereabouts, again : Nat]]
    BY <1>1, <1>2, <2>1
  <2>4. CASE r \in list
    <3>1. req[r] \in Request
      BY <1>2, <2>1
    <3>2. [req[r] EXCEPT !.ctr = req[r].ctr + 1] \in Request
      BY <3>1 DEF Request
    <3>3. req' = [req EXCEPT ![r] = [req[r] EXCEPT !.ctr = req[r].ctr + 1]]
      BY <2>1, <2>4 DEF FindReference
    <3>4. req'[r] = [req[r] EXCEPT !.ctr = req[r].ctr + 1] /\ req' \in [Ops -> Request]
          /\ \A q \in Ops : q # r => req'[q] = req[q]
      BY <1>2, <2>1, <3>2, <3>3
    <3>5. req'[r].ctr = req[r].ctr + 1 /\ req'[r].func = req[r].func /\ req'[r].locker = req[r].locker
      BY <3>1, <3>4 DEF Request
    <3>6. pc'[w] = "ilock" /\ Go(w, "ilock") /\ UNCHANGED interrupts
      BY <1>2, <2>1, <2>4 DEF Go
    <3>7. RequestInv(r)'
      BY <1>1, <1>3, <2>1, <2>2, <2>4, <3>5, <3>6, InterruptFinds
    <3>8. ASSUME NEW q \in Ops, q # r PROVE RequestInv(q)'
      BY <1>1, <1>3, <2>1, <2>2, <3>4, <3>6, <3>8, OthersUndisturbed
    <3>9. \A q \in Ops : RequestInv(q)'
      BY <3>7, <3>8
    <3> QED  BY <1>1, <1>2, <2>3, <3>4, <3>6, <3>9, WorkerSteps
  <2>5. CASE r \notin list
    <3>1. /\ pc'[w] = "worked" /\ Go(w, "worked") /\ UNCHANGED req
          /\ interrupts' = IF Matched(r) THEN interrupts ELSE Append(interrupts, r)
      BY <1>2, <2>1, <2>5 DEF Go
    <3>2. r \notin Range(interrupts)
      BY <1>1, <1>3, <2>1 DEF RequestInv, InterruptedOnce, Interrupting
    <3>3. ~Matched(r)
      BY <1>2, <3>2, LenProperties DEF Matched, Contains, Range
    <3>4. /\ interrupts' \in Seq(Ops) /\ IsInjective(interrupts')
          /\ Range(interrupts') = Range(interrupts) \cup {r}
      BY <1>1, <1>2, <2>1, <3>1, <3>2, <3>3, AppendShape
    <3>5. RequestInv(r)'
      BY <1>1, <1>3, <2>1, <2>2, <2>5, <3>1, InterruptKept
    <3>6. ASSUME NEW q \in Ops, q # r PROVE RequestInv(q)'
      BY <1>1, <1>3, <2>1, <2>2, <3>1, <3>4, <3>6, OthersUndisturbed
    <3>7. \A q \in Ops : RequestInv(q)'
      BY <3>5, <3>6
    <3>8. req' \in [Ops -> Request]
      BY <1>2, <3>1
    <3> QED  BY <1>1, <2>3, <3>1, <3>4, <3>7, <3>8, WorkerSteps
  <2> QED  BY <2>4, <2>5
<1> QED  BY <1>1, <1>4, <1>5, <1>6, JobKinds DEF Process

\* A handler goes on with its operation; nobody in fuse_interrupt loses his data.
LEMMA HandlerGoesOn ==
  ASSUME NEW w \in Workers, NEW r \in Ops, RequestInv(r), job[w] = OpMessage(r),
         UNCHANGED <<job, list, intr, interrupts>>, \A v \in Workers : v # w => pc'[v] = pc[v],
         pc[w] \in Serves, pc'[w] \in Serves, ask'[r] = ask[r] \/ ask'[r] = "answered",
         req'[r].ctr = req[r].ctr, req'[r].locker = req[r].locker,
         \A v \in Workers : Referring(v, r) /\ pc[v] = "icall" => req'[r].func,
         req'[r].func => pc'[w] \in {"fs", "returned", "finished"}
  PROVE  RequestInv(r)'
<1>1. Handling(w, r) /\ (\A v \in Workers : Handling(v, r) => v = w) /\ r \in list
  BY DEF Handling, RequestInv, HandledOnce
<1>2. job[w] # InterruptMessage(r)
  BY MessagesDiffer
<1>3. /\ \A v \in Workers : Handling(v, r)' <=> Handling(v, r)
      /\ \A v \in Workers : Referring(v, r)' <=> Referring(v, r)
      /\ \A v \in Workers : Referring(v, r) => pc'[v] = pc[v]
      /\ \A v \in Workers : Interrupting(v, r)' <=> Interrupting(v, r)
  BY <1>2 DEF Handling, Referring, Interrupting
<1>4. HandledOnce(r)'
  <2>1. \E v \in Workers : Handling(v, r)' /\ pc'[v] \in Serves
    BY <1>1, <1>3
  <2>2. ask'[r] \in {"none", "queued"} => \A v \in Workers : ~Handling(v, r)'
    BY <1>3 DEF RequestInv, HandledOnce
  <2>3. \A u, v \in Workers : Handling(u, r)' /\ Handling(v, r)' => u = v
    BY <1>1, <1>3
  <2> QED  BY <1>1, <2>1, <2>2, <2>3 DEF HandledOnce
<1>5. InterruptedOnce(r)'
  BY <1>3 DEF RequestInv, InterruptedOnce
<1>6. LockHeld(r)'
  <2>1. req'[r].func => \E v \in Workers : Handling(v, r)' /\ pc'[v] \in {"fs", "returned", "finished"}
    BY <1>1, <1>3
  <2>2. \A v \in Workers : Referring(v, r)' /\ pc'[v] # "ilock" => req'[r].locker = v
    BY <1>3 DEF RequestInv, LockHeld
  <2>3. \A v \in Workers : Referring(v, r)' /\ pc'[v] = "icall" => req'[r].func
    BY <1>3
  <2> QED  BY <2>1, <2>2, <2>3 DEF LockHeld
<1>7. CtrTrue(r)'
  <2>1. Referred(r)' <=> Referred(r)
    BY <1>3 DEF Referred
  <2>2. \A v \in Workers : Handling(v, r)' => pc'[v] \notin {"got", "process"}
    BY <1>1, <1>3 DEF Serves
  <2>3. Referred(r)' => ask'[r] \notin {"none", "queued"}
    BY <2>1 DEF RequestInv, CtrTrue
  <2>4. req'[r].ctr = (IF r \in list' THEN 1 ELSE 0) + (IF Referred(r)' THEN 1 ELSE 0)
    BY <2>1 DEF RequestInv, CtrTrue
  <2> QED  BY <2>2, <2>3, <2>4 DEF CtrTrue
<1> QED  BY <1>4, <1>5, <1>6, <1>7 DEF RequestInv

\* fuse_free_req gives back the reference of the handler.
LEMMA HandlerFrees ==
  ASSUME NEW w \in Workers, NEW r \in Ops, RequestInv(r), job[w] = OpMessage(r),
         UNCHANGED <<job, ask, intr, interrupts>>, \A v \in Workers : v # w => pc'[v] = pc[v],
         pc[w] = "free", pc'[w] = "worked", list' = list \ {r}, req[r].ctr \in Int,
         req'[r].ctr = req[r].ctr - 1, req'[r].locker = req[r].locker, req'[r].func = req[r].func
  PROVE  RequestInv(r)'
<1>1. /\ Handling(w, r) /\ \A v \in Workers : Handling(v, r) => v = w
      /\ r \in list /\ ~req[r].func
  BY DEF Handling, RequestInv, HandledOnce, LockHeld, Serves
<1>2. job[w] # InterruptMessage(r)
  BY MessagesDiffer
<1>3. /\ \A v \in Workers : Handling(v, r)' <=> Handling(v, r)
      /\ \A v \in Workers : Referring(v, r)' <=> Referring(v, r)
      /\ \A v \in Workers : Referring(v, r) => pc'[v] = pc[v]
      /\ \A v \in Workers : Interrupting(v, r)' <=> Interrupting(v, r)
  BY <1>2 DEF Handling, Referring, Interrupting
<1>4. HandledOnce(r)'
  <2>1. ~\E v \in Workers : Handling(v, r)' /\ pc'[v] \in Serves
    BY <1>1, <1>3 DEF Serves
  <2>2. ask'[r] \in {"none", "queued"} => \A v \in Workers : ~Handling(v, r)'
    BY <1>3 DEF RequestInv, HandledOnce
  <2>3. \A u, v \in Workers : Handling(u, r)' /\ Handling(v, r)' => u = v
    BY <1>1, <1>3
  <2> QED  BY <2>1, <2>2, <2>3 DEF HandledOnce
<1>5. InterruptedOnce(r)'
  BY <1>3 DEF RequestInv, InterruptedOnce
<1>6. LockHeld(r)'
  BY <1>1, <1>3 DEF RequestInv, LockHeld
<1>7. CtrTrue(r)'
  <2>1. Referred(r)' <=> Referred(r)
    BY <1>3 DEF Referred
  <2>2. \A v \in Workers : Handling(v, r)' => pc'[v] \notin {"got", "process"}
    BY <1>1, <1>3
  <2>3. req[r].ctr = 1 + (IF Referred(r) THEN 1 ELSE 0)
    BY <1>1 DEF RequestInv, CtrTrue
  <2>4. req'[r].ctr = 0 + (IF Referred(r) THEN 1 ELSE 0)
    BY <2>3
  <2>5. req'[r].ctr = (IF r \in list' THEN 1 ELSE 0) + (IF Referred(r)' THEN 1 ELSE 0)
    BY <2>1, <2>4
  <2> QED  BY <2>1, <2>2, <2>5 DEF RequestInv, CtrTrue
<1> QED  BY <1>4, <1>5, <1>6, <1>7 DEF RequestInv

\* The assignments to a struct fuse_req.
LEMMA RequestEdits ==
  ASSUME NEW n \in Request
  PROVE  /\ [n EXCEPT !.func = TRUE, !.finished = FALSE] \in Request
         /\ [n EXCEPT !.func = TRUE, !.finished = FALSE].ctr = n.ctr
         /\ [n EXCEPT !.func = TRUE, !.finished = FALSE].locker = n.locker
         /\ \A f \in BOOLEAN : /\ [n EXCEPT !.func = f] \in Request
                               /\ [n EXCEPT !.func = f].ctr = n.ctr
                               /\ [n EXCEPT !.func = f].locker = n.locker
                               /\ [n EXCEPT !.func = f].func = f
         /\ [n EXCEPT !.finished = TRUE] \in Request /\ [n EXCEPT !.finished = TRUE].ctr = n.ctr
         /\ [n EXCEPT !.finished = TRUE].locker = n.locker /\ [n EXCEPT !.finished = TRUE].func = n.func
         /\ [n EXCEPT !.ctr = n.ctr - 1] \in Request /\ [n EXCEPT !.ctr = n.ctr - 1].ctr = n.ctr - 1
         /\ [n EXCEPT !.ctr = n.ctr - 1].locker = n.locker /\ [n EXCEPT !.ctr = n.ctr - 1].func = n.func
<1>1. [n EXCEPT !.func = TRUE, !.finished = FALSE] \in Request
  <2>1. [n EXCEPT !.func = TRUE] \in Request
    BY DEF Request
  <2>2. [[n EXCEPT !.func = TRUE] EXCEPT !.finished = FALSE] \in Request
    BY <2>1 DEF Request
  <2>3. [n EXCEPT !.func = TRUE, !.finished = FALSE] = [[n EXCEPT !.func = TRUE] EXCEPT !.finished = FALSE]
    BY DEF Request
  <2> QED  BY <2>2, <2>3
<1>2. /\ [n EXCEPT !.func = TRUE, !.finished = FALSE].ctr = n.ctr
      /\ [n EXCEPT !.func = TRUE, !.finished = FALSE].locker = n.locker
  BY DEF Request
<1>3. ASSUME NEW f \in BOOLEAN
      PROVE  /\ [n EXCEPT !.func = f] \in Request /\ [n EXCEPT !.func = f].ctr = n.ctr
             /\ [n EXCEPT !.func = f].locker = n.locker /\ [n EXCEPT !.func = f].func = f
  BY DEF Request
<1>4. /\ [n EXCEPT !.finished = TRUE] \in Request /\ [n EXCEPT !.finished = TRUE].ctr = n.ctr
      /\ [n EXCEPT !.finished = TRUE].locker = n.locker /\ [n EXCEPT !.finished = TRUE].func = n.func
  BY DEF Request
<1>5. n.ctr \in Int /\ n.ctr - 1 \in Int
  BY DEF Request
<1>6. /\ [n EXCEPT !.ctr = n.ctr - 1] \in Request /\ [n EXCEPT !.ctr = n.ctr - 1].ctr = n.ctr - 1
      /\ [n EXCEPT !.ctr = n.ctr - 1].locker = n.locker /\ [n EXCEPT !.ctr = n.ctr - 1].func = n.func
  BY <1>5 DEF Request
<1> QED  BY <1>1, <1>2, <1>3, <1>4, <1>6

LEMMA LockerEdits ==
  ASSUME NEW n \in Request, NEW v \in Workers \cup {Nobody}
  PROVE  /\ [n EXCEPT !.locker = v, !.interrupted = TRUE] \in Request
         /\ [n EXCEPT !.locker = v, !.interrupted = TRUE].locker = v
         /\ [n EXCEPT !.locker = v, !.interrupted = TRUE].ctr = n.ctr
         /\ [n EXCEPT !.locker = v, !.interrupted = TRUE].func = n.func
         /\ [n EXCEPT !.locker = v, !.ctr = n.ctr - 1] \in Request
         /\ [n EXCEPT !.locker = v, !.ctr = n.ctr - 1].locker = v
         /\ [n EXCEPT !.locker = v, !.ctr = n.ctr - 1].ctr = n.ctr - 1
         /\ [n EXCEPT !.locker = v, !.ctr = n.ctr - 1].func = n.func
<1>1. [n EXCEPT !.locker = v] \in Request
  BY DEF Request
<1>2. [n EXCEPT !.locker = v, !.interrupted = TRUE] \in Request
  <2>1. [[n EXCEPT !.locker = v] EXCEPT !.interrupted = TRUE] \in Request
    BY <1>1 DEF Request
  <2>2. [n EXCEPT !.locker = v, !.interrupted = TRUE] = [[n EXCEPT !.locker = v] EXCEPT !.interrupted = TRUE]
    BY DEF Request
  <2> QED  BY <2>1, <2>2
<1>3. /\ [n EXCEPT !.locker = v, !.interrupted = TRUE].locker = v
      /\ [n EXCEPT !.locker = v, !.interrupted = TRUE].ctr = n.ctr
      /\ [n EXCEPT !.locker = v, !.interrupted = TRUE].func = n.func
  BY DEF Request
<1> DEFINE c == n.ctr - 1
<1>4. c \in Int
  BY DEF Request
<1> HIDE DEF c
<1>5. [n EXCEPT !.locker = v, !.ctr = c] \in Request
  <2>1. [[n EXCEPT !.locker = v] EXCEPT !.ctr = c] \in Request
    BY <1>1, <1>4 DEF Request
  <2>2. [n EXCEPT !.locker = v, !.ctr = c] = [[n EXCEPT !.locker = v] EXCEPT !.ctr = c]
    BY DEF Request
  <2> QED  BY <2>1, <2>2
<1>6. /\ [n EXCEPT !.locker = v, !.ctr = c].locker = v
      /\ [n EXCEPT !.locker = v, !.ctr = c].ctr = c
      /\ [n EXCEPT !.locker = v, !.ctr = c].func = n.func
  BY DEF Request
<1> QED  BY <1>2, <1>3, <1>5, <1>6 DEF c

\* A handler, or an interrupting thread, goes on with request r.
LEMMA RequestSteps ==
  ASSUME SessionInv, NEW w \in Workers, NEW r \in Ops, job[w] \in {OpMessage(r), InterruptMessage(r)},
         pc[w] \notin Idles, NEW to \in ProgramCounters \ Idles, Go(w, to),
         UNCHANGED <<mounted, exited, main, finish, mt_exit, listed, numavail, cancelled, job, intr, interrupts>>,
         ask' = ask \/ ask' = [ask EXCEPT ![r] = "answered"], list' = list \/ list' = list \ {r},
         NEW n \in Request, req' = [req EXCEPT ![r] = n], sig' \in [Ops -> BOOLEAN], RequestInv(r)'
  PROVE  SessionInv'
<1>1. /\ ask \in [Ops \cup Forgets -> Whereabouts] /\ intr \in [Ops -> [at : Whereabouts, again : Nat]]
      /\ pc \in [Workers -> ProgramCounters] /\ list \subseteq Ops /\ interrupts \in Seq(Ops)
      /\ req \in [Ops -> Request] /\ IsInjective(interrupts)
  BY DEF SessionInv, SessionTypeOK, ProgramCounters
<1>2. /\ ask' \in [Ops \cup Forgets -> Whereabouts] /\ list' \subseteq Ops /\ req' \in [Ops -> Request]
      /\ intr' \in [Ops -> [at : Whereabouts, again : Nat]]
      /\ interrupts' \in Seq(Ops) /\ IsInjective(interrupts')
  BY <1>1 DEF Whereabouts
<1>3. ASSUME NEW q \in Ops, q # r PROVE RequestInv(q)'
  <2>1. /\ ask'[q] = ask[q] /\ req'[q] = req[q] /\ (q \in list' <=> q \in list)
        /\ \A v \in Workers : v # w => pc'[v] = pc[v]
    BY <1>1, <1>3 DEF Go
  <2>2. RequestInv(q)
    BY DEF SessionInv
  <2> QED  BY <1>3, <2>1, <2>2, OthersUndisturbed
<1>4. \A q \in Ops : RequestInv(q)'
  BY <1>3
<1> QED  BY <1>2, <1>4, WorkerSteps

\* What the steps of a handler have in common.
LEMMA HandlerShape ==
  ASSUME SessionInv, NEW w \in Workers, NEW r \in Ops, NEW from, NEW to \in ProgramCounters, Handler(w, from, to, r)
  PROVE  /\ job[w] = OpMessage(r) /\ pc[w] = from /\ pc'[w] = to /\ Go(w, to)
         /\ \A v \in Workers : v # w => pc'[v] = pc[v]
         /\ UNCHANGED <<mounted, exited, main, finish, mt_exit, listed, numavail, cancelled, job, interrupts>>
         /\ req \in [Ops -> Request] /\ sig \in [Ops -> BOOLEAN] /\ req[r] \in Request
         /\ RequestInv(r) /\ r \in DOMAIN ask
<1>1. /\ pc \in [Workers -> ProgramCounters] /\ ask \in [Ops \cup Forgets -> Whereabouts]
      /\ req \in [Ops -> Request] /\ sig \in [Ops -> BOOLEAN] /\ RequestInv(r)
  BY DEF SessionInv, SessionTypeOK, ProgramCounters
<1> QED  BY <1>1 DEF Handler, Go, mtvars, OpMessage

LEMMA HandleInv ==
  ASSUME SessionInv, NEW w \in Workers, Handle(w)
  PROVE  SessionInv'
<1>1. /\ {"fs", "returned", "finished", "reply", "free", "worked"} \subseteq ProgramCounters \ Idles
      /\ Serves \cap Idles = {} /\ {"fs", "returned", "finished", "reply", "free", "handle"} \subseteq Serves
      /\ Serves \subseteq ProgramCounters
  BY DEF ProgramCounters, Idles, Serves
<1>2. PICK r \in Ops : \/ Prepare(w, r) \/ FsReturns(w, r) \/ Finish(w, r) \/ Unregister(w, r)
                       \/ Reply(w, r) \/ FreeReq(w, r)
  BY DEF Handle
<1>3. ~Locked(r) => \A v \in Workers : Referring(v, r) => pc[v] # "icall"
  <2>1. Nobody \notin Workers /\ RequestInv(r)
    BY FuseSessionAssumption DEF SessionInv
  <2> QED  BY <2>1 DEF Locked, RequestInv, LockHeld
<1>4. CASE Prepare(w, r)
  <2> DEFINE n == [req[r] EXCEPT !.func = TRUE, !.finished = FALSE]
  <2>1. /\ Handler(w, "handle", "fs", r) /\ ~Locked(r) /\ UNCHANGED <<ask, intr, list, sig>>
        /\ req' = [req EXCEPT ![r].func = TRUE, ![r].finished = FALSE]
    BY <1>4 DEF Prepare
  <2>2. req[r] \in Request /\ req \in [Ops -> Request]
    BY <1>1, <2>1, HandlerShape
  <2>3. n \in Request /\ n.ctr = req[r].ctr /\ n.locker = req[r].locker
    BY <2>2, RequestEdits
  <2>4. req' = [req EXCEPT ![r] = n]
    BY <2>1, <2>2
  <2> HIDE DEF n
  <2>5. req'[r] = n
    BY <2>2, <2>4
  <2>6. RequestInv(r)'
    BY <1>1, <1>3, <2>1, <2>3, <2>5, HandlerShape, HandlerGoesOn
  <2>7. /\ job[w] \in {OpMessage(r), InterruptMessage(r)} /\ pc[w] \notin Idles
        /\ "fs" \in ProgramCounters \ Idles /\ Go(w, "fs") /\ sig' \in [Ops -> BOOLEAN]
        /\ UNCHANGED <<mounted, exited, main, finish, mt_exit, listed, numavail, cancelled, job, intr, interrupts>>
    BY <1>1, <2>1, HandlerShape
  <2> QED  BY <2>1, <2>3, <2>4, <2>6, <2>7, RequestSteps
<1>5. CASE FsReturns(w, r)
  <2>1. Handler(w, "fs", "returned", r) /\ UNCHANGED <<ask, intr, list, req, sig>>
    BY <1>5 DEF FsReturns
  <2>2. req[r] \in Request /\ req' = [req EXCEPT ![r] = req[r]]
    BY <1>1, <2>1, HandlerShape
  <2>3. \A v \in Workers : Referring(v, r) /\ pc[v] = "icall" => req'[r].func
    BY <2>1 DEF SessionInv, RequestInv, LockHeld
  <2>4. RequestInv(r)'
    BY <1>1, <2>1, <2>3, HandlerShape, HandlerGoesOn
  <2>5. /\ job[w] \in {OpMessage(r), InterruptMessage(r)} /\ pc[w] \notin Idles
        /\ "returned" \in ProgramCounters \ Idles /\ Go(w, "returned") /\ sig' \in [Ops -> BOOLEAN]
        /\ UNCHANGED <<mounted, exited, main, finish, mt_exit, listed, numavail, cancelled, job, intr, interrupts>>
    BY <1>1, <2>1, HandlerShape
  <2> QED  BY <2>1, <2>2, <2>4, <2>5, RequestSteps
<1>6. CASE Finish(w, r)
  <2> DEFINE n == [req[r] EXCEPT !.finished = TRUE]
  <2>1. /\ Handler(w, "returned", "finished", r) /\ UNCHANGED <<ask, intr, list, sig>>
        /\ req' = [req EXCEPT ![r].finished = TRUE]
    BY <1>6 DEF Finish
  <2>2. req[r] \in Request /\ req \in [Ops -> Request]
    BY <1>1, <2>1, HandlerShape
  <2>3. n \in Request /\ n.ctr = req[r].ctr /\ n.locker = req[r].locker /\ n.func = req[r].func
    BY <2>2, RequestEdits
  <2>4. req' = [req EXCEPT ![r] = n]
    BY <2>1, <2>2
  <2> HIDE DEF n
  <2>5. req'[r] = n
    BY <2>2, <2>4
  <2>6. \A v \in Workers : Referring(v, r) /\ pc[v] = "icall" => n.func
    BY <2>3 DEF SessionInv, RequestInv, LockHeld
  <2>7. RequestInv(r)'
    BY <1>1, <2>1, <2>3, <2>5, <2>6, HandlerShape, HandlerGoesOn
  <2>8. /\ job[w] \in {OpMessage(r), InterruptMessage(r)} /\ pc[w] \notin Idles
        /\ "finished" \in ProgramCounters \ Idles /\ Go(w, "finished") /\ sig' \in [Ops -> BOOLEAN]
        /\ UNCHANGED <<mounted, exited, main, finish, mt_exit, listed, numavail, cancelled, job, intr, interrupts>>
    BY <1>1, <2>1, HandlerShape
  <2> QED  BY <2>1, <2>3, <2>4, <2>7, <2>8, RequestSteps
<1>7. CASE Unregister(w, r)
  <2> DEFINE n == [req[r] EXCEPT !.func = FALSE]
  <2>1. /\ Handler(w, "finished", "reply", r) /\ ~Locked(r) /\ UNCHANGED <<ask, intr, list, sig>>
        /\ req' = [req EXCEPT ![r].func = FALSE]
    BY <1>7 DEF Unregister
  <2>2. req[r] \in Request /\ req \in [Ops -> Request]
    BY <1>1, <2>1, HandlerShape
  <2>3. n \in Request /\ n.ctr = req[r].ctr /\ n.locker = req[r].locker /\ n.func = FALSE
    BY <2>2, RequestEdits
  <2>4. req' = [req EXCEPT ![r] = n]
    BY <2>1, <2>2
  <2> HIDE DEF n
  <2>5. req'[r] = n
    BY <2>2, <2>4
  <2>6. RequestInv(r)'
    BY <1>1, <1>3, <2>1, <2>3, <2>5, HandlerShape, HandlerGoesOn
  <2>7. /\ job[w] \in {OpMessage(r), InterruptMessage(r)} /\ pc[w] \notin Idles
        /\ "reply" \in ProgramCounters \ Idles /\ Go(w, "reply") /\ sig' \in [Ops -> BOOLEAN]
        /\ UNCHANGED <<mounted, exited, main, finish, mt_exit, listed, numavail, cancelled, job, intr, interrupts>>
    BY <1>1, <2>1, HandlerShape
  <2> QED  BY <2>1, <2>3, <2>4, <2>6, <2>7, RequestSteps
<1>8. CASE Reply(w, r)
  <2>1. /\ Handler(w, "reply", "free", r) /\ ask' = [ask EXCEPT ![r] = "answered"]
        /\ UNCHANGED <<intr, list, req, sig>>
    BY <1>8 DEF Reply
  <2>2. req[r] \in Request /\ req' = [req EXCEPT ![r] = req[r]] /\ ask'[r] = "answered"
    BY <1>1, <2>1, HandlerShape
  <2>3. ~req[r].func /\ \A v \in Workers : Referring(v, r) /\ pc[v] = "icall" => req[r].func
    <3>1. Handling(w, r) /\ pc[w] = "reply"
      BY <1>1, <2>1, HandlerShape DEF Handling
    <3> QED  BY <3>1 DEF SessionInv, RequestInv, HandledOnce, LockHeld
  <2>4. RequestInv(r)'
    BY <1>1, <2>1, <2>2, <2>3, HandlerShape, HandlerGoesOn
  <2>5. /\ job[w] \in {OpMessage(r), InterruptMessage(r)} /\ pc[w] \notin Idles
        /\ "free" \in ProgramCounters \ Idles /\ Go(w, "free") /\ sig' \in [Ops -> BOOLEAN]
        /\ UNCHANGED <<mounted, exited, main, finish, mt_exit, listed, numavail, cancelled, job, intr, interrupts>>
    BY <1>1, <2>1, HandlerShape
  <2> QED  BY <2>1, <2>2, <2>4, <2>5, RequestSteps
<1>9. CASE FreeReq(w, r)
  <2> DEFINE n == [req[r] EXCEPT !.ctr = req[r].ctr - 1]
  <2>1. /\ Handler(w, "free", "worked", r) /\ UNCHANGED <<ask, intr, sig>> /\ list' = list \ {r}
        /\ req' = [req EXCEPT ![r].ctr = @ - 1]
    BY <1>9 DEF FreeReq
  <2>2. req[r] \in Request /\ req \in [Ops -> Request] /\ req[r].ctr \in Int
    BY <1>1, <2>1, HandlerShape DEF Request
  <2>3. n \in Request /\ n.ctr = req[r].ctr - 1 /\ n.locker = req[r].locker /\ n.func = req[r].func
    BY <2>2, RequestEdits
  <2>4. req' = [req EXCEPT ![r] = n]
    BY <2>1, <2>2
  <2> HIDE DEF n
  <2>5. req'[r] = n
    BY <2>2, <2>4
  <2>6. RequestInv(r)'
    BY <1>1, <2>1, <2>2, <2>3, <2>5, HandlerShape, HandlerFrees
  <2>7. /\ job[w] \in {OpMessage(r), InterruptMessage(r)} /\ pc[w] \notin Idles
        /\ "worked" \in ProgramCounters \ Idles /\ Go(w, "worked") /\ sig' \in [Ops -> BOOLEAN]
        /\ UNCHANGED <<mounted, exited, main, finish, mt_exit, listed, numavail, cancelled, job, intr, interrupts>>
    BY <1>1, <2>1, HandlerShape
  <2> QED  BY <2>1, <2>3, <2>4, <2>6, <2>7, RequestSteps
<1> QED  BY <1>2, <1>4, <1>5, <1>6, <1>7, <1>8, <1>9

\* An interrupting thread goes on with its request: it takes the lock, or is in
\* fuse_interrupt, where it has the lock.
LEMMA InterrupterGoesOn ==
  ASSUME NEW w \in Workers, NEW r \in Ops, RequestInv(r), job[w] = InterruptMessage(r),
         UNCHANGED <<job, ask, list, intr, interrupts>>, \A v \in Workers : v # w => pc'[v] = pc[v],
         pc[w] \in Refers, pc'[w] \in {"icall", "iend"}, req'[r].locker = w,
         req'[r].ctr = req[r].ctr, req'[r].func = req[r].func, pc'[w] = "icall" => req[r].func
  PROVE  RequestInv(r)'
<1>1. /\ Referring(w, r) /\ Interrupting(w, r) /\ \A v \in Workers : Interrupting(v, r) => v = w
      /\ \A v \in Workers : Referring(v, r) => v = w
  BY DEF Referring, Interrupting, RequestInv, InterruptedOnce
<1>2. /\ \A v \in Workers : Handling(v, r)' <=> Handling(v, r)
      /\ \A v \in Workers : Handling(v, r) => v # w /\ pc'[v] = pc[v]
      /\ \A v \in Workers : Referring(v, r)' <=> Referring(v, r)
      /\ \A v \in Workers : Interrupting(v, r)' <=> Interrupting(v, r)
  BY MessagesDiffer DEF Handling, Referring, Interrupting, Refers
<1>3. HandledOnce(r)'
  BY <1>2 DEF RequestInv, HandledOnce
<1>4. InterruptedOnce(r)'
  BY <1>2 DEF RequestInv, InterruptedOnce
<1>5. LockHeld(r)'
  <2>1. \A v \in Workers : Referring(v, r)' => v = w
    BY <1>1, <1>2
  <2>2. req'[r].func => \E v \in Workers : Handling(v, r)' /\ pc'[v] \in {"fs", "returned", "finished"}
    BY <1>2 DEF RequestInv, LockHeld
  <2> QED  BY <2>1, <2>2 DEF LockHeld
<1>6. CtrTrue(r)'
  <2>1. Referred(r)' <=> Referred(r)
    BY <1>2 DEF Referred
  <2> QED  BY <1>2, <2>1 DEF RequestInv, CtrTrue
<1> QED  BY <1>3, <1>4, <1>5, <1>6 DEF RequestInv

\* It gives back the lock and the reference.
LEMMA InterrupterEnds ==
  ASSUME NEW w \in Workers, NEW r \in Ops, RequestInv(r), job[w] = InterruptMessage(r),
         UNCHANGED <<job, ask, list, intr, interrupts>>, \A v \in Workers : v # w => pc'[v] = pc[v],
         pc[w] = "iend", pc'[w] = "worked", req[r].ctr \in Int,
         req'[r].ctr = req[r].ctr - 1, req'[r].func = req[r].func
  PROVE  RequestInv(r)'
<1>1. /\ Referring(w, r) /\ Interrupting(w, r) /\ \A v \in Workers : Interrupting(v, r) => v = w
      /\ \A v \in Workers : Referring(v, r) => v = w
  BY DEF Referring, Interrupting, Refers, RequestInv, InterruptedOnce
<1>2. /\ \A v \in Workers : Handling(v, r)' <=> Handling(v, r)
      /\ \A v \in Workers : Handling(v, r) => v # w /\ pc'[v] = pc[v]
      /\ \A v \in Workers : ~Referring(v, r)'
      /\ \A v \in Workers : ~Interrupting(v, r)'
  BY <1>1, MessagesDiffer DEF Handling, Referring, Interrupting, Refers
<1>3. HandledOnce(r)'
  BY <1>2 DEF RequestInv, HandledOnce
<1>4. InterruptedOnce(r)'
  BY <1>1, <1>2 DEF RequestInv, InterruptedOnce
<1>5. LockHeld(r)'
  <2>1. req'[r].func => \E v \in Workers : Handling(v, r)' /\ pc'[v] \in {"fs", "returned", "finished"}
    BY <1>2 DEF RequestInv, LockHeld
  <2> QED  BY <1>2, <2>1 DEF LockHeld
<1>6. CtrTrue(r)'
  <2>1. Referred(r) /\ ~Referred(r)'
    BY <1>1, <1>2 DEF Referred
  <2>2. req[r].ctr = (IF r \in list THEN 1 ELSE 0) + 1
    BY <2>1 DEF RequestInv, CtrTrue
  <2>3. req'[r].ctr = (IF r \in list' THEN 1 ELSE 0) + 0
    BY <2>2
  <2> QED  BY <2>1, <2>3 DEF CtrTrue
<1> QED  BY <1>3, <1>4, <1>5, <1>6 DEF RequestInv

\* What the steps of an interrupting thread have in common.
LEMMA InterrupterShape ==
  ASSUME SessionInv, NEW w \in Workers, NEW r \in Ops, NEW from, Interrupter(w, from, r)
  PROVE  /\ job[w] = InterruptMessage(r) /\ pc[w] = from
         /\ UNCHANGED <<ask, intr, mounted, exited, main, finish, mt_exit, listed, numavail, cancelled, job,
                        list, interrupts>>
         /\ pc \in [Workers -> ProgramCounters] /\ req \in [Ops -> Request] /\ sig \in [Ops -> BOOLEAN]
         /\ req[r] \in Request /\ RequestInv(r)
BY DEF SessionInv, SessionTypeOK, ProgramCounters, Interrupter, kernel, mtvars, InterruptMessage

LEMMA InterruptInv ==
  ASSUME SessionInv, NEW w \in Workers, Interrupt(w)
  PROVE  SessionInv'
<1>1. /\ {"icall", "iend", "worked"} \subseteq ProgramCounters \ Idles
      /\ Refers \cap Idles = {} /\ {"ilock", "icall", "iend"} \subseteq Refers
  BY DEF ProgramCounters, Idles, Refers
<1>2. PICK r \in Ops : \/ InterruptLocks(w, r) \/ InterruptSignals(w, r)
                       \/ InterruptReturns(w, r) \/ InterruptUnlocks(w, r)
  BY DEF Interrupt
<1>3. pc[w] \in Refers /\ pc[w] # "ilock" /\ job[w] = InterruptMessage(r) => req[r].locker = w
  BY DEF SessionInv, RequestInv, LockHeld, Referring
<1>4. CASE InterruptLocks(w, r)
  <2> DEFINE n == [req[r] EXCEPT !.locker = w, !.interrupted = TRUE]
             to == IF req[r].func THEN "icall" ELSE "iend"
  <2>1. /\ Interrupter(w, "ilock", r) /\ Go(w, to) /\ UNCHANGED sig
        /\ req' = [req EXCEPT ![r].locker = w, ![r].interrupted = TRUE]
    BY <1>4 DEF InterruptLocks
  <2>2. req[r] \in Request /\ req \in [Ops -> Request] /\ pc \in [Workers -> ProgramCounters]
    BY <2>1, InterrupterShape
  <2>3. n \in Request /\ n.ctr = req[r].ctr /\ n.locker = w /\ n.func = req[r].func
    <3>1. w \in Workers \cup {Nobody}
      OBVIOUS
    <3> QED  BY <2>2, <3>1, LockerEdits
  <2>4. req' = [req EXCEPT ![r] = n]
    BY <2>1, <2>2
  <2>5. to \in {"icall", "iend"} /\ (to = "icall" => req[r].func)
    OBVIOUS
  <2> HIDE DEF n, to
  <2>6. req'[r] = n /\ pc'[w] = to /\ \A v \in Workers : v # w => pc'[v] = pc[v]
    BY <2>1, <2>2, <2>4 DEF Go
  <2>7. RequestInv(r)'
    BY <1>1, <2>1, <2>3, <2>5, <2>6, InterrupterShape, InterrupterGoesOn
  <2>8. /\ job[w] \in {OpMessage(r), InterruptMessage(r)} /\ pc[w] \notin Idles
        /\ to \in ProgramCounters \ Idles /\ Go(w, to) /\ sig' \in [Ops -> BOOLEAN]
        /\ UNCHANGED <<mounted, exited, main, finish, mt_exit, listed, numavail, cancelled, job, intr, interrupts,
                       ask, list>>
    BY <1>1, <2>1, <2>5, InterrupterShape
  <2> QED  BY <2>3, <2>4, <2>7, <2>8, RequestSteps
<1>5. CASE InterruptSignals(w, r)
  <2>1. Interrupter(w, "icall", r) /\ sig' = [sig EXCEPT ![r] = TRUE] /\ UNCHANGED <<pc, req>>
    BY <1>5 DEF InterruptSignals
  <2>2. /\ req[r] \in Request /\ req \in [Ops -> Request] /\ sig \in [Ops -> BOOLEAN]
        /\ pc \in [Workers -> ProgramCounters] /\ pc[w] = "icall" /\ job[w] = InterruptMessage(r)
    BY <2>1, InterrupterShape
  <2>3. req' = [req EXCEPT ![r] = req[r]] /\ sig' \in [Ops -> BOOLEAN] /\ Go(w, "icall")
    BY <2>1, <2>2 DEF Go
  <2>4. Undisturbed(r)
    BY <2>1, InterrupterShape, WorkerStays DEF Undisturbed
  <2>5. RequestInv(r)'
    BY <2>1, <2>4, InterrupterShape, UndisturbedInv
  <2>6. /\ job[w] \in {OpMessage(r), InterruptMessage(r)} /\ pc[w] \notin Idles
        /\ "icall" \in ProgramCounters \ Idles
        /\ UNCHANGED <<mounted, exited, main, finish, mt_exit, listed, numavail, cancelled, job, intr, interrupts,
                       ask, list>>
    BY <1>1, <2>1, InterrupterShape
  <2> QED  BY <2>2, <2>3, <2>5, <2>6, RequestSteps
<1>6. CASE InterruptReturns(w, r)
  <2>1. Interrupter(w, "icall", r) /\ Go(w, "iend") /\ UNCHANGED <<req, sig>>
    BY <1>6 DEF InterruptReturns
  <2>2. req[r] \in Request /\ req' = [req EXCEPT ![r] = req[r]]
    BY <2>1, InterrupterShape
  <2>3. pc'[w] = "iend" /\ \A v \in Workers : v # w => pc'[v] = pc[v]
    BY <2>1, InterrupterShape DEF Go
  <2>4. req[r].locker = w
    BY <1>1, <1>3, <2>1, InterrupterShape
  <2>5. RequestInv(r)'
    BY <1>1, <2>1, <2>3, <2>4, InterrupterShape, InterrupterGoesOn
  <2>6. /\ job[w] \in {OpMessage(r), InterruptMessage(r)} /\ pc[w] \notin Idles
        /\ "iend" \in ProgramCounters \ Idles /\ Go(w, "iend") /\ sig' \in [Ops -> BOOLEAN]
        /\ UNCHANGED <<mounted, exited, main, finish, mt_exit, listed, numavail, cancelled, job, intr, interrupts,
                       ask, list>>
    BY <1>1, <2>1, InterrupterShape
  <2> QED  BY <2>2, <2>5, <2>6, RequestSteps
<1>7. CASE InterruptUnlocks(w, r)
  <2> DEFINE n == [req[r] EXCEPT !.locker = Nobody, !.ctr = req[r].ctr - 1]
  <2>1. /\ Interrupter(w, "iend", r) /\ Go(w, "worked") /\ UNCHANGED sig
        /\ req' = [req EXCEPT ![r].locker = Nobody, ![r].ctr = @ - 1]
    BY <1>7 DEF InterruptUnlocks
  <2>2. /\ req[r] \in Request /\ req \in [Ops -> Request] /\ pc \in [Workers -> ProgramCounters]
        /\ req[r].ctr \in Int
    BY <2>1, InterrupterShape DEF Request
  <2>3. n \in Request /\ n.ctr = req[r].ctr - 1 /\ n.func = req[r].func
    BY <2>2, LockerEdits
  <2>4. req' = [req EXCEPT ![r] = n]
    BY <2>1, <2>2
  <2> HIDE DEF n
  <2>5. req'[r] = n /\ pc'[w] = "worked" /\ \A v \in Workers : v # w => pc'[v] = pc[v]
    BY <2>1, <2>2, <2>4 DEF Go
  <2>6. RequestInv(r)'
    BY <2>1, <2>2, <2>3, <2>5, InterrupterShape, InterrupterEnds
  <2>7. /\ job[w] \in {OpMessage(r), InterruptMessage(r)} /\ pc[w] \notin Idles
        /\ "worked" \in ProgramCounters \ Idles /\ Go(w, "worked") /\ sig' \in [Ops -> BOOLEAN]
        /\ UNCHANGED <<mounted, exited, main, finish, mt_exit, listed, numavail, cancelled, job, intr, interrupts,
                       ask, list>>
    BY <1>1, <2>1, InterrupterShape
  <2> QED  BY <2>3, <2>4, <2>6, <2>7, RequestSteps
<1> QED  BY <1>2, <1>4, <1>5, <1>6, <1>7

LEMMA SessionNextInv ==
  ASSUME SessionInv, [SessionNext]_sessionvars
  PROVE  SessionInv'
<1>1. CASE UNCHANGED sessionvars
  BY <1>1 DEF sessionvars, SessionInv, SessionTypeOK, ThreadInv, ThreadsListed, AvailTrue, AtWork, Counts,
              RequestInv, HandledOnce, Handling, InterruptedOnce, Interrupting, LockHeld, Referring,
              CtrTrue, Referred
<1>2. ASSUME NEW w \in Workers, Worker(w) PROVE SessionInv'
  BY <1>2, LoopInv, ReceiveInv, ProcessInv, HandleInv, InterruptInv DEF Worker
<1> QED  BY <1>1, <1>2, KernelInv, MainInv DEF SessionNext

-----------------------------------------------------------------------------
(***************************************************************************)
(* The threads and requests of libfuse keep together, for any number of    *)
(* workers, requests and signals: nobody uses a freed request or data that *)
(* are no longer on a stack, as check_interrupt, find_interrupted,         *)
(* fuse_free_req and fuse_do_finish_interrupt promise; an INTERRUPT is     *)
(* kept once, for a request still to come; numavail of fuse_loop_mt.c is   *)
(* the number it stands for; and fuse_session_loop_mt leaves no thread.    *)
(***************************************************************************)
THEOREM SessionIsSound == SessionSpec => []SessionSound
<1>1. SessionInv => SessionSound
  <2> SUFFICES ASSUME SessionInv PROVE SessionSound
    OBVIOUS
  <2>1. NothingDangles
    <3> SUFFICES ASSUME NEW r \in Ops
                 PROVE  /\ (HandlerAt(r) \cap {"handle", "fs", "returned", "finished", "reply", "free"} # {}
                              \/ InterrupterAt(r) \cap {"ilock", "icall", "iend"} # {}) => req[r].ctr > 0
                        /\ "icall" \in InterrupterAt(r)
                             => HandlerAt(r) \cap {"fs", "returned", "finished"} # {}
      BY DEF NothingDangles
    <3>1. RequestInv(r)
      BY DEF SessionInv
    <3>2. ASSUME HandlerAt(r) \cap {"handle", "fs", "returned", "finished", "reply", "free"} # {}
          PROVE  req[r].ctr > 0
      <4>1. PICK w \in Workers : Handling(w, r) /\ pc[w] \in Serves
        BY <3>2 DEF HandlerAt, Handling, OpMessage, Serves
      <4>2. r \in list
        BY <3>1, <4>1 DEF RequestInv, HandledOnce
      <4> QED  BY <3>1, <4>2 DEF RequestInv, CtrTrue
    <3>3. ASSUME InterrupterAt(r) \cap {"ilock", "icall", "iend"} # {}
          PROVE  req[r].ctr > 0
      <4>1. Referred(r)
        BY <3>3 DEF InterrupterAt, Referred, Referring, InterruptMessage, Refers
      <4> QED  BY <3>1, <4>1 DEF RequestInv, CtrTrue
    <3>4. ASSUME "icall" \in InterrupterAt(r)
          PROVE  HandlerAt(r) \cap {"fs", "returned", "finished"} # {}
      <4>1. PICK w \in Workers : Referring(w, r) /\ pc[w] = "icall"
        BY <3>4 DEF InterrupterAt, Referring, InterruptMessage, Refers
      <4>2. PICK h \in Workers : Handling(h, r) /\ pc[h] \in {"fs", "returned", "finished"}
        BY <3>1, <4>1 DEF RequestInv, LockHeld
      <4>3. pc[h] \in HandlerAt(r)
        BY <4>2 DEF HandlerAt, Handling, OpMessage
      <4> QED  BY <4>2, <4>3
    <3> QED  BY <3>2, <3>3, <3>4
  <2>2. KeptForLater
    <3>1. ASSUME NEW r \in Range(interrupts) \cap list PROVE FALSE
      <4>1. r \in Ops
        BY DEF SessionInv, SessionTypeOK
      <4> QED  BY <4>1 DEF SessionInv, RequestInv, InterruptedOnce
    <3> QED  BY <3>1 DEF KeptForLater, SessionInv
  <2>3. AllJoined
    BY DEF AllJoined, SessionInv, ThreadInv, ThreadsListed
  <2> QED  BY <2>1, <2>2, <2>3 DEF SessionSound, SessionInv, ThreadInv
<1> QED  BY <1>1, SessionInitInv, SessionNextInv, PTL DEF SessionSpec

-----------------------------------------------------------------------------
(***************************************************************************)
(* The way up in the tree.                                                 *)
(***************************************************************************)
LEMMA OnTheWay ==
  ASSUME NEW p, NEW n
  PROVE  /\ Ancestors(p, n) \subseteq Nodes
         /\ n \in Nodes => n \in Ancestors(p, n)
         /\ \A m \in Ancestors(p, n) : p[m].dir \in Nodes => p[m].dir \in Ancestors(p, n)
         /\ \A S \in SUBSET Nodes :
              ({n} \cup {p[k].dir : k \in S}) \cap Nodes \subseteq S => Ancestors(p, n) \subseteq S
BY DEF Ancestors

LEMMA OneMoreUp ==
  ASSUME NEW p, NEW n \in Nodes
  PROVE  Ancestors(p, n) = {n} \cup Ancestors(p, p[n].dir)
<1> DEFINE d == p[n].dir
           A == {n} \cup Ancestors(p, d)
<1>1. Ancestors(p, n) \subseteq A
  <2>1. A \in SUBSET Nodes
    BY OnTheWay
  <2>2. ({n} \cup {p[k].dir : k \in A}) \cap Nodes \subseteq A
    <3> SUFFICES ASSUME NEW k \in A, p[k].dir \in Nodes PROVE p[k].dir \in A
      OBVIOUS
    <3>1. CASE k = n
      BY <3>1, OnTheWay
    <3>2. CASE k \in Ancestors(p, d)
      BY <3>2, OnTheWay
    <3> QED BY <3>1, <3>2
  <2> HIDE DEF A
  <2> QED BY <2>1, <2>2, OnTheWay
<1>2. n \in Ancestors(p, n)
  BY OnTheWay
<1>3. Ancestors(p, d) \subseteq Ancestors(p, n)
  <2> DEFINE B == Ancestors(p, n)
  <2>1. B \in SUBSET Nodes /\ (d \in Nodes => d \in B)
    BY <1>2, OnTheWay
  <2>2. ({d} \cup {p[k].dir : k \in B}) \cap Nodes \subseteq B
    BY <2>1, OnTheWay
  <2> HIDE DEF B, d
  <2> QED BY <2>1, <2>2, OnTheWay DEF B
<1> QED BY <1>1, <1>2, <1>3

LEMMA UpFromHere ==
  ASSUME NEW p, NEW n, NEW m \in Ancestors(p, n)
  PROVE  Ancestors(p, m) \subseteq Ancestors(p, n)
<1> DEFINE A == Ancestors(p, n)
<1>1. A \in SUBSET Nodes
  BY OnTheWay
<1>2. ({m} \cup {p[k].dir : k \in A}) \cap Nodes \subseteq A
  BY OnTheWay
<1> HIDE DEF A
<1> QED BY <1>1, <1>2, OnTheWay DEF A

LEMMA SameWay ==
  ASSUME NEW p, NEW q, NEW n, \A m \in Ancestors(p, n) : q[m] = p[m]
  PROVE  Ancestors(q, n) = Ancestors(p, n)
<1> DEFINE A == Ancestors(p, n)
           B == Ancestors(q, n)
<1>1. A \in SUBSET Nodes /\ B \in SUBSET Nodes
  BY OnTheWay
<1>2. ({n} \cup {q[k].dir : k \in A}) \cap Nodes \subseteq A
  BY OnTheWay
<1>3. B \subseteq A
  <2> HIDE DEF A
  <2> QED BY <1>1, <1>2, OnTheWay
<1>4. ({n} \cup {p[k].dir : k \in B}) \cap Nodes \subseteq B
  BY <1>3, OnTheWay
<1>5. A \subseteq B
  <2> HIDE DEF B
  <2> QED BY <1>1, <1>4, OnTheWay
<1> QED BY <1>3, <1>5

\* Where nodes of C change their place, the way from n meets C before if and only if it does after.
LEMMA WayMeets ==
  ASSUME NEW p, NEW q, NEW C, NEW n, \A m \in Nodes \ C : q[m] = p[m], Ancestors(p, n) \cap C # {}
  PROVE  Ancestors(q, n) \cap C # {}
<1> SUFFICES ASSUME Ancestors(q, n) \cap C = {} PROVE FALSE
  OBVIOUS
<1>1. \A m \in Ancestors(q, n) : p[m] = q[m]
  BY OnTheWay
<1>2. Ancestors(p, n) = Ancestors(q, n)
  BY <1>1, SameWay
<1> QED BY <1>2

\* A node that is nowhere is the last one on each way that meets it.
LEMMA LastOnTheWay ==
  ASSUME NEW p, NEW n, NEW b \in Ancestors(p, n), p[b] = Nowhere, None \notin Nodes, NEW m \in Ancestors(p, n)
  PROVE  b \in Ancestors(p, m)
<1> DEFINE S == {k \in Ancestors(p, n) : b \in Ancestors(p, k)}
<1>1. S \in SUBSET Nodes
  BY OnTheWay
<1>2. ({n} \cup {p[k].dir : k \in S}) \cap Nodes \subseteq S
  <2>1. n \in Nodes => n \in S
    BY OnTheWay
  <2>2. ASSUME NEW k \in S, p[k].dir \in Nodes PROVE p[k].dir \in S
    <3>1. k # b
      BY <2>2 DEF Nowhere
    <3>2. k \in Nodes /\ p[k].dir \in Ancestors(p, n)
      BY <2>2, OnTheWay
    <3>3. b \in Ancestors(p, p[k].dir)
      BY <3>1, <3>2, OneMoreUp
    <3> QED BY <3>2, <3>3
  <2> QED BY <2>1, <2>2
<1>3. Ancestors(p, n) \subseteq S
  <2> HIDE DEF S
  <2> QED BY <1>1, <1>2, OnTheWay
<1> QED BY <1>3

\* A node is moved to a directory that is not below it, or away, and stays a tree.
LEMMA TreeWithout ==
  ASSUME NEW p, IsTree(p), NEW C, None \notin Nodes
  PROVE  IsTree([n \in Nodes |-> IF n \in C THEN Nowhere ELSE p[n]])
<1> DEFINE q == [n \in Nodes |-> IF n \in C THEN Nowhere ELSE p[n]]
<1>1. \A n, m \in Nodes : q[n] = q[m] /\ n # m => q[n] = Nowhere
  BY DEF IsTree
<1>2. ASSUME NEW n \in Nodes PROVE n \notin Ancestors(q, q[n].dir)
  <2> DEFINE A == Ancestors(p, p[n].dir)
  <2>1. CASE n \in C
    <3>1. Ancestors(q, None) \subseteq {}
      <4>1. {} \in SUBSET Nodes
        OBVIOUS
      <4>2. ({None} \cup {q[k].dir : k \in {}}) \cap Nodes \subseteq {}
        OBVIOUS
      <4> HIDE DEF q
      <4> QED BY <4>1, <4>2, OnTheWay
    <3>2. q[n].dir = None
      BY <2>1 DEF Nowhere
    <3> QED BY <3>1, <3>2
  <2>2. CASE n \notin C
    <3>1. A \in SUBSET Nodes /\ n \notin A
      BY OnTheWay DEF IsTree
    <3>2. ({p[n].dir} \cup {q[k].dir : k \in A}) \cap Nodes \subseteq A
      <4>1. p[n].dir \in Nodes => p[n].dir \in A
        BY OnTheWay
      <4>2. ASSUME NEW k \in A, q[k].dir \in Nodes PROVE q[k].dir \in A
        <5>1. q[k] = p[k]
          BY <3>1, <4>2 DEF Nowhere
        <5> QED BY <5>1, <4>2, OnTheWay
      <4> QED BY <4>1, <4>2
    <3>3. q[n].dir = p[n].dir
      BY <2>2
    <3> HIDE DEF q, A
    <3> QED BY <3>1, <3>2, <3>3, OnTheWay
  <2> QED BY <2>1, <2>2
<1> HIDE DEF q
<1> QED BY <1>1, <1>2 DEF IsTree, q

LEMMA TreeMoved ==
  ASSUME NEW p, IsTree(p), NEW old \in Nodes, NEW to, to # Nowhere, \A n \in Nodes : p[n] # to,
         old \notin Ancestors(p, to.dir)
  PROVE  IsTree([n \in Nodes |-> IF n = old THEN to ELSE p[n]])
<1> DEFINE q == [n \in Nodes |-> IF n = old THEN to ELSE p[n]]
<1>1. \A n, m \in Nodes : q[n] = q[m] /\ n # m => q[n] = Nowhere
  BY DEF IsTree
<1>2. Ancestors(q, to.dir) = Ancestors(p, to.dir)
  <2>1. \A m \in Ancestors(p, to.dir) : q[m] = p[m]
    BY OnTheWay
  <2> HIDE DEF q
  <2> QED BY <2>1, SameWay
<1>3. ASSUME NEW n \in Nodes PROVE n \notin Ancestors(q, q[n].dir)
  <2>1. CASE n = old
    <3>1. q[n].dir = to.dir
      BY <2>1
    <3> HIDE DEF q
    <3> QED BY <3>1, <1>2, <2>1
  <2>2. CASE n # old
    <3> DEFINE d == p[n].dir
               A == Ancestors(p, d)
               B == Ancestors(p, to.dir)
    <3>1. q[n].dir = d
      BY <2>2
    <3>2. n \notin A
      BY DEF IsTree
    <3>3. CASE old \notin A
      <4>1. \A m \in A : q[m] = p[m]
        BY <3>3, OnTheWay
      <4>2. Ancestors(q, d) = A
        <5> HIDE DEF q, d
        <5> QED BY <4>1, SameWay
      <4> HIDE DEF q, d
      <4> QED BY <4>2, <3>1, <3>2
    <3>4. CASE old \in A
      <4>1. A \subseteq Ancestors(p, n)
        BY OneMoreUp
      <4>2. n \notin B
        BY <3>4, <4>1, UpFromHere
      <4> DEFINE S == A \cup B
      <4>3. S \in SUBSET Nodes
        BY OnTheWay
      <4>4. ({d} \cup {q[k].dir : k \in S}) \cap Nodes \subseteq S
        <5>1. d \in Nodes => d \in S
          BY OnTheWay
        <5>2. ASSUME NEW k \in S, q[k].dir \in Nodes PROVE q[k].dir \in S
          <6>0. k \in Nodes
            BY <4>3
          <6>1. CASE k = old
            <7>1. q[k].dir = to.dir
              BY <6>0, <6>1
            <7>2. to.dir \in Nodes
              BY <5>2, <7>1
            <7> QED BY <7>1, <7>2, OnTheWay
          <6>2. CASE k # old
            <7>1. q[k].dir = p[k].dir
              BY <6>0, <6>2
            <7>2. p[k].dir \in Nodes
              BY <5>2, <7>1
            <7>3. CASE k \in A
              BY <7>1, <7>2, <7>3, OnTheWay
            <7>4. CASE k \in B
              BY <7>1, <7>2, <7>4, OnTheWay
            <7> QED BY <7>3, <7>4
          <6> QED BY <6>1, <6>2
        <5> QED BY <5>1, <5>2
      <4>5. Ancestors(q, d) \subseteq S
        <5> HIDE DEF q, d, S
        <5> QED BY <4>3, <4>4, OnTheWay
      <4>6. n \notin S
        BY <3>2, <4>2
      <4> HIDE DEF q, d, S
      <4> QED BY <4>5, <4>6, <3>1
    <3> QED BY <3>3, <3>4
  <2> QED BY <2>1, <2>2
<1> HIDE DEF q
<1> QED BY <1>1, <1>3 DEF IsTree, q

\* Who has an entry.
LEMMA LookedUp ==
  ASSUME IsTree(place), None \notin Nodes, NEW d \in Nodes \cup {Root}, NEW nm \in Names, None # Root
  PROVE  /\ Lookup(d, nm) \in Nodes \cup {None}
         /\ \A n \in Nodes : Lookup(d, nm) = n <=> place[n] = [dir |-> d, name |-> nm]
         /\ Lookup(d, nm) = None <=> \A n \in Nodes : place[n] # [dir |-> d, name |-> nm]
<1>1. [dir |-> d, name |-> nm] # Nowhere
  <2>1. [dir |-> d, name |-> nm].dir # Nowhere.dir
    BY DEF Nowhere
  <2> QED BY <2>1
<1> QED BY <1>1 DEF IsTree, Lookup

-----------------------------------------------------------------------------
(***************************************************************************)
(* Paths that are taken and left. tl and g stand for treelock and got, q   *)
(* for request.                                                            *)
(***************************************************************************)
Pairs == Threads \X {1, 2}
PathsGood(tl, g, q) ==
  /\ tl \in [Nodes -> Int] /\ g \in [Threads -> [{1, 2} -> PathRecs]]
  /\ PathsTrue(g, q) /\ TreelocksTrue(tl, g)
PlaceGood == place \in [Nodes -> Spots \cup {Nowhere}] /\ IsTree(place)
AskGood(a) == a \in Asks /\ (a.write => a.name \in Names)
Placed(g, t, i, path) == [g EXCEPT ![t][i] = path]

LEMMA PairsCounted ==
  /\ Cardinality(Threads) \in Nat /\ WaitOffset \in Int /\ WaitOffset < -1
  /\ \A S \in SUBSET Pairs : /\ IsFiniteSet(S) /\ Cardinality(S) \in Nat
                             /\ Cardinality(S) + WaitOffset < -1
<1>1. IsFiniteSet(Threads) /\ Cardinality(Threads) \in Nat
  BY FusePathsAssumption, FS_CardinalityType
<1>2. IsFiniteSet({1, 2}) /\ Cardinality({1, 2}) = 2
  <2>1. IsFiniteSet({1}) /\ Cardinality({1}) = 1
    BY FS_Singleton
  <2>2. {1, 2} = {1} \cup {2} /\ 2 \notin {1}
    OBVIOUS
  <2> QED BY <2>1, <2>2, FS_AddElement
<1>3. IsFiniteSet(Pairs) /\ Cardinality(Pairs) = Cardinality(Threads) * 2
  BY <1>1, <1>2, FS_Product DEF Pairs
<1>4. ASSUME NEW S \in SUBSET Pairs
      PROVE  IsFiniteSet(S) /\ Cardinality(S) \in Nat /\ Cardinality(S) <= Cardinality(Pairs)
  BY <1>3, FS_Subset, FS_CardinalityType
<1>5. PICK c \in Nat : c = Cardinality(Threads)
  BY <1>1
<1>6. WaitOffset = -2 * c - 2 /\ Cardinality(Pairs) = c * 2
  BY <1>3, <1>5 DEF WaitOffset
<1>7. WaitOffset \in Int /\ WaitOffset < -1
  BY <1>6
<1>8. ASSUME NEW S \in SUBSET Pairs PROVE Cardinality(S) + WaitOffset < -1
  <2>1. Cardinality(S) \in Nat /\ Cardinality(S) <= c * 2
    BY <1>4, <1>6
  <2>2. PICK k \in Nat : k = Cardinality(S)
    BY <2>1
  <2> QED BY <2>1, <2>2, <1>6
<1> QED BY <1>1, <1>4, <1>7, <1>8

LEMMA GotPairs ==
  ASSUME NEW g, NEW n
  PROVE  Reading(g, n) \in SUBSET Pairs /\ Writing(g, n) \in SUBSET Pairs
BY DEF Reading, Writing, GotOf, Pairs

\* Who has which path with one more, and with one less.
WithPath(g, t, i, path, n) ==
  /\ <<t, i>> \notin Reading(g, n) /\ <<t, i>> \notin Writing(g, n)
  /\ Reading(Placed(g, t, i, path), n)
       = Reading(g, n) \cup (IF n \in DOMAIN path.chain THEN {<<t, i>>} ELSE {})
  /\ Writing(Placed(g, t, i, path), n)
       = Writing(g, n) \cup (IF n = path.wnode THEN {<<t, i>>} ELSE {})
WithoutPath(g, t, i, n) ==
  /\ <<t, i>> \in Reading(g, n) <=> n \in DOMAIN g[t][i].chain
  /\ <<t, i>> \in Writing(g, n) <=> n = g[t][i].wnode
  /\ Reading(Placed(g, t, i, NotLocked), n) = Reading(g, n) \ {<<t, i>>}
  /\ Writing(Placed(g, t, i, NotLocked), n) = Writing(g, n) \ {<<t, i>>}

LEMMA OneMorePath ==
  ASSUME NEW g \in [Threads -> [{1, 2} -> PathRecs]], NEW t \in Threads, NEW i \in {1, 2},
         ~g[t][i].locked, NEW path \in PathRecs, path.locked, NEW n
  PROVE  WithPath(g, t, i, path, n)
<1> DEFINE h == Placed(g, t, i, path)
<1>1. \A u \in Threads, j \in {1, 2} : h[u][j] = IF u = t /\ j = i THEN path ELSE g[u][j]
  BY DEF Placed
<1>2. \A x \in Pairs : /\ x = <<x[1], x[2]>> /\ x[1] \in Threads /\ x[2] \in {1, 2}
                       /\ x = <<t, i>> <=> x[1] = t /\ x[2] = i
  BY DEF Pairs
<1>3. <<t, i>> \in Pairs /\ <<t, i>>[1] = t /\ <<t, i>>[2] = i
  BY DEF Pairs
<1> HIDE DEF h
<1>4. ASSUME NEW x \in Pairs PROVE h[x[1]][x[2]] = IF x = <<t, i>> THEN path ELSE g[x[1]][x[2]]
  BY <1>1, <1>2
<1>5. <<t, i>> \notin Reading(g, n) /\ <<t, i>> \notin Writing(g, n)
  BY <1>3 DEF Reading, Writing, GotOf
<1>6. ASSUME NEW x \in Pairs
      PROVE  /\ x \in Reading(h, n) <=> x \in Reading(g, n) \/ (x = <<t, i>> /\ n \in DOMAIN path.chain)
             /\ x \in Writing(h, n) <=> x \in Writing(g, n) \/ (x = <<t, i>> /\ n = path.wnode)
  BY <1>3, <1>4, <1>5 DEF Reading, Writing, GotOf, Pairs
<1>7. /\ Reading(h, n) \subseteq Pairs /\ Reading(g, n) \subseteq Pairs
      /\ Writing(h, n) \subseteq Pairs /\ Writing(g, n) \subseteq Pairs
  BY GotPairs
<1>8. Reading(h, n) = Reading(g, n) \cup (IF n \in DOMAIN path.chain THEN {<<t, i>>} ELSE {})
  BY <1>3, <1>6, <1>7
<1>9. Writing(h, n) = Writing(g, n) \cup (IF n = path.wnode THEN {<<t, i>>} ELSE {})
  BY <1>3, <1>6, <1>7
<1> QED BY <1>5, <1>8, <1>9 DEF h, WithPath

LEMMA OneLessPath ==
  ASSUME NEW g \in [Threads -> [{1, 2} -> PathRecs]], NEW t \in Threads, NEW i \in {1, 2},
         g[t][i].locked, NEW n
  PROVE  WithoutPath(g, t, i, n)
<1> DEFINE h == Placed(g, t, i, NotLocked)
<1>1. \A u \in Threads, j \in {1, 2} : h[u][j] = IF u = t /\ j = i THEN NotLocked ELSE g[u][j]
  BY DEF Placed
<1>2. \A x \in Pairs : /\ x = <<x[1], x[2]>> /\ x[1] \in Threads /\ x[2] \in {1, 2}
                       /\ x = <<t, i>> <=> x[1] = t /\ x[2] = i
  BY DEF Pairs
<1>3. <<t, i>> \in Pairs /\ <<t, i>>[1] = t /\ <<t, i>>[2] = i
  BY DEF Pairs
<1> HIDE DEF h
<1>4. ASSUME NEW x \in Pairs PROVE h[x[1]][x[2]] = IF x = <<t, i>> THEN NotLocked ELSE g[x[1]][x[2]]
  BY <1>1, <1>2
<1>5. /\ <<t, i>> \in Reading(g, n) <=> n \in DOMAIN g[t][i].chain
      /\ <<t, i>> \in Writing(g, n) <=> n = g[t][i].wnode
  BY <1>3 DEF Reading, Writing, GotOf, Pairs
<1>0. ~NotLocked.locked
  BY DEF NotLocked
<1>6. ASSUME NEW x \in Pairs
      PROVE  /\ x \in Reading(h, n) <=> x \in Reading(g, n) /\ x # <<t, i>>
             /\ x \in Writing(h, n) <=> x \in Writing(g, n) /\ x # <<t, i>>
  BY <1>0, <1>3, <1>4 DEF Reading, Writing, GotOf, Pairs
<1>7. /\ Reading(h, n) \subseteq Pairs /\ Reading(g, n) \subseteq Pairs
      /\ Writing(h, n) \subseteq Pairs /\ Writing(g, n) \subseteq Pairs
  BY GotPairs
<1>8. Reading(h, n) = Reading(g, n) \ {<<t, i>>} /\ Writing(h, n) = Writing(g, n) \ {<<t, i>>}
  BY <1>6, <1>7
<1> QED BY <1>5, <1>8 DEF h, WithoutPath

\* What a treelock says of the paths that go through its node.
LEMMA LockSays ==
  ASSUME NEW tl \in [Nodes -> Int], NEW g, TreelocksTrue(tl, g), NEW n \in Nodes
  PROVE  /\ tl[n] = 0 => Writing(g, n) = {} /\ Reading(g, n) = {}
         /\ tl[n] >= 0 => Writing(g, n) = {} /\ tl[n] = Cardinality(Reading(g, n))
         /\ tl[n] < 0 => Writing(g, n) # {} \/ Reading(g, n) # {}
         /\ Writing(g, n) # {} => Reading(g, n) = {} /\ Cardinality(Writing(g, n)) = 1 /\ tl[n] = Write
<1>1. PICK r \in Nat : /\ r = Cardinality(Reading(g, n)) /\ r + WaitOffset < -1
                       /\ r = 0 <=> Reading(g, n) = {}
  BY GotPairs, PairsCounted, FS_EmptySet
<1>2. Cardinality(Writing(g, n)) = 1 => Writing(g, n) # {}
  BY FS_EmptySet
<1>3. \/ Cardinality(Writing(g, n)) = 1 /\ Reading(g, n) = {} /\ tl[n] = Write
      \/ Writing(g, n) = {} /\ tl[n] = r
      \/ Writing(g, n) = {} /\ Reading(g, n) # {} /\ tl[n] = r + WaitOffset
  BY <1>1 DEF TreelocksTrue
<1>4. tl[n] \in Int /\ WaitOffset \in Int
  BY PairsCounted
<1> QED BY <1>1, <1>2, <1>3, <1>4 DEF Write

WriteNode(a) == IF a.write THEN Lookup(a.dir, a.name) ELSE None
Took(tl, a, r) ==
  LET w == WriteNode(a)
  IN  /\ w = None \/ tl[w] = 0
      /\ \A n \in Above(a.dir) : place[n] # Nowhere /\ ~(tl[n] < 0)
      /\ r.tl = [n \in Nodes |-> IF n = w THEN Write
                                 ELSE IF n \in Above(a.dir) THEN tl[n] + 1 ELSE tl[n]]
      /\ r.path = [chain |-> Trail(a.dir), wnode |-> w, locked |-> TRUE]
      /\ Unbroken(a.dir)
Missed(tl, a, r) ==
  LET w == WriteNode(a)
  IN  /\ r.path = NotLocked
      /\ r.tl = tl \/ (w # None /\ r.tl = MarkWaiting(tl, w))
      /\ r.err = "noent" => ~Unbroken(a.dir)
      /\ r.err = "again" => \/ w # None /\ tl[w] # 0
                            \/ \E n \in Above(a.dir) : place[n] # Nowhere /\ tl[n] < 0
LEMMA Tries ==
  ASSUME NEW tl, NEW a, NEW r, r = TryGetPath(tl, a)
  PROVE  /\ r.err \in {"ok", "again", "noent"}
         /\ r.err = "ok" => Took(tl, a, r)
         /\ r.err # "ok" => Missed(tl, a, r)
<1>0. PICK w : w = WriteNode(a)
  OBVIOUS
<1> DEFINE busy == w # None /\ Busy(tl, w)
           shut == \E n \in Above(a.dir) : place[n] # Nowhere /\ tl[n] < 0
           gone == \E n \in Above(a.dir) : place[n] = Nowhere
<1>1. r = IF busy THEN [err |-> "again", tl |-> MarkWaiting(tl, w), path |-> NotLocked]
          ELSE IF shut THEN [err |-> "again", tl |-> tl, path |-> NotLocked]
          ELSE IF gone THEN [err |-> "noent", tl |-> tl, path |-> NotLocked]
          ELSE [err |-> "ok",
                tl  |-> [n \in Nodes |-> IF n = w THEN Write
                                         ELSE IF n \in Above(a.dir) THEN tl[n] + 1 ELSE tl[n]],
                path |-> [chain |-> Trail(a.dir), wnode |-> w, locked |-> TRUE]]
  BY <1>0 DEF TryGetPath, WriteNode
<1> HIDE DEF busy, shut, gone
<1>2. CASE busy
  BY <1>0, <1>1, <1>2 DEF busy, Busy, Took, Missed
<1>3. CASE ~busy /\ shut
  BY <1>0, <1>1, <1>3 DEF shut, Took, Missed
<1>4. CASE ~busy /\ ~shut /\ gone
  BY <1>0, <1>1, <1>4 DEF gone, Unbroken, Took, Missed
<1>5. CASE ~busy /\ ~shut /\ ~gone
  BY <1>0, <1>1, <1>5 DEF busy, shut, gone, Busy, Unbroken, Took, Missed
<1> QED BY <1>2, <1>3, <1>4, <1>5

\* Where a path is taken.
LEMMA TakePath ==
  ASSUME PlaceGood, NEW tl, NEW g, NEW q, PathsGood(tl, g, q),
         NEW t \in Threads, NEW i \in {1, 2}, i \in DOMAIN q[t].asks, NEW a, a = q[t].asks[i], AskGood(a),
         ~g[t][i].locked, stage[t] # "done",
         NEW r, r = TryGetPath(tl, a), r.err = "ok"
  PROVE  PathsGood(r.tl, Placed(g, t, i, r.path), q) /\ r.path.locked /\ r.path \in PathRecs
<1> DEFINE h == Placed(g, t, i, r.path)
<1>0. None \notin Nodes /\ None # Root /\ a.dir \in {Root} \cup Nodes /\ a.write \in BOOLEAN
  BY FusePathsAssumption DEF AskGood, Asks
<1>1. PICK w : w = IF a.write THEN Lookup(a.dir, a.name) ELSE None
  OBVIOUS
<1>2. /\ w = None \/ tl[w] = 0
      /\ \A n \in Above(a.dir) : place[n] # Nowhere /\ ~(tl[n] < 0)
      /\ r.tl = [n \in Nodes |-> IF n = w THEN Write ELSE IF n \in Above(a.dir) THEN tl[n] + 1 ELSE tl[n]]
      /\ r.path = [chain |-> Trail(a.dir), wnode |-> w, locked |-> TRUE] /\ Unbroken(a.dir)
  <2>1. Took(tl, a, r)
    BY Tries
  <2> QED BY <2>1, <1>1 DEF Took, WriteNode
<1>3. w \in Nodes \cup {None} /\ (w \in Nodes => a.write /\ place[w] = [dir |-> a.dir, name |-> a.name])
  <2>1. CASE ~a.write
    BY <2>1, <1>1, <1>0
  <2>2. CASE a.write
    <3>1. a.name \in Names /\ w = Lookup(a.dir, a.name)
      BY <2>2, <1>1 DEF AskGood
    <3> QED BY <3>1, <2>2, <1>0, LookedUp DEF PlaceGood
  <2> QED BY <2>1, <2>2, <1>0
<1>4. w \notin Above(a.dir)
  <2>1. CASE w \in Nodes
    <3>1. w \notin Ancestors(place, place[w].dir)
      BY <2>1 DEF PlaceGood, IsTree
    <3>2. place[w].dir = a.dir
      BY <2>1, <1>3
    <3> QED BY <3>1, <3>2 DEF Above
  <2>2. CASE w = None
    BY <2>2, <1>0, OnTheWay DEF Above
  <2> QED BY <2>1, <2>2, <1>3
<1>5. Above(a.dir) \subseteq Nodes
  BY OnTheWay DEF Above
<1>6. Trail(a.dir) \in [Above(a.dir) -> Spots \cup {Nowhere}]
  BY <1>5 DEF Trail, PlaceGood
<1>7. r.path \in PathRecs /\ r.path.locked /\ DOMAIN r.path.chain = Above(a.dir) /\ r.path.wnode = w
  <2>1. Trail(a.dir) \in UNION {[S -> Spots \cup {Nowhere}] : S \in SUBSET Nodes}
    BY <1>5, <1>6
  <2>2. DOMAIN Trail(a.dir) = Above(a.dir)
    BY DEF Trail
  <2> QED BY <2>1, <2>2, <1>2, <1>3 DEF PathRecs
<1>8. tl \in [Nodes -> Int] /\ g \in [Threads -> [{1, 2} -> PathRecs]] /\ PathsTrue(g, q) /\ TreelocksTrue(tl, g)
  BY DEF PathsGood
<1>9. h \in [Threads -> [{1, 2} -> PathRecs]]
  BY <1>7, <1>8 DEF Placed
<1>10. r.tl \in [Nodes -> Int]
  BY <1>2, <1>8 DEF Write
<1>11. PathsTrue(h, q)
  <2> SUFFICES ASSUME NEW u \in Threads, NEW j \in {1, 2}
               PROVE  IF h[u][j].locked THEN HeldTrue(q, u, j, h[u][j]) ELSE h[u][j] = NotLocked
    BY DEF PathsTrue
  <2>1. CASE u = t /\ j = i
    <3>1. h[u][j] = r.path
      BY <2>1, <1>8 DEF Placed
    <3>2. HeldTrue(q, t, i, r.path)
      <4>1. r.path.chain = Trail(a.dir) /\ r.path.wnode = w
        BY <1>2
      <4>2. w # None => a.write
        BY <1>1
      <4>3. a.write => w = Lookup(a.dir, a.name)
        BY <1>1
      <4> QED BY <4>1, <4>2, <4>3, <1>2 DEF HeldTrue
    <3> QED BY <3>1, <3>2, <2>1, <1>7
  <2>2. CASE ~(u = t /\ j = i)
    <3>1. h[u][j] = g[u][j]
      BY <2>2, <1>8 DEF Placed
    <3> QED BY <3>1, <1>8 DEF PathsTrue
  <2> QED BY <2>1, <2>2
<1>12. TreelocksTrue(r.tl, h)
  <2> SUFFICES ASSUME NEW n \in Nodes
               PROVE  \/ Cardinality(Writing(h, n)) = 1 /\ Reading(h, n) = {} /\ r.tl[n] = Write
                      \/ Writing(h, n) = {} /\ r.tl[n] = Cardinality(Reading(h, n))
                      \/ /\ Writing(h, n) = {} /\ Reading(h, n) # {}
                         /\ r.tl[n] = Cardinality(Reading(h, n)) + WaitOffset
    BY DEF TreelocksTrue
  <2>1. /\ <<t, i>> \notin Reading(g, n) /\ <<t, i>> \notin Writing(g, n)
        /\ Reading(h, n) = Reading(g, n) \cup (IF n \in Above(a.dir) THEN {<<t, i>>} ELSE {})
        /\ Writing(h, n) = Writing(g, n) \cup (IF n = w THEN {<<t, i>>} ELSE {})
    <3>1. WithPath(g, t, i, r.path, n)
      BY <1>7, <1>8, OneMorePath
    <3> QED BY <3>1, <1>7 DEF WithPath
  <2>2. CASE n = w
    <3>1. Reading(g, n) = {} /\ Writing(g, n) = {}
      BY <2>2, <1>0, <1>2, <1>8, LockSays
    <3>2. Reading(h, n) = {} /\ Writing(h, n) = {<<t, i>>}
      BY <3>1, <2>1, <2>2, <1>4
    <3>3. Cardinality({<<t, i>>}) = 1 /\ r.tl[n] = Write
      BY <2>2, <1>2, FS_Singleton
    <3> QED BY <3>2, <3>3
  <2>3. CASE n # w /\ n \in Above(a.dir)
    <3>1. Writing(g, n) = {} /\ tl[n] = Cardinality(Reading(g, n)) /\ tl[n] \in Int
      <4>1. ~(tl[n] < 0) /\ tl[n] \in Int
        BY <2>3, <1>2, <1>8
      <4>2. tl[n] >= 0
        BY <4>1
      <4> QED BY <4>1, <4>2, <1>8, LockSays
    <3>2. Reading(h, n) = Reading(g, n) \cup {<<t, i>>} /\ Writing(h, n) = {}
      BY <2>1, <2>3, <3>1
    <3>3. IsFiniteSet(Reading(g, n))
      BY GotPairs, PairsCounted
    <3>4. Cardinality(Reading(h, n)) = Cardinality(Reading(g, n)) + 1
      BY <3>2, <3>3, <2>1, FS_AddElement, ZenonT(60)
    <3>5. r.tl[n] = tl[n] + 1
      BY <2>3, <1>2
    <3> QED BY <3>1, <3>2, <3>4, <3>5
  <2>4. CASE n # w /\ n \notin Above(a.dir)
    <3>1. Reading(h, n) = Reading(g, n) /\ Writing(h, n) = Writing(g, n) /\ r.tl[n] = tl[n]
      BY <2>1, <2>4, <1>2
    <3> QED BY <3>1, <1>8 DEF TreelocksTrue
  <2> QED BY <2>2, <2>3, <2>4
<1> QED BY <1>7, <1>9, <1>10, <1>11, <1>12 DEF PathsGood

\* Where none is.
LEMMA MarkPath ==
  ASSUME PlaceGood, NEW tl, NEW g, NEW q, PathsGood(tl, g, q), NEW a, AskGood(a),
         NEW r, r = TryGetPath(tl, a), r.err # "ok"
  PROVE  PathsGood(r.tl, g, q) /\ r.path = NotLocked
<1>1. PICK w : w = IF a.write THEN Lookup(a.dir, a.name) ELSE None
  OBVIOUS
<1>2. r.path = NotLocked /\ (r.tl = tl \/ (w # None /\ r.tl = MarkWaiting(tl, w)))
  <2>1. Missed(tl, a, r)
    BY Tries
  <2> QED BY <2>1, <1>1 DEF Missed, WriteNode
<1>3. tl \in [Nodes -> Int] /\ TreelocksTrue(tl, g) /\ WaitOffset \in Int
  BY PairsCounted DEF PathsGood
<1>4. CASE r.tl = tl
  BY <1>2, <1>4
<1>5. CASE w # None /\ r.tl = MarkWaiting(tl, w)
  <2>0. None \notin Nodes /\ None # Root /\ a.dir \in {Root} \cup Nodes
    BY FusePathsAssumption DEF AskGood, Asks
  <2>1. w \in Nodes
    <3>1. a.write /\ a.name \in Names /\ w = Lookup(a.dir, a.name)
      BY <1>1, <1>5 DEF AskGood
    <3> QED BY <3>1, <2>0, <1>5, LookedUp DEF PlaceGood
  <2>2. CASE ~(tl[w] > 0)
    BY <2>2, <1>2, <1>5 DEF MarkWaiting
  <2>3. CASE tl[w] > 0
    <3>1. r.tl = [tl EXCEPT ![w] = tl[w] + WaitOffset]
      BY <2>3, <1>5 DEF MarkWaiting
    <3>2. r.tl \in [Nodes -> Int]
      <4>1. tl[w] + WaitOffset \in Int
        BY <2>1, <1>3
      <4> QED BY <3>1, <4>1, <1>3
    <3>3. Writing(g, w) = {} /\ tl[w] = Cardinality(Reading(g, w))
      BY <2>1, <2>3, <1>3, LockSays
    <3>4. Reading(g, w) # {}
      BY <3>3, <2>3, FS_EmptySet
    <3>5. TreelocksTrue(r.tl, g)
      BY <3>1, <3>3, <3>4, <2>1, <1>3 DEF TreelocksTrue
    <3> QED BY <3>2, <3>5, <1>2 DEF PathsGood
  <2> QED BY <2>2, <2>3
<1> QED BY <1>2, <1>4, <1>5

\* Where one is left.
LEMMA LeavePath ==
  ASSUME PlaceGood, NEW tl, NEW g, NEW q, PathsGood(tl, g, q),
         NEW t \in Threads, NEW i \in {1, 2}, g[t][i].locked
  PROVE  PathsGood(UnlockPath(tl, q[t].asks[i], g[t][i]), Placed(g, t, i, NotLocked), q)
<1> DEFINE h == Placed(g, t, i, NotLocked)
           v == UnlockPath(tl, q[t].asks[i], g[t][i])
<1>1. tl \in [Nodes -> Int] /\ g \in [Threads -> [{1, 2} -> PathRecs]] /\ PathsTrue(g, q) /\ TreelocksTrue(tl, g)
  BY DEF PathsGood
<1>2. NotLocked \in PathRecs /\ ~NotLocked.locked
  <2>1. [n \in {} |-> Nowhere] \in [{} -> Spots \cup {Nowhere}] /\ {} \in SUBSET Nodes
    OBVIOUS
  <2>2. [n \in {} |-> Nowhere] \in UNION {[S -> Spots \cup {Nowhere}] : S \in SUBSET Nodes}
    BY <2>1
  <2> QED BY <2>2 DEF NotLocked, PathRecs
<1>3. h \in [Threads -> [{1, 2} -> PathRecs]]
  BY <1>1, <1>2 DEF Placed
<1>4. HeldTrue(q, t, i, g[t][i])
  BY <1>1 DEF PathsTrue
<1>5. PICK d, w : /\ d = q[t].asks[i].dir /\ w = g[t][i].wnode
                  /\ g[t][i].chain = Trail(d) /\ DOMAIN g[t][i].chain = Above(d)
  BY <1>4 DEF HeldTrue, Trail
<1>6. v = [n \in Nodes |-> IF n = w THEN 0 ELSE IF n \in Above(d) THEN ClearMark(tl[n] - 1) ELSE tl[n]]
  BY <1>5 DEF UnlockPath
<1>7. v \in [Nodes -> Int]
  BY <1>6, <1>1 DEF ClearMark
<1>8. PathsTrue(h, q)
  <2> SUFFICES ASSUME NEW u \in Threads, NEW j \in {1, 2}
               PROVE  IF h[u][j].locked THEN HeldTrue(q, u, j, h[u][j]) ELSE h[u][j] = NotLocked
    BY DEF PathsTrue
  <2>1. CASE u = t /\ j = i
    BY <2>1, <1>1, <1>2 DEF Placed
  <2>2. CASE ~(u = t /\ j = i)
    <3>1. h[u][j] = g[u][j]
      BY <2>2, <1>1 DEF Placed
    <3> QED BY <3>1, <1>1 DEF PathsTrue
  <2> QED BY <2>1, <2>2
<1>9. TreelocksTrue(v, h)
  <2> SUFFICES ASSUME NEW n \in Nodes
               PROVE  \/ Cardinality(Writing(h, n)) = 1 /\ Reading(h, n) = {} /\ v[n] = Write
                      \/ Writing(h, n) = {} /\ v[n] = Cardinality(Reading(h, n))
                      \/ /\ Writing(h, n) = {} /\ Reading(h, n) # {}
                         /\ v[n] = Cardinality(Reading(h, n)) + WaitOffset
    BY DEF TreelocksTrue
  <2>1. /\ <<t, i>> \in Reading(g, n) <=> n \in Above(d)
        /\ <<t, i>> \in Writing(g, n) <=> n = w
        /\ Reading(h, n) = Reading(g, n) \ {<<t, i>>}
        /\ Writing(h, n) = Writing(g, n) \ {<<t, i>>}
    <3>1. WithoutPath(g, t, i, n)
      BY <1>1, OneLessPath
    <3> QED BY <3>1, <1>5 DEF WithoutPath
  <2>2. CASE n = w
    <3>1. <<t, i>> \in Writing(g, n)
      BY <2>1, <2>2
    <3>2. Reading(g, n) = {} /\ Cardinality(Writing(g, n)) = 1 /\ IsFiniteSet(Writing(g, n))
      BY <3>1, <1>1, LockSays, GotPairs, PairsCounted
    <3>3. Writing(g, n) = {<<t, i>>}
      BY <3>1, <3>2, FS_Singleton
    <3>4. Writing(h, n) = {} /\ Reading(h, n) = {} /\ v[n] = 0
      BY <3>2, <3>3, <2>1, <2>2, <1>6
    <3> QED BY <3>4, FS_EmptySet
  <2>3. CASE n # w /\ n \in Above(d)
    <3>1. <<t, i>> \in Reading(g, n)
      BY <2>1, <2>3
    <3>2. PICK k \in Nat : /\ k = Cardinality(Reading(g, n)) /\ k > 0 /\ IsFiniteSet(Reading(g, n))
                           /\ k + WaitOffset < -1
      <4>1. IsFiniteSet(Reading(g, n)) /\ Cardinality(Reading(g, n)) \in Nat
            /\ Cardinality(Reading(g, n)) + WaitOffset < -1
        BY GotPairs, PairsCounted
      <4>2. Cardinality(Reading(g, n)) # 0
        BY <3>1, <4>1, FS_EmptySet
      <4> QED BY <4>1, <4>2
    <3>3. Writing(g, n) = {} /\ (tl[n] = k \/ tl[n] = k + WaitOffset)
      BY <3>1, <3>2, <1>1 DEF TreelocksTrue
    <3>4. Writing(h, n) = {} /\ Cardinality(Reading(h, n)) = k - 1 /\ IsFiniteSet(Reading(h, n))
      <4>1. IsFiniteSet(Reading(g, n) \ {<<t, i>>}) /\ Cardinality(Reading(g, n) \ {<<t, i>>}) = k - 1
        BY <3>1, <3>2, FS_RemoveElement
      <4>2. Writing(h, n) = {}
        BY <3>3, <2>1
      <4> QED BY <4>1, <4>2, <2>1
    <3>5. v[n] = ClearMark(tl[n] - 1)
      BY <2>3, <1>6
    <3>6. Reading(h, n) = {} <=> k - 1 = 0
      BY <3>4, FS_EmptySet
    <3>7. WaitOffset \in Int /\ WaitOffset < -1
      BY PairsCounted
    <3> QED BY <3>2, <3>3, <3>4, <3>5, <3>6, <3>7 DEF ClearMark
  <2>4. CASE n # w /\ n \notin Above(d)
    <3>1. Reading(h, n) = Reading(g, n) /\ Writing(h, n) = Writing(g, n) /\ v[n] = tl[n]
      BY <2>1, <2>4, <1>6
    <3> QED BY <3>1, <1>1 DEF TreelocksTrue
  <2> QED BY <2>2, <2>3, <2>4
<1> QED BY <1>3, <1>7, <1>8, <1>9 DEF PathsGood

-----------------------------------------------------------------------------
(***************************************************************************)
(* The queue.                                                              *)
(***************************************************************************)
LockRecs == [treelock : [Nodes -> Int], got : [Threads -> [{1, 2} -> PathRecs]],
             verdict : [Threads -> {"again", "ok", "noent"}]]
AsksGood(q) ==
  \A t \in Threads : /\ \A i \in DOMAIN q[t].asks : i \in {1, 2} /\ AskGood(q[t].asks[i])
                     /\ stage[t] = "wait" => DOMAIN q[t].asks = IF Len(q[t].asks) = 2 THEN {1, 2} ELSE {1}
DoneWhole(g, q) == \A t \in Threads : stage[t] = "done" => Whole(g, q, t) \/ Nothing(g, t)

\* A node with a lock is below nothing that is nowhere.
LEMMA HeldNode ==
  ASSUME PlaceGood, NEW g, NEW q, g \in [Threads -> [{1, 2} -> PathRecs]], PathsTrue(g, q), AsksGood(q), DoneWhole(g, q),
         NEW n \in Nodes, Reading(g, n) # {} \/ Writing(g, n) # {}
  PROVE  place[n] = Nowhere \/ Unbroken(place[n].dir)
<1>0. None \notin Nodes /\ None # Root
  BY FusePathsAssumption
<1>1. CASE Reading(g, n) # {}
  <2>1. PICK x : x \in Reading(g, n)
    BY <1>1
  <2>2. PICK t \in Threads, i \in {1, 2} : g[t][i].locked /\ n \in DOMAIN g[t][i].chain
    BY <2>1 DEF Reading, GotOf
  <2>3. HeldTrue(q, t, i, g[t][i])
    BY <2>2 DEF PathsTrue
  <2>4. PICK d : Unbroken(d) /\ n \in Above(d)
    BY <2>2, <2>3 DEF HeldTrue, Trail
  <2>5. Ancestors(place, place[n].dir) \subseteq Ancestors(place, d)
    BY <2>4, OneMoreUp, UpFromHere DEF Above
  <2> QED BY <2>4, <2>5 DEF Unbroken, Above
<1>2. CASE Writing(g, n) # {}
  <2>1. PICK x : x \in Writing(g, n)
    BY <1>2
  <2>2. PICK t \in Threads, i \in {1, 2} : g[t][i].locked /\ g[t][i].wnode = n
    BY <2>1 DEF Writing, GotOf
  <2>3. HeldTrue(q, t, i, g[t][i])
    BY <2>2 DEF PathsTrue
  <2>4. CASE stage[t] = "done"
    <3>1. CASE place[n] = Nowhere
      BY <3>1
    <3>2. CASE place[n] # Nowhere
      <4>1. n # None
        BY <1>0
      <4>2. PICK j \in DOMAIN q[t].asks : place[n] = Spot(q[t].asks[j])
        BY <2>2, <2>3, <2>4, <3>2, <4>1 DEF HeldTrue
      <4>3. g[t][j].locked /\ j \in {1, 2}
        <5>1. j \in {1, 2}
          BY <4>2 DEF AsksGood
        <5>2. Whole(g, q, t)
          BY <2>2, <2>4 DEF DoneWhole, Nothing
        <5> QED BY <4>2, <5>1, <5>2 DEF Whole
      <4>4. Unbroken(q[t].asks[j].dir)
        BY <4>3 DEF PathsTrue, HeldTrue
      <4>5. place[n].dir = q[t].asks[j].dir
        BY <4>2 DEF Spot
      <4> QED BY <4>4, <4>5
    <3> QED BY <3>1, <3>2
  <2>5. CASE stage[t] # "done"
    <3>1. PICK a : a = q[t].asks[i] /\ AskGood(a) /\ a.write /\ Unbroken(a.dir) /\ n = Lookup(a.dir, a.name)
      BY <1>0, <2>2, <2>3, <2>5 DEF HeldTrue, AsksGood
    <3>2. a.dir \in Nodes \cup {Root} /\ a.name \in Names
      BY <3>1 DEF AskGood, Asks
    <3>3. place[n] = [dir |-> a.dir, name |-> a.name]
      BY <3>1, <3>2, <1>0, LookedUp, SMTT(40) DEF PlaceGood
    <3>4. place[n].dir = a.dir
      BY <3>3
    <3> QED BY <3>1, <3>4
  <2> QED BY <2>4, <2>5
<1> QED BY <1>1, <1>2

\* What is broken is found broken, whatever locks there are.
LEMMA StaysBroken ==
  ASSUME PlaceGood, NEW tl, NEW g, NEW q, PathsGood(tl, g, q), AsksGood(q), DoneWhole(g, q),
         NEW a, AskGood(a), ~Unbroken(a.dir), NEW r, r = TryGetPath(tl, a)
  PROVE  r.err = "noent"
<1>0. None \notin Nodes /\ None # Root /\ a.dir \in Nodes \cup {Root}
  BY FusePathsAssumption DEF AskGood, Asks
<1>1. g \in [Threads -> [{1, 2} -> PathRecs]] /\ PathsTrue(g, q) /\ tl \in [Nodes -> Int] /\ TreelocksTrue(tl, g)
  BY DEF PathsGood
<1>2. ASSUME NEW n \in Nodes, tl[n] # 0 PROVE place[n] = Nowhere \/ Unbroken(place[n].dir)
  <2>1. Reading(g, n) # {} \/ Writing(g, n) # {}
    <3> SUFFICES ASSUME Reading(g, n) = {}, Writing(g, n) = {} PROVE FALSE
      OBVIOUS
    <3>1. Cardinality(Reading(g, n)) = 0 /\ Cardinality(Writing(g, n)) # 1
      BY FS_EmptySet
    <3> QED BY <3>1, <1>1, <1>2 DEF TreelocksTrue
  <2> QED BY <2>1, <1>1, HeldNode
<1>3. r.err \in {"ok", "again", "noent"} /\ (r.err = "ok" => Took(tl, a, r)) /\ (r.err # "ok" => Missed(tl, a, r))
  BY Tries
<1>4. CASE r.err = "ok"
  BY <1>3, <1>4 DEF Took
<1>5. CASE r.err = "again"
  <2>1. PICK w : w = WriteNode(a)
    OBVIOUS
  <2>2. \/ w # None /\ tl[w] # 0
        \/ \E n \in Above(a.dir) : place[n] # Nowhere /\ tl[n] < 0
    BY <1>3, <1>5, <2>1 DEF Missed
  <2>3. CASE w # None /\ tl[w] # 0
    <3>1. a.write /\ a.name \in Names /\ w = Lookup(a.dir, a.name)
      BY <2>1, <2>3 DEF WriteNode, AskGood
    <3>2. w \in Nodes /\ place[w] = [dir |-> a.dir, name |-> a.name]
      BY <3>1, <2>3, <1>0, LookedUp DEF PlaceGood
    <3>3. place[w].dir = a.dir /\ place[w] # Nowhere
      <4>1. [dir |-> a.dir, name |-> a.name].dir # Nowhere.dir
        BY <1>0 DEF Nowhere
      <4> QED BY <3>2, <4>1
    <3> QED BY <3>2, <3>3, <2>3, <1>2
  <2>4. CASE \E n \in Above(a.dir) : place[n] # Nowhere /\ tl[n] < 0
    <3>1. PICK n \in Above(a.dir) : place[n] # Nowhere /\ tl[n] < 0
      BY <2>4
    <3>2. PICK b \in Above(a.dir) : place[b] = Nowhere
      BY DEF Unbroken
    <3>3. n \in Nodes /\ b \in Nodes
      BY <3>1, <3>2, OnTheWay DEF Above
    <3>4. b \in Ancestors(place, n)
      BY <3>1, <3>2, <1>0, LastOnTheWay DEF Above
    <3>5. b \in Ancestors(place, place[n].dir)
      BY <3>1, <3>2, <3>3, <3>4, OneMoreUp
    <3>6. ~Unbroken(place[n].dir)
      BY <3>2, <3>5 DEF Unbroken, Above
    <3>7. tl[n] # 0
      BY <3>1, <3>3, <1>1
    <3> QED BY <3>1, <3>3, <3>6, <3>7, <1>2
  <2> QED BY <2>2, <2>3, <2>4
<1> QED BY <1>3, <1>4, <1>5

\* One path of a thread is tried.
TryDone(s, t, i, y) ==
  /\ y.s \in LockRecs /\ PathsGood(y.s.treelock, y.s.got, request)
  /\ y.s.verdict = s.verdict
  /\ \A u \in Threads, j \in {1, 2} : ~(u = t /\ j = i) => y.s.got[u][j] = s.got[u][j]
  /\ y.err \in {"ok", "again", "noent"}
  /\ y.err = "ok" <=> y.s.got[t][i].locked
  /\ s.got[t][i].locked => y.err = "ok"
  /\ y.err = "noent" => ~Unbroken(request[t].asks[i].dir)
  /\ DoneWhole(s.got, request) /\ ~Unbroken(request[t].asks[i].dir) => y.err = "noent"
LEMMA TryOne ==
  ASSUME PlaceGood, NEW s \in LockRecs, PathsGood(s.treelock, s.got, request), AsksGood(request),
         NEW t \in Threads, stage[t] # "done", NEW i \in {1, 2}, i \in DOMAIN request[t].asks,
         NEW y, y = Try(s, t, i)
  PROVE  TryDone(s, t, i, y)
<1>0. PICK tl, g, v : /\ tl = s.treelock /\ g = s.got /\ v = s.verdict
                      /\ s = [treelock |-> tl, got |-> g, verdict |-> v]
                      /\ tl \in [Nodes -> Int] /\ g \in [Threads -> [{1, 2} -> PathRecs]]
                      /\ v \in [Threads -> {"again", "ok", "noent"}]
  BY DEF LockRecs
<1>1. PICK a : a = request[t].asks[i] /\ AskGood(a)
  BY DEF AsksGood
<1>2. PathsTrue(g, request) /\ PathsGood(tl, g, request)
  BY <1>0 DEF PathsGood
<1>3. CASE s.got[t][i].locked
  <2>1. y = [s |-> s, err |-> "ok"]
    BY <1>3 DEF Try
  <2>2. Unbroken(request[t].asks[i].dir)
    BY <1>0, <1>2, <1>3 DEF PathsTrue, HeldTrue
  <2> QED BY <1>3, <2>1, <2>2 DEF TryDone
<1>4. CASE ~s.got[t][i].locked
  <2>1. PICK r : r = TryGetPath(tl, a)
    OBVIOUS
  <2>2. y = [s |-> [s EXCEPT !.treelock = r.tl, !.got[t][i] = r.path], err |-> r.err]
    BY <1>0, <1>1, <1>4, <2>1 DEF Try
  <2>3. y.s = [treelock |-> r.tl, got |-> Placed(g, t, i, r.path), verdict |-> v] /\ y.err = r.err
    <3>1. PICK h : h = [g EXCEPT ![t][i] = r.path]
      OBVIOUS
    <3>2. PICK x : x = [s EXCEPT !.treelock = r.tl, !.got = h]
      OBVIOUS
    <3>3. x = [s EXCEPT !.treelock = r.tl, !.got[t][i] = r.path]
      BY <1>0, <3>1, <3>2
    <3>4. x = [treelock |-> r.tl, got |-> h, verdict |-> v]
      BY <1>0, <3>2
    <3>5. y = [s |-> x, err |-> r.err]
      BY <2>2, <3>3
    <3>6. h = Placed(g, t, i, r.path)
      BY <3>1 DEF Placed
    <3>7. y.s = x /\ y.err = r.err
      BY <3>5
    <3> QED BY <3>4, <3>6, <3>7
  <2>4. r.err \in {"ok", "again", "noent"} /\ (r.err # "ok" => Missed(tl, a, r))
    BY <2>1, Tries
  <2>5. \A u \in Threads, j \in {1, 2} : Placed(g, t, i, r.path)[u][j] = IF u = t /\ j = i THEN r.path ELSE g[u][j]
    BY <1>0 DEF Placed
  <2>6. CASE r.err = "ok"
    <3>1. PathsGood(r.tl, Placed(g, t, i, r.path), request) /\ r.path.locked /\ r.path \in PathRecs
      <4>1. ~g[t][i].locked
        BY <1>0, <1>4
      <4> QED BY <4>1, <1>1, <1>2, <2>1, <2>6, TakePath
    <3>2. y.s \in LockRecs
      BY <3>1, <2>3, <1>0 DEF PathsGood, LockRecs
    <3>3. Took(tl, a, r)
      BY <2>1, <2>6, Tries
    <3>4. Unbroken(request[t].asks[i].dir)
      BY <3>3, <1>1 DEF Took
    <3> QED BY <1>0, <1>4, <2>3, <2>5, <2>6, <3>1, <3>2, <3>4 DEF TryDone
  <2>7. CASE r.err # "ok"
    <3>1. PathsGood(r.tl, g, request) /\ r.path = NotLocked
      BY <1>1, <1>2, <2>1, <2>7, MarkPath
    <3>2. g[t][i] = NotLocked
      BY <1>0, <1>2, <1>4 DEF PathsTrue
    <3>3. Placed(g, t, i, r.path) = g
      BY <3>1, <3>2, <1>0 DEF Placed
    <3>4. y.s = [treelock |-> r.tl, got |-> g, verdict |-> v]
      BY <2>3, <3>3
    <3>5. y.s \in LockRecs
      BY <3>1, <3>4, <1>0 DEF PathsGood, LockRecs
    <3>6. r.err = "noent" => ~Unbroken(request[t].asks[i].dir)
      BY <2>4, <2>7, <1>1 DEF Missed
    <3>7. DoneWhole(g, request) /\ ~Unbroken(request[t].asks[i].dir) => r.err = "noent"
      BY <1>1, <1>2, <2>1, StaysBroken
    <3>8. y.err = "ok" <=> y.s.got[t][i].locked
      BY <3>4, <1>0, <1>4, <2>3, <2>7
    <3> QED BY <1>0, <1>4, <2>3, <2>4, <2>7, <3>1, <3>4, <3>5, <3>6, <3>7, <3>8 DEF TryDone
  <2> QED BY <2>6, <2>7
<1> QED BY <1>3, <1>4

\* All paths of a thread are left.
Left(s, t, y) ==
  /\ y \in LockRecs /\ PathsGood(y.treelock, y.got, request) /\ y.verdict = s.verdict
  /\ y.got = [s.got EXCEPT ![t] = Both(NotLocked, NotLocked)]
  /\ Nothing(y.got, t) /\ \A u \in Threads \ {t} : y.got[u] = s.got[u]
LEMMA ReleaseLeaves ==
  ASSUME PlaceGood, NEW s \in LockRecs, PathsGood(s.treelock, s.got, request), NEW t \in Threads
  PROVE  Left(s, t, Release(s, t))
<1>0. PICK tl, g, v : /\ tl = s.treelock /\ g = s.got /\ v = s.verdict
                      /\ s = [treelock |-> tl, got |-> g, verdict |-> v]
                      /\ tl \in [Nodes -> Int] /\ g \in [Threads -> [{1, 2} -> PathRecs]]
                      /\ v \in [Threads -> {"again", "ok", "noent"}]
  BY DEF LockRecs
<1>1. PathsGood(tl, g, request) /\ PathsTrue(g, request)
  BY <1>0 DEF PathsGood
<1>2. PICK one, g1 : /\ one = IF g[t][1].locked THEN UnlockPath(tl, request[t].asks[1], g[t][1]) ELSE tl
                     /\ g1 = Placed(g, t, 1, NotLocked)
  OBVIOUS
<1>3. PathsGood(one, g1, request)
  <2>1. CASE g[t][1].locked
    BY <2>1, <1>1, <1>2, LeavePath
  <2>2. CASE ~g[t][1].locked
    <3>1. g[t][1] = NotLocked
      BY <2>2, <1>1 DEF PathsTrue
    <3>2. g1 = g
      BY <3>1, <1>0, <1>2 DEF Placed
    <3> QED BY <2>2, <3>2, <1>1, <1>2
  <2> QED BY <2>1, <2>2
<1>4. PICK two, g2 : /\ two = IF g1[t][2].locked THEN UnlockPath(one, request[t].asks[2], g1[t][2]) ELSE one
                     /\ g2 = Placed(g1, t, 2, NotLocked)
  OBVIOUS
<1>5. g1 \in [Threads -> [{1, 2} -> PathRecs]] /\ PathsTrue(g1, request)
  BY <1>3 DEF PathsGood
<1>6. PathsGood(two, g2, request)
  <2>1. CASE g1[t][2].locked
    BY <2>1, <1>3, <1>4, LeavePath
  <2>2. CASE ~g1[t][2].locked
    <3>1. g1[t][2] = NotLocked
      BY <2>2, <1>5 DEF PathsTrue
    <3>2. g2 = g1
      BY <3>1, <1>4, <1>5 DEF Placed
    <3> QED BY <2>2, <3>2, <1>3, <1>4
  <2> QED BY <2>1, <2>2
<1>7. g1[t][2] = g[t][2]
  BY <1>0, <1>2 DEF Placed
<1>8. g2 = [g EXCEPT ![t] = Both(NotLocked, NotLocked)]
  <2>1. g2 \in [Threads -> [{1, 2} -> PathRecs]]
    BY <1>6 DEF PathsGood
  <2>2. \A u \in Threads \ {t} : g2[u] = g[u]
    BY <1>0, <1>2, <1>4, <1>5 DEF Placed
  <2>3. g2[t][1] = NotLocked /\ g2[t][2] = NotLocked
    BY <1>0, <1>2, <1>4, <1>5 DEF Placed
  <2>4. g2[t] = Both(NotLocked, NotLocked)
    <3>1. g2[t] \in [{1, 2} -> PathRecs]
      BY <2>1
    <3>2. \A i \in {1, 2} : g2[t][i] = Both(NotLocked, NotLocked)[i]
      BY <2>3 DEF Both
    <3>3. Both(NotLocked, NotLocked) = [i \in {1, 2} |-> Both(NotLocked, NotLocked)[i]]
      BY DEF Both
    <3> QED BY <3>1, <3>2, <3>3
  <2> QED BY <1>0, <2>1, <2>2, <2>4
<1>9. PICK y : y = Release(s, t)
  OBVIOUS
<1>10. two = UnlockBoth(s.treelock, t, s.got[t])
  BY <1>0, <1>2, <1>4, <1>7 DEF UnlockBoth
<1>11. y = [treelock |-> two, got |-> g2, verdict |-> v]
  BY <1>0, <1>8, <1>9, <1>10 DEF Release
<1>12. y \in LockRecs
  BY <1>0, <1>6, <1>11 DEF LockRecs, PathsGood
<1>13. Nothing(y.got, t)
  <2>1. y.got[t] = Both(NotLocked, NotLocked)
    BY <1>0, <1>8, <1>11
  <2> QED BY <2>1 DEF Both, Nothing, NotLocked
<1>14. \A u \in Threads \ {t} : y.got[u] = s.got[u]
  BY <1>0, <1>8, <1>11
<1> QED BY <1>0, <1>6, <1>8, <1>9, <1>11, <1>12, <1>13, <1>14 DEF Left

\* One thread that waits is tried. b is who had which path at first.
WakeGood(s, b) ==
  /\ s \in LockRecs /\ PathsGood(s.treelock, s.got, request)
  /\ \A u \in Threads : IF stage[u] = "wait" THEN VerdictTrue(s.got, request, s.verdict, u)
                                             ELSE s.got[u] = b[u]
LEMMA WakeOther ==
  ASSUME NEW s \in LockRecs, NEW b, WakeGood(s, b), NEW t \in Threads, stage[t] = "wait",
         NEW y \in LockRecs, PathsGood(y.treelock, y.got, request),
         \A u \in Threads \ {t} : y.got[u] = s.got[u] /\ y.verdict[u] = s.verdict[u],
         VerdictTrue(y.got, request, y.verdict, t)
  PROVE  WakeGood(y, b)
<1> SUFFICES ASSUME NEW u \in Threads \ {t}
             PROVE  IF stage[u] = "wait" THEN VerdictTrue(y.got, request, y.verdict, u) ELSE y.got[u] = b[u]
  BY DEF WakeGood
<1>1. y.got[u] = s.got[u] /\ y.verdict[u] = s.verdict[u]
  OBVIOUS
<1>2. IF stage[u] = "wait" THEN VerdictTrue(s.got, request, s.verdict, u) ELSE s.got[u] = b[u]
  BY DEF WakeGood
<1> QED BY <1>1, <1>2 DEF VerdictTrue, Nothing, Whole

LEMMA StillWhole ==
  ASSUME NEW s, NEW b, WakeGood(s, b), DoneWhole(b, request)
  PROVE  DoneWhole(s.got, request)
<1> SUFFICES ASSUME NEW u \in Threads, stage[u] = "done" PROVE Whole(s.got, request, u) \/ Nothing(s.got, u)
  BY DEF DoneWhole
<1>1. s.got[u] = b[u]
  BY DEF WakeGood
<1> QED BY <1>1 DEF DoneWhole, Whole, Nothing

LEMMA OthersKeep ==
  ASSUME NEW s \in LockRecs, NEW t \in Threads, NEW i \in {1, 2}, NEW y, TryDone(s, t, i, y)
  PROVE  \A u \in Threads \ {t} : y.s.got[u] = s.got[u]
<1> SUFFICES ASSUME NEW u \in Threads \ {t} PROVE y.s.got[u] = s.got[u]
  OBVIOUS
<1>1. y.s.got \in [Threads -> [{1, 2} -> PathRecs]] /\ s.got \in [Threads -> [{1, 2} -> PathRecs]]
  BY DEF TryDone, LockRecs
<1>2. \A j \in {1, 2} : y.s.got[u][j] = s.got[u][j]
  BY DEF TryDone
<1> QED BY <1>1, <1>2

\* Both paths of a thread are tried.
BothTried(s, t, one, two) ==
  /\ two.s \in LockRecs /\ PathsGood(two.s.treelock, two.s.got, request)
  /\ two.s.verdict = s.verdict
  /\ \A u \in Threads \ {t} : two.s.got[u] = s.got[u]
  /\ {one.err, two.err} \subseteq {"ok", "again", "noent"}
  /\ "noent" \in {one.err, two.err} <=> \E i \in DOMAIN request[t].asks : ~Unbroken(request[t].asks[i].dir)
  /\ {one.err, two.err} = {"ok"} => Whole(two.s.got, request, t)
  /\ Whole(s.got, request, t) => {one.err, two.err} = {"ok"}
LEMMA TryBoth ==
  ASSUME PlaceGood, AsksGood(request), NEW s \in LockRecs, PathsGood(s.treelock, s.got, request),
         DoneWhole(s.got, request), NEW t \in Threads, stage[t] = "wait",
         NEW one, one = Try(s, t, 1),
         NEW two, two = IF Len(request[t].asks) = 2 /\ one.err # "noent" THEN Try(one.s, t, 2)
                                                                      ELSE [one EXCEPT !.err = "ok"]
  PROVE  BothTried(s, t, one, two)
<1>0. DOMAIN request[t].asks = IF Len(request[t].asks) = 2 THEN {1, 2} ELSE {1}
  BY DEF AsksGood
<1>1. TryDone(s, t, 1, one)
  <2>1. 1 \in DOMAIN request[t].asks /\ stage[t] # "done" /\ 1 \in {1, 2}
    BY <1>0
  <2> QED BY <2>1, TryOne
<1>2. one = [s |-> one.s, err |-> one.err]
  BY DEF Try
<1>3. CASE Len(request[t].asks) = 2 /\ one.err # "noent"
  <2>1. two = Try(one.s, t, 2) /\ DOMAIN request[t].asks = {1, 2} /\ stage[t] # "done"
    BY <1>0, <1>3
  <2>2. DoneWhole(one.s.got, request)
    <3>1. \A u \in Threads \ {t} : one.s.got[u] = s.got[u]
      BY <1>1, OthersKeep
    <3> QED BY <3>1 DEF DoneWhole, Whole, Nothing
  <2>3. TryDone(one.s, t, 2, two)
    <3>1. one.s \in LockRecs /\ PathsGood(one.s.treelock, one.s.got, request)
      BY <1>1 DEF TryDone
    <3>2. 2 \in {1, 2} /\ 2 \in DOMAIN request[t].asks
      BY <2>1
    <3> QED BY <2>1, <3>1, <3>2, TryOne
  <2>4. \A u \in Threads \ {t} : two.s.got[u] = s.got[u]
    <3>1. \A u \in Threads \ {t} : one.s.got[u] = s.got[u]
      BY <1>1, OthersKeep
    <3>2. one.s \in LockRecs
      BY <1>1 DEF TryDone
    <3>3. \A u \in Threads \ {t} : two.s.got[u] = one.s.got[u]
      BY <2>3, <3>2, OthersKeep
    <3> QED BY <3>1, <3>3
  <2>5. two.s.got[t][1] = one.s.got[t][1] /\ one.s.got[t][2] = s.got[t][2]
    BY <1>1, <2>3, SMTT(40) DEF TryDone
  <2>6. /\ one.err \in {"ok", "again", "noent"} /\ two.err \in {"ok", "again", "noent"}
        /\ one.err = "ok" <=> two.s.got[t][1].locked
        /\ two.err = "ok" <=> two.s.got[t][2].locked
        /\ s.got[t][1].locked => one.err = "ok"
        /\ s.got[t][2].locked => two.err = "ok"
        /\ one.err = "noent" <=> ~Unbroken(request[t].asks[1].dir)
        /\ two.err = "noent" <=> ~Unbroken(request[t].asks[2].dir)
    BY <1>1, <2>2, <2>3, <2>5 DEF TryDone
  <2>7. /\ two.s \in LockRecs /\ PathsGood(two.s.treelock, two.s.got, request)
        /\ two.s.verdict = s.verdict
    BY <1>1, <2>3 DEF TryDone
  <2>8. "noent" \in {one.err, two.err} <=> \E i \in DOMAIN request[t].asks : ~Unbroken(request[t].asks[i].dir)
    BY <2>1, <2>6
  <2>9. {one.err, two.err} = {"ok"} => Whole(two.s.got, request, t)
    BY <2>1, <2>6 DEF Whole
  <2>10. Whole(s.got, request, t) => {one.err, two.err} = {"ok"}
    BY <2>1, <2>6 DEF Whole
  <2>11. {one.err, two.err} \subseteq {"ok", "again", "noent"}
    BY <2>6
  <2> QED BY <2>4, <2>7, <2>8, <2>9, <2>10, <2>11 DEF BothTried
<1>4. CASE ~(Len(request[t].asks) = 2 /\ one.err # "noent")
  <2>1. two.s = one.s /\ two.err = "ok"
    BY <1>2, <1>4
  <2>2. \A u \in Threads \ {t} : two.s.got[u] = s.got[u]
    BY <1>1, <2>1, OthersKeep
  <2>3. one.err = "noent" => ~Unbroken(request[t].asks[1].dir)
    BY <1>1 DEF TryDone
  <2>4. ~Unbroken(request[t].asks[1].dir) => one.err = "noent"
    BY <1>1 DEF TryDone
  <2>5. DOMAIN request[t].asks = {1} \/ one.err = "noent"
    BY <1>0, <1>4
  <2>6. one.err \in {"ok", "again", "noent"} /\ (one.err = "ok" <=> two.s.got[t][1].locked)
        /\ (s.got[t][1].locked => one.err = "ok")
        /\ two.s \in LockRecs /\ PathsGood(two.s.treelock, two.s.got, request)
        /\ two.s.verdict = s.verdict
    BY <1>1, <2>1 DEF TryDone
  <2>7. 1 \in DOMAIN request[t].asks
    BY <1>0
  <2>8. "noent" \in {one.err, two.err} <=> \E i \in DOMAIN request[t].asks : ~Unbroken(request[t].asks[i].dir)
    BY <2>1, <2>3, <2>4, <2>5, <2>7
  <2>9. {one.err, two.err} = {"ok"} => Whole(two.s.got, request, t)
    BY <2>1, <2>5, <2>6 DEF Whole
  <2>10. Whole(s.got, request, t) => {one.err, two.err} = {"ok"}
    BY <2>1, <2>6, <2>7 DEF Whole
  <2>11. {one.err, two.err} \subseteq {"ok", "again", "noent"}
    BY <2>1, <2>6
  <2> QED BY <2>2, <2>6, <2>8, <2>9, <2>10, <2>11 DEF BothTried
<1> QED BY <1>3, <1>4

LEMMA WakeOne ==
  ASSUME PlaceGood, AsksGood(request), NEW b, DoneWhole(b, request), NEW s, WakeGood(s, b),
         NEW t \in Threads, stage[t] = "wait", NEW y, y = QueueElementWakeup(s, t)
  PROVE  WakeGood(y, b)
<1>1. /\ s \in LockRecs /\ PathsGood(s.treelock, s.got, request) /\ DoneWhole(s.got, request)
      /\ VerdictTrue(s.got, request, s.verdict, t)
  BY StillWhole DEF WakeGood
<1>2. CASE request[t].kind = "forget"
  <2>1. CASE s.treelock[request[t].asks[1].dir] = 0
    <3>1. y = [s EXCEPT !.verdict[t] = "ok"]
      BY <1>2, <2>1 DEF QueueElementWakeup
    <3>2. y \in LockRecs /\ y.treelock = s.treelock /\ y.got = s.got
          /\ y.verdict = [s.verdict EXCEPT ![t] = "ok"]
      BY <3>1, <1>1 DEF LockRecs
    <3>3. VerdictTrue(y.got, request, y.verdict, t)
      BY <3>2, <1>1, <1>2 DEF VerdictTrue, LockRecs
    <3>4. \A u \in Threads \ {t} : y.got[u] = s.got[u] /\ y.verdict[u] = s.verdict[u]
      BY <3>2, <1>1 DEF LockRecs
    <3>5. PathsGood(y.treelock, y.got, request)
      BY <3>2, <1>1
    <3> QED BY <3>2, <3>3, <3>4, <3>5, <1>1, WakeOther
  <2>2. CASE s.treelock[request[t].asks[1].dir] # 0
    BY <1>2, <2>2 DEF QueueElementWakeup
  <2> QED BY <2>1, <2>2
<1>3. CASE request[t].kind # "forget"
  <2>1. PICK one : one = Try(s, t, 1)
    OBVIOUS
  <2>2. PICK two : two = IF Len(request[t].asks) = 2 /\ one.err # "noent" THEN Try(one.s, t, 2)
                                                                       ELSE [one EXCEPT !.err = "ok"]
    OBVIOUS
  <2>3. y = IF "noent" \in {one.err, two.err}
            THEN [Release(two.s, t) EXCEPT !.verdict[t] = "noent"]
            ELSE IF {one.err, two.err} = {"ok"}
            THEN [two.s EXCEPT !.verdict[t] = "ok"]
            ELSE IF MayKeepPart(t) THEN two.s ELSE Release(two.s, t)
    BY <1>3, <2>1, <2>2 DEF QueueElementWakeup
  <2>4. BothTried(s, t, one, two)
    BY <1>1, <2>1, <2>2, TryBoth
  <2>5. PICK z : z = two.s
    OBVIOUS
  <2>6. /\ z \in LockRecs /\ PathsGood(z.treelock, z.got, request) /\ z.verdict = s.verdict
        /\ \A u \in Threads \ {t} : z.got[u] = s.got[u]
    BY <2>4, <2>5 DEF BothTried
  <2>7. PICK l : l = Release(z, t)
    OBVIOUS
  <2>8. Left(z, t, l)
    BY <2>6, <2>7, ReleaseLeaves
  <2>9. /\ l \in LockRecs /\ PathsGood(l.treelock, l.got, request) /\ l.verdict = s.verdict
        /\ Nothing(l.got, t) /\ \A u \in Threads \ {t} : l.got[u] = s.got[u]
    BY <2>6, <2>8 DEF Left
  <2>10. CASE "noent" \in {one.err, two.err}
    <3>1. y = [l EXCEPT !.verdict[t] = "noent"]
      BY <2>3, <2>5, <2>7, <2>10
    <3>2. y \in LockRecs /\ y.treelock = l.treelock /\ y.got = l.got
          /\ y.verdict = [l.verdict EXCEPT ![t] = "noent"]
      BY <3>1, <2>9 DEF LockRecs
    <3>3. \E i \in DOMAIN request[t].asks : ~Unbroken(request[t].asks[i].dir)
      BY <2>4, <2>10 DEF BothTried
    <3>4. y.verdict[t] = "noent" /\ \A u \in Threads \ {t} : y.got[u] = s.got[u] /\ y.verdict[u] = s.verdict[u]
      BY <3>2, <1>1, <2>9 DEF LockRecs
    <3>5. VerdictTrue(y.got, request, y.verdict, t)
      BY <3>2, <3>3, <3>4, <2>9 DEF VerdictTrue
    <3>6. PathsGood(y.treelock, y.got, request)
      BY <3>2, <2>9
    <3> QED BY <3>2, <3>4, <3>5, <3>6, <1>1, WakeOther
  <2>11. CASE "noent" \notin {one.err, two.err} /\ {one.err, two.err} = {"ok"}
    <3>1. y = [z EXCEPT !.verdict[t] = "ok"]
      BY <2>3, <2>5, <2>11
    <3>2. y \in LockRecs /\ y.treelock = z.treelock /\ y.got = z.got
          /\ y.verdict = [z.verdict EXCEPT ![t] = "ok"]
      <4>1. z \in LockRecs
        BY <2>6
      <4> QED BY <3>1, <4>1 DEF LockRecs
    <3>3. Whole(y.got, request, t)
      BY <2>4, <2>5, <2>11, <3>2 DEF BothTried
    <3>4. y.verdict[t] = "ok" /\ \A u \in Threads \ {t} : y.got[u] = s.got[u] /\ y.verdict[u] = s.verdict[u]
      BY <3>2, <1>1, <2>6 DEF LockRecs
    <3>5. VerdictTrue(y.got, request, y.verdict, t)
      BY <3>3, <3>4, <1>3 DEF VerdictTrue
    <3>6. PathsGood(y.treelock, y.got, request)
      BY <3>2, <2>6
    <3> QED BY <3>2, <3>4, <3>5, <3>6, <1>1, WakeOther
  <2>12. CASE "noent" \notin {one.err, two.err} /\ {one.err, two.err} # {"ok"}
    <3>1. y = z \/ y = l
      BY <2>3, <2>5, <2>7, <2>12
    <3>2. s.verdict[t] # "noent" /\ s.verdict[t] # "ok"
      <4>1. s.verdict[t] = "noent" => \E i \in DOMAIN request[t].asks : ~Unbroken(request[t].asks[i].dir)
        BY <1>1 DEF VerdictTrue
      <4>2. s.verdict[t] = "ok" => Whole(s.got, request, t)
        BY <1>1, <1>3 DEF VerdictTrue
      <4>3. /\ (\E i \in DOMAIN request[t].asks : ~Unbroken(request[t].asks[i].dir)) => "noent" \in {one.err, two.err}
            /\ Whole(s.got, request, t) => {one.err, two.err} = {"ok"}
        BY <2>4 DEF BothTried
      <4> QED BY <4>1, <4>2, <4>3, <2>12
    <3>3. y.verdict = s.verdict /\ y \in LockRecs /\ PathsGood(y.treelock, y.got, request)
          /\ \A u \in Threads \ {t} : y.got[u] = s.got[u]
      BY <3>1, <2>6, <2>9
    <3>4. VerdictTrue(y.got, request, y.verdict, t)
      BY <3>2, <3>3, <1>3 DEF VerdictTrue
    <3>5. \A u \in Threads \ {t} : y.got[u] = s.got[u] /\ y.verdict[u] = s.verdict[u]
      BY <3>3
    <3> QED BY <3>3, <3>4, <3>5, <1>1, WakeOther
  <2> QED BY <2>10, <2>11, <2>12
<1> QED BY <1>2, <1>3

\* The whole queue is gone through.
WokenTo(s, n, f) ==
  /\ f = [i \in 0..n |-> f[i]] /\ f[0] = s
  /\ \A i \in 1..n : f[i] = QueueElementWakeup(f[i - 1], lockq[i])

LEMMA WokenExist ==
  ASSUME NEW s, Len(lockq) \in Nat
  PROVE  \A n \in 0..Len(lockq) : \E f : WokenTo(s, n, f)
<1> DEFINE Bad == {n \in 0..Len(lockq) : ~ \E f : WokenTo(s, n, f)}
<1>1. SUFFICES ASSUME Bad # {} PROVE FALSE
  OBVIOUS
<1>2. PICK m \in Bad : \A n \in Bad : m <= n
  <2>1. Bad \subseteq Nat
    OBVIOUS
  <2> QED BY <1>1, <2>1, LeastMember
<1>3. m \in 0..Len(lockq) /\ m \in Nat
  BY <1>2
<1>4. m # 0
  <2>1. WokenTo(s, 0, [i \in 0..0 |-> s])
    BY DEF WokenTo
  <2> QED BY <2>1, <1>2
<1>5. PICK f : WokenTo(s, m - 1, f)
  <2>1. m - 1 \in 0..Len(lockq) /\ ~(m <= m - 1)
    BY <1>3, <1>4
  <2> QED BY <2>1, <1>2
<1>6. PICK new : new = QueueElementWakeup(f[m - 1], lockq[m])
  OBVIOUS
<1> DEFINE g == [i \in 0..m |-> IF i = m THEN new ELSE f[i]]
<1>7. WokenTo(s, m, g)
  <2>1. f[0] = s /\ \A i \in 1..(m - 1) : f[i] = QueueElementWakeup(f[i - 1], lockq[i])
    BY <1>5 DEF WokenTo
  <2>2. g[0] = s
    BY <2>1, <1>3, <1>4
  <2>3. \A i \in 1..m : g[i] = QueueElementWakeup(g[i - 1], lockq[i])
    <3> TAKE i \in 1..m
    <3>1. CASE i = m
      <4>1. g[i] = new /\ g[i - 1] = f[m - 1]
        BY <3>1, <1>3, <1>4
      <4> QED BY <4>1, <3>1, <1>6
    <3>2. CASE i # m
      <4>1. i \in 1..(m - 1) /\ g[i] = f[i] /\ g[i - 1] = f[i - 1]
        BY <3>2, <1>3
      <4> QED BY <4>1, <2>1
    <3> QED BY <3>1, <3>2
  <2>4. g = [i \in 0..m |-> g[i]]
    OBVIOUS
  <2> HIDE DEF g
  <2> QED BY <2>2, <2>3, <2>4 DEF WokenTo
<1> QED BY <1>2, <1>7

LEMMA WokenIs ==
  ASSUME NEW s, Len(lockq) \in Nat
  PROVE  /\ Woken(s)[0] = s
         /\ \A i \in 1..Len(lockq) : Woken(s)[i] = QueueElementWakeup(Woken(s)[i - 1], lockq[i])
<1>1. PICK f : WokenTo(s, Len(lockq), f)
  <2>1. Len(lockq) \in 0..Len(lockq)
    OBVIOUS
  <2> QED BY <2>1, WokenExist
<1> DEFINE Along(w) == [i \in 0..Len(lockq) |-> IF i = 0 THEN s ELSE QueueElementWakeup(w[i - 1], lockq[i])]
<1>2. f = Along(f)
  <2>1. f = [i \in 0..Len(lockq) |-> f[i]]
    BY <1>1 DEF WokenTo
  <2>2. \A i \in 0..Len(lockq) : f[i] = Along(f)[i]
    <3> TAKE i \in 0..Len(lockq)
    <3>1. CASE i = 0
      BY <3>1, <1>1 DEF WokenTo
    <3>2. CASE i # 0
      <4>1. i \in 1..Len(lockq)
        BY <3>2
      <4>2. f[i] = QueueElementWakeup(f[i - 1], lockq[i])
        BY <4>1, <1>1 DEF WokenTo
      <4> QED BY <4>2, <3>2
    <3> QED BY <3>1, <3>2
  <2>3. Along(f) = [i \in 0..Len(lockq) |-> Along(f)[i]]
    OBVIOUS
  <2> QED BY <2>1, <2>2, <2>3
<1>3. Woken(s) = CHOOSE w : w = Along(w)
  BY DEF Woken
<1>4. Woken(s) = Along(Woken(s))
  BY <1>2, <1>3
<1>5. Woken(s)[0] = s
  BY <1>4
<1>6. ASSUME NEW i \in 1..Len(lockq)
      PROVE  Woken(s)[i] = QueueElementWakeup(Woken(s)[i - 1], lockq[i])
  <2>1. i \in 0..Len(lockq) /\ i # 0
    OBVIOUS
  <2> QED BY <1>4, <2>1
<1> QED BY <1>5, <1>6

LEMMA WakeAll ==
  ASSUME PlaceGood, AsksGood(request), NEW b, DoneWhole(b, request), NEW s, WakeGood(s, b),
         lockq \in Seq(Threads), QueueTrue
  PROVE  WakeGood(WakeUpQueued(s), b)
<1>0. PICK l \in Nat : l = Len(lockq) /\ DOMAIN lockq = 1..l
  OBVIOUS
<1>1. Woken(s)[0] = s /\ \A i \in 1..l : Woken(s)[i] = QueueElementWakeup(Woken(s)[i - 1], lockq[i])
  BY <1>0, WokenIs
<1> DEFINE Bad == {i \in 0..l : ~WakeGood(Woken(s)[i], b)}
<1>2. Bad = {}
  <2> SUFFICES ASSUME Bad # {} PROVE FALSE
    OBVIOUS
  <2>1. PICK m \in Bad : \A n \in Bad : m <= n
    <3>1. Bad \subseteq Nat
      OBVIOUS
    <3> QED BY <3>1, LeastMember
  <2>2. m \in 0..l /\ ~WakeGood(Woken(s)[m], b)
    BY <2>1
  <2>3. m # 0
    BY <1>1, <2>2
  <2>4. m \in 1..l /\ m - 1 \in 0..l /\ ~(m <= m - 1)
    BY <1>0, <2>2, <2>3
  <2>5. WakeGood(Woken(s)[m - 1], b)
    BY <2>1, <2>4
  <2>6. lockq[m] \in Threads /\ stage[lockq[m]] = "wait"
    BY <1>0, <2>4 DEF QueueTrue
  <2>7. PICK y : y = QueueElementWakeup(Woken(s)[m - 1], lockq[m])
    OBVIOUS
  <2>8. WakeGood(y, b)
    BY <2>5, <2>6, <2>7, WakeOne
  <2> QED BY <1>1, <2>2, <2>4, <2>7, <2>8
<1>3. l \in 0..l
  BY <1>0
<1>4. WakeGood(Woken(s)[l], b)
  BY <1>2, <1>3
<1> QED BY <1>0, <1>4 DEF WakeUpQueued

\* Who has been in the queue once, is not any more.
NoneTwice(s) == s \in Seq(Threads) /\ \A i, j \in DOMAIN s : s[i] = s[j] => i = j
LeftQueue(t, s) ==
  NoneTwice(s) /\ \A u : (\E i \in DOMAIN s : s[i] = u) <=> u # t /\ \E i \in DOMAIN lockq : lockq[i] = u
LEMMA DequeuedIs ==
  ASSUME NoneTwice(lockq), NEW t, NEW k \in DOMAIN lockq, lockq[k] = t
  PROVE  LeftQueue(t, Dequeued(t))
<1>0. lockq \in Seq(Threads) /\ \A i, j \in DOMAIN lockq : lockq[i] = lockq[j] => i = j
  BY DEF NoneTwice
<1> DEFINE u == Dequeued(t)
<1>1. PICK l \in Nat : l = Len(lockq) /\ DOMAIN lockq = 1..l /\ lockq \in Seq(Threads)
  BY <1>0
<1>2. k \in 1..l
  BY <1>1
<1> DEFINE front == SubSeq(lockq, 1, k - 1)
           back == SubSeq(lockq, k + 1, Len(lockq))
<1>3. u = front \o back
  <2>1. (CHOOSE j \in DOMAIN lockq : lockq[j] = t) = k
    BY <1>0
  <2> QED BY <2>1 DEF Dequeued
<1> HIDE DEF u
<1>4. front \in Seq(Threads) /\ Len(front) = k - 1 /\ \A i \in 1..k - 1 : front[i] = lockq[i]
  BY <1>1, <1>2
<1>5. back \in Seq(Threads) /\ Len(back) = l - k /\ \A i \in 1..l - k : back[i] = lockq[k + i]
  BY <1>1, <1>2
<1> HIDE DEF front, back
<1>6. u \in Seq(Threads) /\ Len(u) = l - 1
  <2>1. u \in Seq(Threads) /\ Len(u) = Len(front) + Len(back)
    BY <1>3, <1>4, <1>5, ConcatProperties
  <2>2. Len(front) + Len(back) = l - 1
    BY <1>2, <1>4, <1>5
  <2> QED BY <2>1, <2>2
<1> DEFINE from(i) == IF i < k THEN i ELSE i + 1
<1>7. ASSUME NEW i \in 1..l - 1 PROVE u[i] = IF i < k THEN lockq[i] ELSE lockq[i + 1]
  <2>1. CASE i < k
    <3>1. i \in 1..k - 1 /\ u[i] = front[i]
      BY <1>2, <1>3, <1>4, <1>5, <2>1
    <3> QED BY <1>4, <2>1, <3>1
  <2>2. CASE ~(i < k)
    <3>1. PICK j \in 1..l - k : j = i - (k - 1) /\ k + j = i + 1
      BY <1>2, <2>2
    <3>2. PICK a, c : a = Len(front) /\ c = Len(back)
      OBVIOUS
    <3>3. a = k - 1 /\ c = l - k
      BY <1>4, <1>5, <3>2
    <3>4. ~(i <= a) /\ i \in 1..a + c /\ i - a = j
      BY <1>1, <1>2, <2>2, <3>1, <3>3
    <3>5. u[i] = back[i - a]
      <4>1. u[i] = IF i <= Len(front) THEN front[i] ELSE back[i - Len(front)]
        <5>1. \A m \in 1..Len(front) + Len(back) : u[m] = IF m <= Len(front) THEN front[m] ELSE back[m - Len(front)]
          BY <1>3, <1>4, <1>5, ConcatProperties, Zenon
        <5>2. i \in 1..Len(front) + Len(back)
          BY <3>2, <3>4
        <5> QED BY <5>1, <5>2
      <4> QED BY <3>2, <3>4, <4>1
    <3>6. u[i] = back[j]
      BY <3>4, <3>5
    <3> QED BY <1>5, <2>2, <3>1, <3>6
  <2> QED BY <2>1, <2>2
<1>8. DOMAIN u = 1..l - 1
  BY <1>1, <1>6
<1>9. ASSUME NEW i \in 1..l - 1 PROVE from(i) \in 1..l /\ from(i) # k /\ u[i] = lockq[from(i)]
  BY <1>2, <1>7
<1>10. \A i, j \in DOMAIN u : u[i] = u[j] => i = j
  <2>1. ASSUME NEW i \in 1..l - 1, NEW j \in 1..l - 1, u[i] = u[j] PROVE i = j
    <3>1. from(i) = from(j)
      <4> HIDE DEF from
      <4> QED BY <1>0, <1>1, <1>9, <2>1
    <3> QED BY <1>2, <3>1
  <2> QED BY <1>8, <2>1
<1>11. ASSUME NEW x, NEW i \in DOMAIN u, u[i] = x PROVE x # t /\ \E j \in DOMAIN lockq : lockq[j] = x
  <2>1. from(i) \in 1..l /\ from(i) # k /\ x = lockq[from(i)]
    BY <1>8, <1>9, <1>11
  <2> HIDE DEF from
  <2> QED BY <1>0, <1>1, <2>1
<1>12. ASSUME NEW x, x # t, NEW j \in DOMAIN lockq, lockq[j] = x PROVE \E i \in DOMAIN u : u[i] = x
  <2>1. j \in 1..l /\ j # k
    BY <1>1, <1>12
  <2>2. PICK i \in 1..l - 1 : from(i) = j
    <3>1. CASE j < k
      <4>1. j \in 1..l - 1 /\ from(j) = j
        BY <1>2, <2>1, <3>1
      <4> QED BY <4>1
    <3>2. CASE ~(j < k)
      <4>1. j - 1 \in 1..l - 1 /\ from(j - 1) = j
        BY <1>2, <2>1, <3>2
      <4> QED BY <4>1
    <3> QED BY <3>1, <3>2
  <2>3. u[i] = x
    BY <1>9, <1>12, <2>2
  <2> QED BY <1>8, <2>3
<1> QED BY <1>6, <1>10, <1>11, <1>12 DEF u, NoneTwice, LeftQueue

-----------------------------------------------------------------------------
(***************************************************************************)
(* The steps.                                                              *)
(***************************************************************************)
LEMMA Asked ==
  ASSUME NEW r \in Requests \cup {Idle}
  PROVE  /\ \A i \in DOMAIN r.asks : i \in {1, 2} /\ AskGood(r.asks[i]) /\ r.asks[i].dir \in Nodes \cup {Root}
         /\ r # Idle => r \in Requests /\ DOMAIN r.asks = IF Len(r.asks) = 2 THEN {1, 2} ELSE {1}
         /\ r.kind \in {"rename", "link"} => Len(r.asks) = 2 /\ DOMAIN r.asks = {1, 2}
         /\ r.kind \in {"unlink", "forget", "open", "path"} => DOMAIN r.asks = {1}
         /\ \A i \in DOMAIN r.asks : r.asks[i].write <=> Changes(r)
         /\ \A i \in DOMAIN r.asks : r.asks[i].write => r.asks[i].name \in Names
         /\ r.kind = "forget" => r.asks[1].dir \in Nodes
         /\ r = Idle <=> r.kind = "idle"
<1>1. CASE r = Idle
  BY <1>1 DEF Idle, Changes
<1>2. CASE r \in Requests
  <2>1. RequestOK(r)
    BY <1>2, FusePathsAssumption
  <2>2. PICK l \in {1, 2} : l = Len(r.asks) /\ (l = 2 <=> r.kind \in {"rename", "link"})
    BY <2>1 DEF RequestOK
  <2>3. r.asks \in Seq(Asks) /\ DOMAIN r.asks = 1..l
    BY <2>1, <2>2 DEF RequestOK
  <2>4. DOMAIN r.asks = IF l = 2 THEN {1, 2} ELSE {1}
    BY <2>2, <2>3
  <2>5. \A i \in DOMAIN r.asks : i \in {1, 2} /\ r.asks[i] \in Asks
    BY <2>3, <2>4
  <2>6. \A i \in DOMAIN r.asks : /\ r.asks[i].write <=> Changes(r)
                                 /\ r.asks[i].write => r.asks[i].name # NoName
    BY <2>1 DEF RequestOK, Changes
  <2>7. \A i \in DOMAIN r.asks : /\ r.asks[i].dir \in Nodes \cup {Root}
                                 /\ r.asks[i].write => r.asks[i].name \in Names
    BY <2>5, <2>6 DEF Asks
  <2>8. \A i \in DOMAIN r.asks : AskGood(r.asks[i])
    BY <2>5, <2>7 DEF AskGood
  <2>9. r.kind \in {"unlink", "forget", "open", "path"} => l = 1
    BY <2>2
  <2>10. r.kind = "forget" => r.asks[1].dir \in Nodes
    BY <2>1, <2>4, <2>7 DEF RequestOK
  <2>11. r # Idle /\ r.kind # "idle"
    BY <2>1 DEF RequestOK, Kinds, Idle
  <2> QED BY <1>2, <2>2, <2>4, <2>5, <2>6, <2>7, <2>8, <2>9, <2>10, <2>11
<1> QED BY <1>1, <1>2

LEMMA AllAsked ==
  ASSUME PathsInv
  PROVE  /\ PlaceGood /\ AsksGood(request) /\ DoneWhole(got, request) /\ PathsGood(treelock, got, request)
         /\ \A t \in Threads : request[t] \in Requests \cup {Idle}
<1>1. PlaceGood /\ PathsGood(treelock, got, request) /\ \A t \in Threads : request[t] \in Requests \cup {Idle}
  BY DEF PathsInv, PathsTypes, PlaceGood, PathsGood
<1>2. ASSUME NEW t \in Threads
      PROVE  /\ \A i \in DOMAIN request[t].asks : i \in {1, 2} /\ AskGood(request[t].asks[i])
             /\ stage[t] = "wait" => DOMAIN request[t].asks = IF Len(request[t].asks) = 2 THEN {1, 2} ELSE {1}
  <2>1. PICK r \in Requests \cup {Idle} : r = request[t]
    BY <1>1
  <2>2. stage[t] = "wait" => r # Idle
    BY <2>1 DEF PathsInv, StageTrue
  <2> QED BY <2>1, <2>2, Asked
<1>3. DoneWhole(got, request)
  BY DEF PathsInv, StageTrue, DoneWhole
<1> QED BY <1>1, <1>2, <1>3 DEF AsksGood

\* Where places change.
LookupIn(p, d, nm) ==
  IF \E n \in Nodes : p[n] = [dir |-> d, name |-> nm]
  THEN CHOOSE n \in Nodes : p[n] = [dir |-> d, name |-> nm] ELSE None
LEMMA LookedUpIn ==
  ASSUME NEW p, IsTree(p), None \notin Nodes, NEW d \in Nodes \cup {Root}, NEW nm \in Names, None # Root
  PROVE  /\ LookupIn(p, d, nm) \in Nodes \cup {None}
         /\ \A n \in Nodes : LookupIn(p, d, nm) = n <=> p[n] = [dir |-> d, name |-> nm]
         /\ LookupIn(p, d, nm) = None <=> \A n \in Nodes : p[n] # [dir |-> d, name |-> nm]
<1>1. [dir |-> d, name |-> nm] # Nowhere
  <2>1. [dir |-> d, name |-> nm].dir # Nowhere.dir
    BY DEF Nowhere
  <2> QED BY <2>1
<1> QED BY <1>1 DEF IsTree, LookupIn

ChangedAt(p, C) == \A n \in Nodes \ C : p[n] = place[n]

LEMMA LookupKept ==
  ASSUME PlaceGood, PlaceGood', NEW C, ChangedAt(place', C), NEW d \in Nodes \cup {Root}, NEW nm \in Names,
         Lookup(d, nm) \notin C, \A n \in C : place'[n] # [dir |-> d, name |-> nm]
  PROVE  Lookup(d, nm)' = Lookup(d, nm)
<1>1. None \notin Nodes /\ None # Root
  BY FusePathsAssumption
<1>2. PICK p, q : p = place /\ q = place' /\ IsTree(p) /\ IsTree(q)
  BY DEF PlaceGood
<1>3. Lookup(d, nm) = LookupIn(p, d, nm)
  BY <1>2 DEF Lookup, LookupIn
<1>4. Lookup(d, nm)' = LookupIn(q, d, nm)
  BY <1>2 DEF Lookup, LookupIn
<1>5. PICK a, b : a = LookupIn(p, d, nm) /\ b = LookupIn(q, d, nm)
  OBVIOUS
<1>6. /\ a \in Nodes \cup {None} /\ b \in Nodes \cup {None}
      /\ \A n \in Nodes : a = n <=> p[n] = [dir |-> d, name |-> nm]
      /\ \A n \in Nodes : b = n <=> q[n] = [dir |-> d, name |-> nm]
  BY <1>1, <1>2, <1>5, LookedUpIn
<1>7. a \notin C /\ \A n \in C : q[n] # [dir |-> d, name |-> nm]
  BY <1>2, <1>3, <1>5
<1>8. \A n \in Nodes \ C : q[n] = p[n]
  BY <1>2 DEF ChangedAt
<1>9. a = b
  BY <1>1, <1>6, <1>7, <1>8
<1> QED BY <1>3, <1>4, <1>5, <1>9

LEMMA WayKept ==
  ASSUME NEW C, ChangedAt(place', C), NEW d, Above(d) \cap C = {}
  PROVE  Trail(d)' = Trail(d) /\ (Unbroken(d)' <=> Unbroken(d)) /\ Above(d)' = Above(d)
<1>1. PICK p, q : p = place /\ q = place'
  OBVIOUS
<1>2. \A m \in Ancestors(p, d) : q[m] = p[m]
  BY <1>1, OnTheWay DEF ChangedAt, Above
<1>3. Ancestors(q, d) = Ancestors(p, d)
  BY <1>2, SameWay
<1>4. Above(d)' = Ancestors(q, d) /\ Above(d) = Ancestors(p, d)
  BY <1>1 DEF Above
<1> QED BY <1>1, <1>2, <1>3, <1>4 DEF Trail, Unbroken

LEMMA BrokenStays ==
  ASSUME NEW C, ChangedAt(place', C), \A n \in Nodes : place[n] = Nowhere => place'[n] = Nowhere,
         (\A c \in C : c \in Nodes => Unbroken(c)) \/ (\A c \in C : place'[c] = Nowhere), NEW d, ~Unbroken(d)
  PROVE  ~Unbroken(d)'
<1>0. None \notin Nodes
  BY FusePathsAssumption
<1>1. CASE Above(d) \cap C = {}
  BY <1>1, WayKept
<1>2. CASE Above(d) \cap C # {}
  <2>1. PICK p, q : p = place /\ q = place'
    OBVIOUS
  <2>2. Above(d) = Ancestors(p, d) /\ Above(d)' = Ancestors(q, d)
    BY <2>1 DEF Above
  <2>3. CASE \A c \in C : place'[c] = Nowhere
    <3>1. \A m \in Nodes \ C : q[m] = p[m]
      BY <2>1 DEF ChangedAt
    <3>2. Ancestors(q, d) \cap C # {}
      BY <3>1, <2>2, <1>2, WayMeets
    <3> QED BY <3>2, <2>2, <2>3 DEF Unbroken
  <2>4. CASE \A c \in C : c \in Nodes => Unbroken(c)
    <3>1. PICK c \in C : c \in Ancestors(p, d)
      BY <1>2, <2>2
    <3>2. c \in Nodes
      BY <3>1, OnTheWay
    <3>3. PICK m \in Ancestors(p, d) : p[m] = Nowhere
      BY <2>1, <2>2 DEF Unbroken
    <3>4. m \in Ancestors(p, c)
      BY <3>1, <3>3, <1>0, LastOnTheWay
    <3>5. ~Unbroken(c)
      BY <3>3, <3>4, <2>1 DEF Unbroken, Above
    <3> QED BY <3>2, <3>5, <2>4
  <2> QED BY <2>3, <2>4
<1> QED BY <1>1, <1>2

LEMMA HeldKept ==
  ASSUME PlaceGood, PlaceGood', NEW C \in SUBSET Nodes, ChangedAt(place', C),
         NEW t, NEW i, request'[t] = request[t], NEW path \in PathRecs, HeldTrue(request, t, i, path),
         AskGood(request[t].asks[i]), stage'[t] = "done" <=> stage[t] = "done",
         DOMAIN path.chain \cap C = {}, path.wnode \notin C,
         request[t].asks[i].write => \A n \in C : place'[n] # Spot(request[t].asks[i])
  PROVE  HeldTrue(request, t, i, path)'
<1>1. PICK a : a = request[t].asks[i] /\ AskGood(a) /\ (a.write => \A n \in C : place'[n] # Spot(a))
  OBVIOUS
<1>2. PICK A : A = request[t].asks /\ A = request'[t].asks /\ A[i] = a
  BY <1>1
<1>3. None \notin Nodes /\ None # Root /\ a.dir \in Nodes \cup {Root}
  BY <1>1, FusePathsAssumption DEF AskGood, Asks
<1>4. /\ i \in DOMAIN A /\ path.chain = Trail(a.dir) /\ Unbroken(a.dir)
      /\ path.wnode # None => a.write
  BY <1>2 DEF HeldTrue
<1>5. path.chain = Trail(a.dir)' /\ Unbroken(a.dir)'
  <2>1. Above(a.dir) \cap C = {}
    BY <1>4 DEF Trail
  <2> QED BY <2>1, <1>4, WayKept
<1>6. CASE stage[t] = "done"
  <2>1. path.wnode # None => \/ place[path.wnode] = Nowhere
                             \/ \E j \in DOMAIN A : place[path.wnode] = Spot(A[j])
    BY <1>2, <1>6 DEF HeldTrue
  <2>2. path.wnode # None => place'[path.wnode] = place[path.wnode]
    BY DEF ChangedAt, PathRecs
  <2>3. path.wnode # None => \/ place'[path.wnode] = Nowhere
                             \/ \E j \in DOMAIN A : place'[path.wnode] = Spot(A[j])
    BY <2>1, <2>2
  <2> QED BY <1>2, <1>4, <1>5, <1>6, <2>3 DEF HeldTrue
<1>7. CASE stage[t] # "done"
  <2>1. a.write => path.wnode = Lookup(a.dir, a.name)
    BY <1>2, <1>7 DEF HeldTrue
  <2>2. a.write => path.wnode = Lookup(a.dir, a.name)'
    <3> SUFFICES ASSUME a.write PROVE Lookup(a.dir, a.name)' = Lookup(a.dir, a.name)
      BY <2>1
    <3>1. a.name \in Names /\ \A n \in C : place'[n] # [dir |-> a.dir, name |-> a.name]
      BY <1>1 DEF AskGood, Spot
    <3>2. Lookup(a.dir, a.name) \notin C
      BY <2>1
    <3> QED BY <3>1, <3>2, <1>3, LookupKept
  <2> QED BY <1>2, <1>4, <1>5, <1>7, <2>2 DEF HeldTrue
<1> QED BY <1>6, <1>7

\* Where none does.
LEMMA PathsStill ==
  ASSUME place' = place, NEW q, NEW g, PathsTrue(g, q), got' = g,
         \A u \in Threads : \/ Nothing(g, u)
                            \/ request'[u] = q[u] /\ (stage'[u] = "done" <=> stage[u] = "done")
  PROVE  PathsTrue(got, request)'
<1> SUFFICES ASSUME NEW u \in Threads, NEW i \in {1, 2}
             PROVE  IF g[u][i].locked THEN HeldTrue(request, u, i, g[u][i])' ELSE g[u][i] = NotLocked
  BY DEF PathsTrue, HeldTrue
<1>1. CASE ~g[u][i].locked
  BY <1>1 DEF PathsTrue
<1>2. CASE g[u][i].locked
  <2>1. HeldTrue(q, u, i, g[u][i])
    BY <1>2 DEF PathsTrue
  <2>2. request'[u] = q[u] /\ (stage'[u] = "done" <=> stage[u] = "done")
    BY <1>2 DEF Nothing
  <2>3. HeldTrue(request, u, i, g[u][i])'
    BY <2>1, <2>2 DEF HeldTrue, Trail, Above, Unbroken, Lookup
  <2> QED BY <1>2, <2>3
<1> QED BY <1>1, <1>2

\* Where a thread does nothing.
LEMMA StageKept ==
  ASSUME NEW u \in Threads, StageTrue(u), stage'[u] = stage[u], request'[u] = request[u], got'[u] = got[u],
         verdict'[u] = verdict[u] \/ stage[u] # "wait", \A d : ~Unbroken(d) => ~Unbroken(d)'
  PROVE  StageTrue(u)'
<1>1. PICK r, g : r = request[u] /\ r = request'[u] /\ g = got[u] /\ g = got'[u]
  OBVIOUS
<1>2. (Nothing(got, u)' <=> Nothing(got, u)) /\ (Whole(got, request, u)' <=> Whole(got, request, u))
  BY DEF Nothing, Whole
<1>3. stage[u] = "wait" => VerdictTrue(got, request, verdict, u)'
  <2> SUFFICES ASSUME stage[u] = "wait" PROVE VerdictTrue(got, request, verdict, u)'
    OBVIOUS
  <2>1. VerdictTrue(got, request, verdict, u) /\ verdict'[u] = verdict[u]
    BY DEF StageTrue
  <2>2. \A i \in DOMAIN r.asks : ~Unbroken(r.asks[i].dir) => ~Unbroken(r.asks[i].dir)'
    OBVIOUS
  <2> QED BY <1>1, <1>2, <2>1, <2>2 DEF VerdictTrue
<1> QED BY <1>2, <1>3 DEF StageTrue

LEMMA PlaceStill ==
  ASSUME PathsInv, place' = place
  PROVE  /\ place' \in [Nodes -> Spots \cup {Nowhere}] /\ IsTree(place)'
         /\ \A d : ~Unbroken(d) => ~Unbroken(d)'
BY DEF PathsInv, PathsTypes, Unbroken, Above

\* A thread leaves the queue.
LEMMA QueueWithout ==
  ASSUME PathsInv, NEW t \in Threads, stage[t] = "wait", lockq' = Dequeued(t),
         NEW new, new # "wait", stage' = [stage EXCEPT ![t] = new]
  PROVE  lockq' \in Seq(Threads) /\ QueueTrue'
<1>1. /\ lockq \in Seq(Threads) /\ stage \in [Threads -> {"idle", "wait", "held", "done", "replied", "failed"}]
      /\ \A i, j \in DOMAIN lockq : lockq[i] = lockq[j] => i = j
      /\ \A u \in Threads : stage[u] = "wait" <=> \E i \in DOMAIN lockq : lockq[i] = u
  BY DEF PathsInv, PathsTypes, QueueTrue
<1>2. PICK k \in DOMAIN lockq : lockq[k] = t
  BY <1>1
<1>3. PICK d : d = Dequeued(t)
  OBVIOUS
<1>4. /\ d \in Seq(Threads)
      /\ \A i, j \in DOMAIN d : d[i] = d[j] => i = j
      /\ \A u : (\E i \in DOMAIN d : d[i] = u) <=> u # t /\ \E i \in DOMAIN lockq : lockq[i] = u
  <2>1. NoneTwice(lockq)
    BY <1>1 DEF NoneTwice
  <2>2. LeftQueue(t, d)
    BY <1>2, <1>3, <2>1, DequeuedIs
  <2> QED BY <2>2 DEF LeftQueue, NoneTwice
<1>5. \A u \in Threads : stage'[u] = IF u = t THEN new ELSE stage[u]
  BY <1>1
<1>6. \A u \in Threads : stage'[u] = "wait" <=> u # t /\ stage[u] = "wait"
  BY <1>5
<1>7. \A u \in Threads : stage'[u] = "wait" <=> \E i \in DOMAIN d : d[i] = u
  BY <1>1, <1>4, <1>6
<1> QED BY <1>3, <1>4, <1>7 DEF QueueTrue

\* A thread joins it.
LEMMA QueueWith ==
  ASSUME PathsInv, NEW t \in Threads, stage[t] # "wait", lockq' = Append(lockq, t),
         stage' = [stage EXCEPT ![t] = "wait"]
  PROVE  lockq' \in Seq(Threads) /\ QueueTrue'
<1>1. /\ lockq \in Seq(Threads) /\ stage \in [Threads -> {"idle", "wait", "held", "done", "replied", "failed"}]
      /\ \A i, j \in DOMAIN lockq : lockq[i] = lockq[j] => i = j
      /\ \A u \in Threads : stage[u] = "wait" <=> \E i \in DOMAIN lockq : lockq[i] = u
  BY DEF PathsInv, PathsTypes, QueueTrue
<1>2. PICK l \in Nat : l = Len(lockq) /\ DOMAIN lockq = 1..l
  BY <1>1
<1>3. PICK d : d = Append(lockq, t)
  OBVIOUS
<1>4. d \in Seq(Threads) /\ DOMAIN d = 1..l + 1 /\ \A i \in 1..l + 1 : d[i] = IF i = l + 1 THEN t ELSE lockq[i]
  BY <1>1, <1>2, <1>3
<1>5. \A i \in 1..l : lockq[i] # t
  BY <1>1, <1>2
<1>6. \A i, j \in DOMAIN d : d[i] = d[j] => i = j
  <2> SUFFICES ASSUME NEW i \in 1..l + 1, NEW j \in 1..l + 1, d[i] = d[j] PROVE i = j
    BY <1>4
  <2>1. i = l + 1 \/ i \in 1..l
    OBVIOUS
  <2>2. j = l + 1 \/ j \in 1..l
    OBVIOUS
  <2> QED BY <1>1, <1>2, <1>4, <1>5, <2>1, <2>2
<1>7. \A u \in Threads : (\E i \in DOMAIN d : d[i] = u) <=> u = t \/ \E i \in DOMAIN lockq : lockq[i] = u
  <2> TAKE u \in Threads
  <2>1. ASSUME NEW i \in DOMAIN d, d[i] = u, u # t PROVE \E j \in DOMAIN lockq : lockq[j] = u
    <3>1. i \in 1..l /\ lockq[i] = u
      BY <1>4, <2>1
    <3> QED BY <3>1, <1>2
  <2>2. l + 1 \in DOMAIN d /\ d[l + 1] = t
    BY <1>4
  <2>3. ASSUME NEW j \in DOMAIN lockq, lockq[j] = u PROVE \E i \in DOMAIN d : d[i] = u
    <3>1. j \in 1..l + 1 /\ j # l + 1
      BY <1>2
    <3> QED BY <3>1, <2>3, <1>4
  <2> QED BY <2>1, <2>2, <2>3
<1>8. \A u \in Threads : stage'[u] = IF u = t THEN "wait" ELSE stage[u]
  BY <1>1
<1>9. \A u \in Threads : stage'[u] = "wait" <=> \E i \in DOMAIN d : d[i] = u
  BY <1>1, <1>7, <1>8
<1> QED BY <1>3, <1>4, <1>6, <1>9 DEF QueueTrue

\* The queue stays as it is.
LEMMA QueueStill ==
  ASSUME PathsInv, NEW t \in Threads, stage[t] # "wait", lockq' = lockq, NEW new, new # "wait",
         stage' = [stage EXCEPT ![t] = new]
  PROVE  lockq' \in Seq(Threads) /\ QueueTrue'
<1>1. /\ lockq \in Seq(Threads) /\ stage \in [Threads -> {"idle", "wait", "held", "done", "replied", "failed"}]
      /\ \A i, j \in DOMAIN lockq : lockq[i] = lockq[j] => i = j
      /\ \A u \in Threads : stage[u] = "wait" <=> \E i \in DOMAIN lockq : lockq[i] = u
  BY DEF PathsInv, PathsTypes, QueueTrue
<1>2. \A u \in Threads : stage'[u] = "wait" <=> stage[u] = "wait"
  BY <1>1
<1> QED BY <1>1, <1>2 DEF QueueTrue

LEMMA WaitPathKeeps ==
  ASSUME PathsInv, NEW t \in Threads, WaitPath(t)
  PROVE  PathsInv'
<1>1. /\ stage[t] = "wait" /\ request[t].kind # "forget" /\ verdict[t] # "again" /\ lockq' = Dequeued(t)
      /\ stage' = [stage EXCEPT ![t] = IF verdict[t] = "ok" THEN "held" ELSE "failed"]
      /\ place' = place /\ treelock' = treelock /\ request' = request /\ got' = got /\ verdict' = verdict
  BY DEF WaitPath
<1>2. PICK new \in {"held", "failed"} : stage' = [stage EXCEPT ![t] = new] /\ (new = "held" <=> verdict[t] = "ok")
  BY <1>1
<1>3. PathsTypes /\ \A u \in Threads : StageTrue(u)
  BY DEF PathsInv
<1>4. \A u \in Threads : stage'[u] = IF u = t THEN new ELSE stage[u]
  BY <1>2, <1>3 DEF PathsTypes
<1>5. lockq' \in Seq(Threads) /\ QueueTrue'
  BY <1>1, <1>2, QueueWithout
<1>6. PathsTypes'
  BY <1>1, <1>2, <1>3, <1>5 DEF PathsTypes
<1>7. PathsTrue(got, request)'
  <2>1. PICK q, g : q = request /\ g = got /\ PathsTrue(g, q)
    BY DEF PathsInv
  <2>2. \A u \in Threads : request'[u] = q[u] /\ (stage'[u] = "done" <=> stage[u] = "done")
    BY <1>1, <1>4, <2>1
  <2> QED BY <1>1, <2>1, <2>2, PathsStill
<1>8. TreelocksTrue(treelock, got)' /\ MutexTrue'
  BY <1>1, SMTT(40) DEF PathsInv, TreelocksTrue, Reading, Writing, GotOf, MutexTrue
<1>9. IsTree(place)' /\ \A d : ~Unbroken(d) => ~Unbroken(d)'
  BY <1>1, PlaceStill
<1>10. ASSUME NEW u \in Threads PROVE StageTrue(u)'
  <2>1. CASE u = t
    <3>1. /\ request'[u] = request[u] /\ got'[u] = got[u] /\ stage'[u] = new
          /\ request[u] # Idle /\ request[u].kind # "forget" /\ VerdictTrue(got, request, verdict, u)
      BY <1>1, <1>3, <1>4, <2>1 DEF StageTrue
    <3>2. verdict[u] = "ok" \/ verdict[u] = "noent"
      BY <1>1, <1>3, <2>1 DEF PathsTypes
    <3>3. new = "held" => Whole(got, request, u)'
      BY <1>2, <2>1, <3>1 DEF VerdictTrue, Whole
    <3>4. new = "failed" => Nothing(got, u)'
      BY <1>2, <2>1, <3>1, <3>2 DEF VerdictTrue, Nothing
    <3> QED BY <3>1, <3>3, <3>4 DEF StageTrue
  <2>2. CASE u # t
    <3>1. StageTrue(u) /\ stage'[u] = stage[u]
      BY <1>3, <1>4, <2>2
    <3> QED BY <3>1, <1>1, <1>9, StageKept
  <2> QED BY <2>1, <2>2
<1> QED BY <1>5, <1>6, <1>7, <1>8, <1>9, <1>10 DEF PathsInv

LEMMA ReplyOpenKeeps ==
  ASSUME PathsInv, NEW t \in Threads, ReplyOpen(t)
  PROVE  PathsInv'
<1>1. /\ stage[t] = "held" /\ request[t].kind = "open" /\ stage' = [stage EXCEPT ![t] = "replied"]
      /\ place' = place /\ treelock' = treelock /\ lockq' = lockq /\ request' = request /\ got' = got
      /\ verdict' = verdict
  BY DEF ReplyOpen
<1>3. PathsTypes /\ \A u \in Threads : StageTrue(u)
  BY DEF PathsInv
<1>4. \A u \in Threads : stage'[u] = IF u = t THEN "replied" ELSE stage[u]
  BY <1>1, <1>3 DEF PathsTypes
<1>5. lockq' \in Seq(Threads) /\ QueueTrue'
  BY <1>1, QueueStill
<1>6. PathsTypes'
  BY <1>1, <1>3, <1>5 DEF PathsTypes
<1>7. PathsTrue(got, request)'
  <2>1. PICK q, g : q = request /\ g = got /\ PathsTrue(g, q)
    BY DEF PathsInv
  <2>2. \A u \in Threads : request'[u] = q[u] /\ (stage'[u] = "done" <=> stage[u] = "done")
    BY <1>1, <1>4, <2>1
  <2> QED BY <1>1, <2>1, <2>2, PathsStill
<1>8. TreelocksTrue(treelock, got)' /\ MutexTrue'
  BY <1>1, SMTT(40) DEF PathsInv, TreelocksTrue, Reading, Writing, GotOf, MutexTrue
<1>9. IsTree(place)' /\ \A d : ~Unbroken(d) => ~Unbroken(d)'
  BY <1>1, PlaceStill
<1>10. ASSUME NEW u \in Threads PROVE StageTrue(u)'
  <2>1. CASE u = t
    <3>1. /\ request'[u] = request[u] /\ got'[u] = got[u] /\ stage'[u] = "replied"
          /\ request[u] # Idle /\ request[u].kind = "open" /\ Whole(got, request, u)
      BY <1>1, <1>3, <1>4, <2>1 DEF StageTrue
    <3>2. Whole(got, request, u)'
      BY <3>1 DEF Whole
    <3> QED BY <3>1, <3>2 DEF StageTrue
  <2>2. CASE u # t
    <3>1. StageTrue(u) /\ stage'[u] = stage[u]
      BY <1>3, <1>4, <2>2
    <3> QED BY <3>1, <1>1, <1>9, StageKept
  <2> QED BY <2>1, <2>2
<1> QED BY <1>5, <1>6, <1>7, <1>8, <1>9, <1>10 DEF PathsInv

\* A thread is through with its request.
LEMMA DoneKeeps ==
  ASSUME PathsInv, NEW t \in Threads, place' = place, Done(t), lockq' = lockq, stage[t] # "wait",
         NEW tl, NEW g, NEW v, treelock' = tl, got' = g, verdict' = v, PathsGood(tl, g, request), Nothing(g, t),
         v \in [Threads -> {"again", "ok", "noent"}],
         \A u \in Threads \ {t} : IF stage[u] = "wait" THEN VerdictTrue(g, request, v, u) ELSE g[u] = got[u]
  PROVE  PathsInv'
<1>1. stage' = [stage EXCEPT ![t] = "idle"] /\ request' = [request EXCEPT ![t] = Idle]
  BY DEF Done
<1>2. PathsTypes /\ \A u \in Threads : StageTrue(u)
  BY DEF PathsInv
<1>3. \A u \in Threads : /\ stage'[u] = IF u = t THEN "idle" ELSE stage[u]
                         /\ request'[u] = IF u = t THEN Idle ELSE request[u]
  BY <1>1, <1>2 DEF PathsTypes
<1>4. g \in [Threads -> [{1, 2} -> PathRecs]] /\ PathsTrue(g, request) /\ tl \in [Nodes -> Int] /\ TreelocksTrue(tl, g)
  BY DEF PathsGood
<1>5. lockq' \in Seq(Threads) /\ QueueTrue'
  BY <1>1, QueueStill
<1>6. PathsTypes'
  BY <1>1, <1>2, <1>4, <1>5 DEF PathsTypes
<1>7. PathsTrue(got, request)'
  <2>1. PICK q : q = request /\ PathsTrue(g, q)
    BY <1>4
  <2>2. \A u \in Threads : \/ Nothing(g, u)
                           \/ request'[u] = q[u] /\ (stage'[u] = "done" <=> stage[u] = "done")
    BY <1>3, <2>1
  <2> QED BY <2>1, <2>2, PathsStill
<1>8. TreelocksTrue(treelock, got)'
  BY <1>4, SMTT(40) DEF TreelocksTrue, Reading, Writing, GotOf
<1>9. MutexTrue'
  <2>1. ~Changes(Idle)
    BY DEF Changes, Idle
  <2> QED BY <1>3, <2>1 DEF PathsInv, MutexTrue, Changes
<1>10. IsTree(place)' /\ \A d : ~Unbroken(d) => ~Unbroken(d)'
  BY PlaceStill
<1>11. ASSUME NEW u \in Threads PROVE StageTrue(u)'
  <2>1. CASE u = t
    <3>1. stage'[u] = "idle" /\ request'[u] = Idle /\ Nothing(got, u)'
      BY <1>3, <2>1 DEF Nothing
    <3> QED BY <3>1 DEF StageTrue
  <2>2. CASE u # t
    <3>0. StageTrue(u) /\ stage'[u] = stage[u] /\ request'[u] = request[u]
      BY <1>2, <1>3, <2>2
    <3>1. CASE stage[u] # "wait"
      <4>1. got'[u] = got[u]
        BY <3>1, <2>2
      <4> QED BY <3>0, <3>1, <4>1, <1>10, StageKept
    <3>2. CASE stage[u] = "wait"
      <4>1. VerdictTrue(g, request, v, u)
        BY <3>2, <2>2
      <4>2. VerdictTrue(got, request, verdict, u)'
        BY <3>0, <4>1, <1>10 DEF VerdictTrue, Nothing, Whole
      <4> QED BY <3>0, <3>2, <4>2 DEF StageTrue
    <3> QED BY <3>1, <3>2
  <2> QED BY <2>1, <2>2
<1> QED BY <1>5, <1>6, <1>7, <1>8, <1>9, <1>10, <1>11 DEF PathsInv

LEMMA ReplyErrorKeeps ==
  ASSUME PathsInv, NEW t \in Threads, ReplyError(t)
  PROVE  PathsInv'
<1>1. PICK tl, g, v : tl = treelock /\ g = got /\ v = verdict
  OBVIOUS
<1>2. /\ stage[t] = "failed" /\ Done(t) /\ place' = place /\ treelock' = tl /\ lockq' = lockq /\ got' = g
      /\ verdict' = v
  BY <1>1 DEF ReplyError
<1>3. PathsGood(tl, g, request)
  BY <1>1, AllAsked
<1>4. Nothing(g, t)
  BY <1>1, <1>2 DEF PathsInv, StageTrue
<1>5. v \in [Threads -> {"again", "ok", "noent"}]
  BY <1>1 DEF PathsInv, PathsTypes
<1>6. \A u \in Threads \ {t} : IF stage[u] = "wait" THEN VerdictTrue(g, request, v, u) ELSE g[u] = got[u]
  BY <1>1 DEF PathsInv, StageTrue
<1> QED BY <1>2, <1>3, <1>4, <1>5, <1>6, DoneKeeps

LEMMA FreePathKeeps ==
  ASSUME PathsInv, NEW t \in Threads, FreePath(t)
  PROVE  PathsInv'
<1>1. /\ stage[t] # "wait" /\ Done(t) /\ place' = place /\ lockq' = lockq
      /\ SetLocks(WakeUpQueued(Release(Locks, t)))
  BY DEF FreePath
<1>2. PathsTypes /\ QueueTrue /\ \A u \in Threads : StageTrue(u)
  BY DEF PathsInv
<1>3. PICK l : l = Locks
  OBVIOUS
<1>4. l \in LockRecs /\ l.treelock = treelock /\ l.got = got /\ l.verdict = verdict
  BY <1>2, <1>3 DEF PathsTypes, Locks, LockRecs
<1>5. PlaceGood /\ AsksGood(request) /\ DoneWhole(got, request) /\ PathsGood(l.treelock, l.got, request)
  BY <1>4, AllAsked
<1>6. PICK s : s = Release(l, t)
  OBVIOUS
<1>7. Left(l, t, s)
  BY <1>4, <1>5, <1>6, ReleaseLeaves
<1>8. /\ s \in LockRecs /\ PathsGood(s.treelock, s.got, request) /\ s.verdict = verdict
      /\ Nothing(s.got, t) /\ \A u \in Threads \ {t} : s.got[u] = got[u]
  BY <1>4, <1>7 DEF Left
<1>9. PICK b : b = s.got
  OBVIOUS
<1>10. DoneWhole(b, request)
  <2> SUFFICES ASSUME NEW u \in Threads, stage[u] = "done" PROVE Whole(b, request, u) \/ Nothing(b, u)
    BY DEF DoneWhole
  <2>1. CASE u = t
    BY <2>1, <1>8, <1>9
  <2>2. CASE u # t
    <3>1. b[u] = got[u]
      BY <2>2, <1>8, <1>9
    <3> QED BY <3>1, <1>5 DEF DoneWhole, Whole, Nothing
  <2> QED BY <2>1, <2>2
<1>11. WakeGood(s, b)
  <2> SUFFICES ASSUME NEW u \in Threads
               PROVE  IF stage[u] = "wait" THEN VerdictTrue(s.got, request, s.verdict, u) ELSE s.got[u] = b[u]
    BY <1>8 DEF WakeGood
  <2>1. CASE stage[u] = "wait"
    <3>1. s.got[u] = got[u] /\ s.verdict[u] = verdict[u]
      BY <2>1, <1>1, <1>8
    <3>2. VerdictTrue(got, request, verdict, u)
      BY <2>1, <1>2 DEF StageTrue
    <3> QED BY <2>1, <3>1, <3>2 DEF VerdictTrue, Nothing, Whole
  <2>2. CASE stage[u] # "wait"
    BY <2>2, <1>9
  <2> QED BY <2>1, <2>2
<1>12. PICK y : y = WakeUpQueued(s)
  OBVIOUS
<1>13. WakeGood(y, b)
  <2>1. lockq \in Seq(Threads)
    BY <1>2 DEF PathsTypes
  <2> QED BY <2>1, <1>2, <1>5, <1>10, <1>11, <1>12, WakeAll
<1>14. PICK tl, g, v : tl = y.treelock /\ g = y.got /\ v = y.verdict
  OBVIOUS
<1>15. treelock' = tl /\ got' = g /\ verdict' = v
  BY <1>1, <1>3, <1>6, <1>12, <1>14 DEF SetLocks
<1>16. /\ PathsGood(tl, g, request) /\ v \in [Threads -> {"again", "ok", "noent"}]
       /\ \A u \in Threads : IF stage[u] = "wait" THEN VerdictTrue(g, request, v, u) ELSE g[u] = b[u]
  BY <1>13, <1>14 DEF WakeGood, LockRecs
<1>17. Nothing(g, t)
  <2>1. g[t] = b[t]
    BY <1>1, <1>16
  <2> QED BY <2>1, <1>8, <1>9 DEF Nothing
<1>18. \A u \in Threads \ {t} : IF stage[u] = "wait" THEN VerdictTrue(g, request, v, u) ELSE g[u] = got[u]
  <2> SUFFICES ASSUME NEW u \in Threads \ {t}
               PROVE  IF stage[u] = "wait" THEN VerdictTrue(g, request, v, u) ELSE g[u] = got[u]
    OBVIOUS
  <2>1. b[u] = got[u]
    BY <1>8, <1>9
  <2> QED BY <2>1, <1>16
<1> QED BY <1>1, <1>15, <1>16, <1>17, <1>18, DoneKeeps

\* The paths of a request are asked for.
Fetched(q, t, r, one, two) ==
  /\ two.err \in {"ok", "again", "noent"}
  /\ two.err = "ok" => /\ PathsGood(two.tl, [got EXCEPT ![t] = Both(one.path, two.path)], q)
                       /\ \A i \in DOMAIN r.asks : Both(one.path, two.path)[i].locked
  /\ two.err # "ok" => PathsGood(IF one.err = "ok" THEN UnlockPath(two.tl, r.asks[1], one.path) ELSE two.tl, got, q)

LEMMA PlacedBoth ==
  ASSUME NEW g \in [Threads -> [{1, 2} -> PathRecs]], NEW t \in Threads, NEW one \in PathRecs, NEW two \in PathRecs
  PROVE  /\ Placed(Placed(g, t, 1, one), t, 2, two) = [g EXCEPT ![t] = Both(one, two)]
         /\ g[t][2] = two => Placed(g, t, 1, one) = [g EXCEPT ![t] = Both(one, two)]
<1>1. PICK b : b = Both(one, two)
  OBVIOUS
<1>2. b \in [{1, 2} -> PathRecs] /\ b[1] = one /\ b[2] = two
  BY <1>1 DEF Both
<1>3. PICK h : h = [g EXCEPT ![t] = b]
  OBVIOUS
<1>4. h \in [Threads -> [{1, 2} -> PathRecs]] /\ \A u \in Threads : h[u] = IF u = t THEN b ELSE g[u]
  BY <1>2, <1>3
<1>5. PICK k : k = Placed(g, t, 1, one)
  OBVIOUS
<1>6. /\ k \in [Threads -> [{1, 2} -> PathRecs]] /\ k[t][1] = one /\ k[t][2] = g[t][2]
      /\ \A u \in Threads : u # t => k[u] = g[u]
  BY <1>5 DEF Placed
<1>7. PICK m : m = Placed(k, t, 2, two)
  OBVIOUS
<1>8. /\ m \in [Threads -> [{1, 2} -> PathRecs]] /\ m[t][1] = k[t][1] /\ m[t][2] = two
      /\ \A u \in Threads : u # t => m[u] = k[u]
  BY <1>6, <1>7 DEF Placed
<1>9. m = h
  <2>1. m[t] = b
    <3>1. m[t] \in [{1, 2} -> PathRecs] /\ \A i \in {1, 2} : m[t][i] = b[i]
      BY <1>2, <1>6, <1>8
    <3> QED BY <3>1, <1>2
  <2>2. \A u \in Threads : m[u] = h[u]
    BY <2>1, <1>4, <1>6, <1>8
  <2> QED BY <2>2, <1>4, <1>8
<1>10. ASSUME g[t][2] = two PROVE k = h
  <2>1. k[t] = b
    <3>1. k[t] \in [{1, 2} -> PathRecs] /\ \A i \in {1, 2} : k[t][i] = b[i]
      BY <1>2, <1>6, <1>10
    <3> QED BY <3>1, <1>2
  <2>2. \A u \in Threads : k[u] = h[u]
    BY <2>1, <1>4, <1>6
  <2> QED BY <2>2, <1>4, <1>6
<1> QED BY <1>1, <1>3, <1>5, <1>7, <1>9, <1>10

LEMMA NoPath ==
  NotLocked \in PathRecs /\ ~NotLocked.locked
<1>1. [n \in {} |-> Nowhere] \in [{} -> Spots \cup {Nowhere}] /\ {} \in SUBSET Nodes
  OBVIOUS
<1>2. [n \in {} |-> Nowhere] \in UNION {[S -> Spots \cup {Nowhere}] : S \in SUBSET Nodes}
  BY <1>1
<1> QED BY <1>2 DEF NotLocked, PathRecs

LEMMA FetchBoth ==
  ASSUME PlaceGood, NEW q, PathsGood(treelock, got, q), NEW t \in Threads, Nothing(got, t), stage[t] # "done",
         NEW r \in Requests, q[t] = r, NEW one, one = TryGetPath(treelock, r.asks[1]),
         NEW two, two = IF Len(r.asks) = 2 /\ one.err = "ok" THEN TryGetPath(one.tl, r.asks[2])
                                                            ELSE [one EXCEPT !.path = NotLocked]
  PROVE  Fetched(q, t, r, one, two)
<1>1. got \in [Threads -> [{1, 2} -> PathRecs]] /\ PathsTrue(got, q)
  BY DEF PathsGood
<1>2. DOMAIN r.asks = (IF Len(r.asks) = 2 THEN {1, 2} ELSE {1}) /\ \A i \in DOMAIN r.asks : AskGood(r.asks[i])
  <2>1. r \in Requests \cup {Idle} /\ r # Idle
    BY FusePathsAssumption DEF Idle, RequestOK, Kinds
  <2> QED BY <2>1, Asked
<1>3. got[t][1] = NotLocked /\ got[t][2] = NotLocked /\ ~got[t][1].locked /\ ~got[t][2].locked
  BY <1>1 DEF PathsTrue, Nothing
<1>4. PICK a : a = r.asks[1] /\ AskGood(a) /\ a = q[t].asks[1] /\ 1 \in DOMAIN q[t].asks
  BY <1>2
<1>5. one.err \in {"ok", "again", "noent"}
  BY <1>4, Tries
<1>6. PICK e, tl, p : one = [err |-> e, tl |-> tl, path |-> p]
  BY DEF TryGetPath
<1>7. ASSUME ~(Len(r.asks) = 2 /\ one.err = "ok")
      PROVE  two.err = one.err /\ two.tl = one.tl /\ two.path = NotLocked
  <2>1. two = [one EXCEPT !.path = NotLocked]
    BY <1>7
  <2> QED BY <2>1, <1>6
<1>8. CASE one.err # "ok"
  <2>1. PathsGood(one.tl, got, q)
    BY <1>4, <1>8, MarkPath
  <2> QED BY <2>1, <1>5, <1>7, <1>8 DEF Fetched
<1>9. CASE one.err = "ok"
  <2>1. PICK g : g = Placed(got, t, 1, one.path)
    OBVIOUS
  <2>2. PathsGood(one.tl, g, q) /\ one.path.locked /\ one.path \in PathRecs
    BY <2>1, <1>3, <1>4, <1>9, TakePath
  <2>3. /\ g \in [Threads -> [{1, 2} -> PathRecs]] /\ g[t][1] = one.path /\ g[t][2] = NotLocked
        /\ \A u \in Threads : u # t => g[u] = got[u]
    BY <2>1, <2>2, <1>1, <1>3 DEF Placed
  <2>4. CASE Len(r.asks) # 2
    <3>1. two.err = "ok" /\ two.tl = one.tl /\ two.path = NotLocked
      BY <2>4, <1>7, <1>9
    <3>2. g = [got EXCEPT ![t] = Both(one.path, two.path)]
      <4>1. PICK p1, p2 : p1 = one.path /\ p2 = two.path
        OBVIOUS
      <4>2. p1 \in PathRecs /\ p2 \in PathRecs /\ got[t][2] = p2
        BY <2>2, <3>1, <4>1, <1>3, NoPath
      <4>3. Placed(got, t, 1, p1) = [got EXCEPT ![t] = Both(p1, p2)]
        BY <4>2, <1>1, PlacedBoth
      <4> QED BY <2>1, <4>1, <4>3
    <3>3. \A i \in DOMAIN r.asks : Both(one.path, two.path)[i].locked
      BY <2>2, <2>4, <1>2 DEF Both
    <3> QED BY <2>2, <3>1, <3>2, <3>3 DEF Fetched
  <2>5. CASE Len(r.asks) = 2
    <3>1. two = TryGetPath(one.tl, r.asks[2])
      BY <2>5, <1>9
    <3>2. PICK c : c = r.asks[2] /\ AskGood(c) /\ c = q[t].asks[2] /\ 2 \in DOMAIN q[t].asks
      BY <2>5, <1>2
    <3>3. two.err \in {"ok", "again", "noent"}
      BY <3>1, Tries
    <3>4. CASE two.err = "ok"
      <4>1. ~g[t][2].locked
        BY <2>3, NoPath
      <4>2. PathsGood(two.tl, Placed(g, t, 2, two.path), q) /\ two.path.locked /\ two.path \in PathRecs
        <5>1. PICK l : l = one.tl
          OBVIOUS
        <5>2. PathsGood(l, g, q) /\ two = TryGetPath(l, c)
          BY <5>1, <2>2, <3>1, <3>2
        <5>3. 2 \in {1, 2}
          OBVIOUS
        <5>4. c = q[t].asks[2] /\ 2 \in DOMAIN q[t].asks /\ AskGood(c)
          BY <3>2
        <5>5. PICK z : z = two
          OBVIOUS
        <5>6. z = TryGetPath(l, c) /\ z.err = "ok"
          BY <5>2, <5>5, <3>4
        <5>7. PathsGood(z.tl, Placed(g, t, 2, z.path), q) /\ z.path.locked /\ z.path \in PathRecs
          BY <5>2, <5>3, <5>4, <5>6, <4>1, TakePath, Zenon
        <5> QED BY <5>5, <5>7
      <4>3. Placed(g, t, 2, two.path) = [got EXCEPT ![t] = Both(one.path, two.path)]
        <5>1. PICK p1, p2 : p1 = one.path /\ p2 = two.path
          OBVIOUS
        <5>2. p1 \in PathRecs /\ p2 \in PathRecs
          BY <2>2, <4>2, <5>1
        <5>3. Placed(Placed(got, t, 1, p1), t, 2, p2) = [got EXCEPT ![t] = Both(p1, p2)]
          BY <5>2, <1>1, PlacedBoth
        <5> QED BY <2>1, <5>1, <5>3
      <4>4. \A i \in DOMAIN r.asks : Both(one.path, two.path)[i].locked
        BY <4>2, <2>2, <2>5, <1>2 DEF Both
      <4> QED BY <3>4, <4>2, <4>3, <4>4 DEF Fetched
    <3>5. CASE two.err # "ok"
      <4>1. PathsGood(two.tl, g, q)
        BY <2>2, <3>1, <3>2, <3>5, MarkPath
      <4>2. g[t][1].locked
        BY <2>2, <2>3
      <4>3. PathsGood(UnlockPath(two.tl, q[t].asks[1], g[t][1]), Placed(g, t, 1, NotLocked), q)
        BY <4>1, <4>2, LeavePath
      <4>4. Placed(g, t, 1, NotLocked) = got
        <5>1. PICK h : h = Placed(g, t, 1, NotLocked)
          OBVIOUS
        <5>2. /\ h \in [Threads -> [{1, 2} -> PathRecs]] /\ h[t][1] = NotLocked /\ h[t][2] = g[t][2]
              /\ \A u \in Threads : u # t => h[u] = g[u]
          BY <5>1, <2>3, NoPath DEF Placed
        <5>3. h[t] = got[t]
          <6>1. h[t] \in [{1, 2} -> PathRecs] /\ got[t] \in [{1, 2} -> PathRecs]
            BY <5>2, <1>1
          <6>2. \A i \in {1, 2} : h[t][i] = got[t][i]
            BY <5>2, <2>3, <1>3
          <6> QED BY <6>1, <6>2
        <5>4. \A u \in Threads : h[u] = got[u]
          BY <5>2, <5>3, <2>3
        <5> QED BY <5>1, <5>2, <5>4, <1>1
      <4>5. PathsGood(UnlockPath(two.tl, r.asks[1], one.path), got, q)
        BY <4>3, <4>4, <2>3, <1>4
      <4> QED BY <3>3, <3>5, <4>5, <1>9 DEF Fetched
    <3> QED BY <3>4, <3>5
  <2> QED BY <2>4, <2>5
<1> QED BY <1>8, <1>9

\* A request does not change a directory that another one does.
LEMMA MutexKept ==
  ASSUME PathsInv, NEW t \in Threads, stage[t] = "idle", NEW r \in Requests, Sends(r),
         request' = [request EXCEPT ![t] = r]
  PROVE  MutexTrue'
<1>1. PathsTypes /\ MutexTrue /\ \A u \in Threads : StageTrue(u)
  BY DEF PathsInv
<1>2. \A u \in Threads : request'[u] = IF u = t THEN r ELSE request[u]
  BY <1>1 DEF PathsTypes
<1>3. None \notin Nodes /\ None # Root
  BY FusePathsAssumption
<1>4. ASSUME NEW q \in Requests \cup {Idle}, Changes(q), NEW i \in DOMAIN q.asks
      PROVE  q.asks[i].dir \in Mutexes(q)
  <2>1. /\ i \in {1, 2} /\ q.asks[i].dir \in Nodes \cup {Root}
        /\ q.kind = "unlink" => DOMAIN q.asks = {1}
    BY <1>4, Asked
  <2>2. q.asks[i].dir # None
    BY <2>1, <1>3
  <2>3. CASE q.kind = "unlink"
    <3>1. i = 1
      BY <2>1, <2>3
    <3> QED BY <2>2, <2>3, <3>1 DEF Mutexes
  <2>4. CASE q.kind = "rename"
    <3>1. Mutexes(q) = {q.asks[1].dir, q.asks[2].dir, Lookup(q.asks[2].dir, q.asks[2].name)} \ {None}
      BY <2>4 DEF Mutexes
    <3> QED BY <2>1, <2>2, <3>1
  <2> QED BY <1>4, <2>3, <2>4 DEF Changes
<1>5. ASSUME NEW u \in Threads, u # t, Changes(request[u]), Changes(r),
             NEW i \in DOMAIN r.asks, NEW j \in DOMAIN request[u].asks
      PROVE  r.asks[i].dir # request[u].asks[j].dir
  <2>1. PICK q \in Requests \cup {Idle} : q = request[u]
    BY <1>1 DEF PathsTypes
  <2>2. Pending(u)
    <3>1. stage[u] # "replied"
      BY <1>1, <1>5 DEF StageTrue, Changes
    <3>2. stage[u] # "idle"
      BY <1>1, <1>5 DEF StageTrue, Changes, Idle
    <3> QED BY <3>1, <3>2 DEF Pending
  <2>3. Mutexes(r) \cap Mutexes(q) = {}
    BY <2>1, <2>2 DEF Sends
  <2>4. r.asks[i].dir \in Mutexes(r) /\ q.asks[j].dir \in Mutexes(q)
    BY <1>4, <1>5, <2>1
  <2> QED BY <2>1, <2>3, <2>4
<1>6. SUFFICES ASSUME NEW v \in Threads, NEW u \in Threads, v # u, Changes(request'[v]), Changes(request'[u]),
                      NEW i \in DOMAIN request'[v].asks, NEW j \in DOMAIN request'[u].asks
               PROVE  request'[v].asks[i].dir # request'[u].asks[j].dir
  BY DEF MutexTrue, Changes
<1>7. CASE v = t
  <2>1. request'[v] = r /\ request'[u] = request[u] /\ u # t
    BY <1>2, <1>6, <1>7
  <2> QED BY <2>1, <1>5, <1>6
<1>8. CASE u = t
  <2>1. request'[u] = r /\ request'[v] = request[v] /\ v # t
    BY <1>2, <1>6, <1>8
  <2> QED BY <2>1, <1>5, <1>6
<1>9. CASE v # t /\ u # t
  <2>1. request'[u] = request[u] /\ request'[v] = request[v]
    BY <1>2, <1>9
  <2> QED BY <2>1, <1>1, <1>6 DEF MutexTrue
<1> QED BY <1>7, <1>8, <1>9

LEMMA GetPathKeeps ==
  ASSUME PathsInv, NEW t \in Threads, NEW r \in Requests, GetPath(t, r)
  PROVE  PathsInv'
<1>1. /\ stage[t] = "idle" /\ r.kind # "forget" /\ Sends(r) /\ request' = [request EXCEPT ![t] = r]
      /\ place' = place
  BY DEF GetPath
<1>2. PathsTypes /\ \A u \in Threads : StageTrue(u)
  BY DEF PathsInv
<1>3. PICK q : q = [request EXCEPT ![t] = r]
  OBVIOUS
<1>4. request' = q /\ \A u \in Threads : q[u] = IF u = t THEN r ELSE request[u]
  BY <1>1, <1>2, <1>3 DEF PathsTypes
<1>5. Nothing(got, t)
  BY <1>1, <1>2 DEF StageTrue
<1>6. PlaceGood /\ PathsGood(treelock, got, request)
  BY AllAsked
<1>7. PathsGood(treelock, got, q)
  <2>1. PathsTrue(got, q)
    <3> SUFFICES ASSUME NEW u \in Threads, NEW i \in {1, 2}
                 PROVE  IF got[u][i].locked THEN HeldTrue(q, u, i, got[u][i]) ELSE got[u][i] = NotLocked
      BY DEF PathsTrue
    <3>1. IF got[u][i].locked THEN HeldTrue(request, u, i, got[u][i]) ELSE got[u][i] = NotLocked
      BY <1>6 DEF PathsGood, PathsTrue
    <3>2. CASE u = t
      BY <3>1, <3>2, <1>5 DEF Nothing
    <3>3. CASE u # t
      <4>1. q[u] = request[u]
        BY <3>3, <1>4
      <4> QED BY <3>1, <4>1 DEF HeldTrue
    <3> QED BY <3>2, <3>3
  <2> QED BY <2>1, <1>6 DEF PathsGood
<1>8. PICK one : one = TryGetPath(treelock, r.asks[1])
  OBVIOUS
<1>9. PICK two : two = IF Len(r.asks) = 2 /\ one.err = "ok" THEN TryGetPath(one.tl, r.asks[2])
                                                           ELSE [one EXCEPT !.path = NotLocked]
  OBVIOUS
<1>10. Fetched(q, t, r, one, two)
  <2>1. q[t] = r /\ stage[t] # "done"
    BY <1>1, <1>4
  <2> QED BY <2>1, <1>5, <1>6, <1>7, <1>8, <1>9, FetchBoth
<1>11. (CASE two.err = "ok" ->
              /\ treelock' = two.tl /\ got' = [got EXCEPT ![t] = Both(one.path, two.path)]
              /\ stage' = [stage EXCEPT ![t] = "held"]
              /\ UNCHANGED <<lockq, verdict>>
         [] two.err = "again" ->
              /\ treelock' = IF one.err = "ok" THEN UnlockPath(two.tl, r.asks[1], one.path)
                                               ELSE two.tl
              /\ lockq' = Append(lockq, t) /\ stage' = [stage EXCEPT ![t] = "wait"]
              /\ verdict' = [verdict EXCEPT ![t] = "again"]
              /\ UNCHANGED got
         [] OTHER ->
              /\ treelock' = IF one.err = "ok" THEN UnlockPath(two.tl, r.asks[1], one.path)
                                               ELSE two.tl
              /\ stage' = [stage EXCEPT ![t] = "failed"]
              /\ UNCHANGED <<lockq, got, verdict>>)
  BY <1>8, <1>9 DEF GetPath
<1> DEFINE Ends(tl, g, new) ==
             /\ treelock' = tl /\ got' = g /\ stage' = [stage EXCEPT ![t] = new]
             /\ new \in {"held", "wait", "failed"}
             /\ PathsGood(tl, g, q) /\ \A u \in Threads \ {t} : g[u] = got[u]
             /\ IF new = "held" THEN \A i \in DOMAIN r.asks : g[t][i].locked ELSE Nothing(g, t)
             /\ IF new = "wait" THEN lockq' = Append(lockq, t) /\ verdict' = [verdict EXCEPT ![t] = "again"]
                                ELSE lockq' = lockq /\ verdict' = verdict
<1>21. \E tl, g, new : Ends(tl, g, new)
  <2>1. two.err \in {"ok", "again", "noent"}
    BY <1>10 DEF Fetched
  <2>2. CASE two.err = "ok"
    <3>1. PICK g : g = [got EXCEPT ![t] = Both(one.path, two.path)]
      OBVIOUS
    <3>2. PathsGood(two.tl, g, q) /\ \A i \in DOMAIN r.asks : Both(one.path, two.path)[i].locked
      BY <1>10, <2>2, <3>1 DEF Fetched
    <3>3. \A u \in Threads : g[u] = IF u = t THEN Both(one.path, two.path) ELSE got[u]
      BY <1>2, <3>1 DEF PathsTypes
    <3>4. treelock' = two.tl /\ got' = g /\ stage' = [stage EXCEPT ![t] = "held"] /\ lockq' = lockq /\ verdict' = verdict
      BY <1>11, <2>2, <3>1
    <3>5. (\A u \in Threads \ {t} : g[u] = got[u]) /\ \A i \in DOMAIN r.asks : g[t][i].locked
      BY <3>2, <3>3
    <3>6. PICK l : l = two.tl
      OBVIOUS
    <3>7. Ends(l, g, "held")
      BY <3>2, <3>4, <3>5, <3>6
    <3> HIDE DEF Ends
    <3> QED BY <3>7
  <2>3. CASE two.err = "again"
    <3>1. PICK tl : tl = IF one.err = "ok" THEN UnlockPath(two.tl, r.asks[1], one.path) ELSE two.tl
      OBVIOUS
    <3>2. PathsGood(tl, got, q)
      BY <1>10, <2>3, <3>1 DEF Fetched
    <3>3. /\ treelock' = tl /\ got' = got /\ stage' = [stage EXCEPT ![t] = "wait"] /\ lockq' = Append(lockq, t)
          /\ verdict' = [verdict EXCEPT ![t] = "again"]
      BY <1>11, <2>3, <3>1
    <3>4. PICK g : g = got
      OBVIOUS
    <3>5. Ends(tl, g, "wait")
      BY <3>2, <3>3, <3>4, <1>5
    <3> HIDE DEF Ends
    <3> QED BY <3>5
  <2>4. CASE two.err = "noent"
    <3>1. PICK tl : tl = IF one.err = "ok" THEN UnlockPath(two.tl, r.asks[1], one.path) ELSE two.tl
      OBVIOUS
    <3>2. PathsGood(tl, got, q)
      BY <1>10, <2>4, <3>1 DEF Fetched
    <3>3. /\ treelock' = tl /\ got' = got /\ stage' = [stage EXCEPT ![t] = "failed"] /\ lockq' = lockq
          /\ verdict' = verdict
      BY <1>11, <2>4, <3>1
    <3>4. PICK g : g = got
      OBVIOUS
    <3>5. Ends(tl, g, "failed")
      BY <3>2, <3>3, <3>4, <1>5
    <3> HIDE DEF Ends
    <3> QED BY <3>5
  <2> HIDE DEF Ends
  <2> QED BY <2>1, <2>2, <2>3, <2>4
<1>12. PICK tl, g, new : Ends(tl, g, new)
  BY <1>21
<1>22. PathsGood(tl, g, q) /\ treelock' = tl /\ got' = g
  BY <1>12
<1>13. lockq' \in Seq(Threads) /\ QueueTrue'
  <2>1. CASE new = "wait"
    BY <2>1, <1>1, <1>12, QueueWith
  <2>2. CASE new # "wait"
    BY <2>2, <1>1, <1>12, QueueStill
  <2> QED BY <2>1, <2>2
<1>14. \A u \in Threads : /\ stage'[u] = IF u = t THEN new ELSE stage[u]
                          /\ u # t => verdict'[u] = verdict[u]
                          /\ new = "wait" => verdict'[t] = "again"
  BY <1>2, <1>12 DEF PathsTypes
<1>15. PathsTypes'
  <2>1. /\ place' \in [Nodes -> Spots \cup {Nowhere}] /\ request' \in [Threads -> Requests \cup {Idle}]
        /\ stage' \in [Threads -> {"idle", "wait", "held", "done", "replied", "failed"}]
        /\ verdict' \in [Threads -> {"again", "ok", "noent"}]
    BY <1>1, <1>2, <1>12 DEF PathsTypes
  <2>2. treelock' \in [Nodes -> Int] /\ got' \in [Threads -> [{1, 2} -> PathRecs]]
    BY <1>12 DEF PathsGood
  <2> QED BY <2>1, <2>2, <1>13 DEF PathsTypes, PathRecs
<1>16. PathsTrue(got, request)'
  <2>1. PathsTrue(g, q)
    BY <1>22 DEF PathsGood
  <2>2. \A u \in Threads : request'[u] = q[u] /\ (stage'[u] = "done" <=> stage[u] = "done")
    BY <1>1, <1>4, <1>12, <1>14
  <2> QED BY <1>1, <1>22, <2>1, <2>2, PathsStill, ZenonT(60)
<1>17. TreelocksTrue(treelock, got)'
  BY <1>22, SMTT(40) DEF PathsGood, TreelocksTrue, Reading, Writing, GotOf
<1>18. MutexTrue'
  BY <1>1, MutexKept
<1>19. IsTree(place)' /\ \A d : ~Unbroken(d) => ~Unbroken(d)'
  BY <1>1, PlaceStill
<1>20. ASSUME NEW u \in Threads PROVE StageTrue(u)'
  <2>1. CASE u = t
    <3>1. stage'[u] = new /\ request'[u] = r /\ r # Idle
      <4>1. r # Idle
        BY FusePathsAssumption DEF Idle, RequestOK, Kinds
      <4> QED BY <4>1, <2>1, <1>4, <1>14
    <3>2. CASE new = "held"
      <4>1. Whole(got, request, u)'
        BY <2>1, <3>1, <3>2, <1>12 DEF Whole
      <4> QED BY <3>1, <3>2, <4>1, <1>1 DEF StageTrue
    <3>3. CASE new # "held"
      <4>1. Nothing(got, u)'
        BY <2>1, <3>3, <1>12 DEF Nothing
      <4>2. new = "wait" => VerdictTrue(got, request, verdict, u)'
        BY <2>1, <4>1, <1>14 DEF VerdictTrue
      <4> QED BY <3>1, <3>3, <4>1, <4>2, <1>12 DEF StageTrue
    <3> QED BY <3>2, <3>3
  <2>2. CASE u # t
    <3>1. StageTrue(u) /\ stage'[u] = stage[u] /\ request'[u] = request[u] /\ got'[u] = got[u] /\ verdict'[u] = verdict[u]
      BY <1>2, <1>4, <1>12, <1>14, <2>2
    <3> QED BY <3>1, <1>19, StageKept
  <2> QED BY <2>1, <2>2
<1> QED BY <1>13, <1>15, <1>16, <1>17, <1>18, <1>19, <1>20 DEF PathsInv

\* A path that no changed node is on.
LEMMA PathKept ==
  ASSUME PathsInv, PlaceGood', NEW C \in SUBSET Nodes, ChangedAt(place', C), NEW u \in Threads,
         got' = got, request'[u] = request[u], stage'[u] = "done" <=> stage[u] = "done", NEW i \in {1, 2}, got[u][i].locked,
         \A n \in C : <<u, i>> \notin Reading(got, n) /\ <<u, i>> \notin Writing(got, n),
         request[u].asks[i].write => \A n \in C : place'[n] # Spot(request[u].asks[i])
  PROVE  HeldTrue(request, u, i, got[u][i])'
<1>1. /\ PlaceGood /\ got \in [Threads -> [{1, 2} -> PathRecs]] /\ HeldTrue(request, u, i, got[u][i])
      /\ AskGood(request[u].asks[i])
  <2>1. PlaceGood /\ PathsGood(treelock, got, request) /\ AsksGood(request)
    BY AllAsked
  <2>2. HeldTrue(request, u, i, got[u][i])
    BY <2>1 DEF PathsGood, PathsTrue
  <2> QED BY <2>1, <2>2 DEF PathsGood, AsksGood, HeldTrue
<1>2. PICK path : path = got[u][i] /\ path \in PathRecs /\ HeldTrue(request, u, i, path)
  BY <1>1
<1>3. DOMAIN path.chain \cap C = {} /\ path.wnode \notin C
  <2>1. <<u, i>> \in Threads \X {1, 2} /\ <<u, i>>[1] = u /\ <<u, i>>[2] = i
    OBVIOUS
  <2>2. <<u, i>> \in GotOf(got)
    BY <2>1 DEF GotOf
  <2> QED BY <2>1, <2>2, <1>2 DEF Reading, Writing
<1>4. HeldTrue(request, u, i, path)'
  BY <1>1, <1>2, <1>3, HeldKept
<1> QED BY <1>2, <1>4

\* The tree is changed by a thread that has locked what it changes.
LEMMA ChangeKeeps ==
  ASSUME PathsInv, NEW t \in Threads, stage[t] = "held", Changes(request[t]),
         stage' = [stage EXCEPT ![t] = "done"],
         treelock' = treelock, lockq' = lockq, request' = request, got' = got, verdict' = verdict,
         PlaceGood', NEW C \in SUBSET Nodes, ChangedAt(place', C),
         \A n \in C : Reading(got, n) = {} /\ \A u \in Threads \ {t}, i \in {1, 2} : <<u, i>> \notin Writing(got, n),
         \A n \in Nodes : place[n] = Nowhere => place'[n] = Nowhere,
         (\A c \in C : c \in Nodes => Unbroken(c)) \/ (\A c \in C : place'[c] = Nowhere),
         \A n \in C : place'[n] = Nowhere \/ \E j \in DOMAIN request[t].asks : place'[n].dir = request[t].asks[j].dir,
         \A i \in {1, 2} : got[t][i].locked /\ got[t][i].wnode # None =>
           \/ place'[got[t][i].wnode] = Nowhere
           \/ \E j \in DOMAIN request[t].asks : place'[got[t][i].wnode] = Spot(request[t].asks[j])
  PROVE  PathsInv'
<1>1. PathsTypes /\ \A u \in Threads : StageTrue(u)
  BY DEF PathsInv
<1>2. \A u \in Threads : stage'[u] = IF u = t THEN "done" ELSE stage[u]
  BY <1>1 DEF PathsTypes
<1>3. lockq' \in Seq(Threads) /\ QueueTrue'
  BY QueueStill
<1>4. PathsTypes'
  BY <1>1, <1>3 DEF PathsTypes, PlaceGood
<1>5. TreelocksTrue(treelock, got)' /\ MutexTrue'
  BY SMTT(40) DEF PathsInv, TreelocksTrue, Reading, Writing, GotOf, MutexTrue
<1>6. IsTree(place)'
  BY DEF PlaceGood
<1>7. \A d : ~Unbroken(d) => ~Unbroken(d)'
  BY BrokenStays
<1>8. PlaceGood /\ PathsGood(treelock, got, request) /\ AsksGood(request)
      /\ \A u \in Threads : request[u] \in Requests \cup {Idle}
  BY AllAsked
<1>0. None \notin Nodes /\ None # Root
  BY FusePathsAssumption
<1>9. ASSUME NEW u \in Threads, NEW i \in {1, 2}, got[u][i].locked PROVE HeldTrue(request, u, i, got[u][i])'
  <2>1. HeldTrue(request, u, i, got[u][i])
    BY <1>8, <1>9 DEF PathsGood, PathsTrue
  <2>2. CASE u # t
    <3>1. \A n \in C : <<u, i>> \notin Reading(got, n) /\ <<u, i>> \notin Writing(got, n)
      BY <2>2
    <3>2. request[u].asks[i].write => \A n \in C : place'[n] # Spot(request[u].asks[i])
      <4> SUFFICES ASSUME request[u].asks[i].write, NEW n \in C, place'[n] = Spot(request[u].asks[i]) PROVE FALSE
        OBVIOUS
      <4>1. i \in DOMAIN request[u].asks
        BY <2>1 DEF HeldTrue
      <4>2. Changes(request[u])
        <5>1. PICK r \in Requests \cup {Idle} : r = request[u]
          BY <1>8
        <5> QED BY <5>1, <4>1, Asked
      <4>3. request[u].asks[i].dir # None
        BY <4>1, <1>0, <1>8 DEF AsksGood, AskGood, Asks
      <4>4. place'[n].dir = request[u].asks[i].dir
        BY DEF Spot
      <4>5. PICK j \in DOMAIN request[t].asks : place'[n].dir = request[t].asks[j].dir
        BY <4>3, <4>4 DEF Nowhere
      <4>6. \A a \in DOMAIN request[t].asks, b \in DOMAIN request[u].asks :
              request[t].asks[a].dir # request[u].asks[b].dir
        <5>1. MutexTrue
          BY DEF PathsInv
        <5> QED BY <5>1, <4>2, <2>2 DEF MutexTrue
      <4>7. request[t].asks[j].dir # request[u].asks[i].dir
        BY <4>1, <4>6
      <4> QED BY <4>4, <4>5, <4>7, Zenon
    <3>3. request'[u] = request[u] /\ (stage'[u] = "done" <=> stage[u] = "done")
      BY <1>2, <2>2
    <3> QED BY <1>9, <3>1, <3>2, <3>3, PathKept
  <2>3. CASE u = t
    <3>1. PICK path, A : path = got[t][i] /\ A = request[t].asks /\ A = request'[t].asks
      OBVIOUS
    <3>2. i \in DOMAIN A /\ path.chain = Trail(A[i].dir) /\ Unbroken(A[i].dir)
          /\ (path.wnode # None => A[i].write)
      BY <2>1, <2>3, <3>1 DEF HeldTrue
    <3>3. Above(A[i].dir) \cap C = {}
      <4>1. <<t, i>> \in GotOf(got) /\ <<t, i>>[1] = t /\ <<t, i>>[2] = i
        BY <1>9, <2>3 DEF GotOf
      <4>2. \A n \in C : n \notin DOMAIN path.chain
        BY <4>1, <3>1 DEF Reading
      <4> QED BY <4>2, <3>2 DEF Trail
    <3>4. path.chain = Trail(A[i].dir)' /\ Unbroken(A[i].dir)'
      BY <3>2, <3>3, WayKept
    <3>5. path.wnode # None => place'[path.wnode] = Nowhere \/ \E j \in DOMAIN A : place'[path.wnode] = Spot(A[j])
      BY <1>9, <2>3, <3>1
    <3>6. stage'[t] = "done"
      BY <1>2
    <3>7. HeldTrue(request, t, i, path)'
      BY <3>1, <3>2, <3>4, <3>5, <3>6 DEF HeldTrue
    <3> QED BY <3>1, <3>7, <2>3
  <2> QED BY <2>2, <2>3
<1>10. PathsTrue(got, request)'
  <2>1. \A u \in Threads, i \in {1, 2} : ~got[u][i].locked => got[u][i] = NotLocked
    BY <1>8 DEF PathsGood, PathsTrue
  <2> QED BY <1>9, <2>1 DEF PathsTrue, HeldTrue
<1>11. ASSUME NEW u \in Threads PROVE StageTrue(u)'
  <2>1. CASE u = t
    <3>1. /\ stage'[u] = "done" /\ request'[u] = request[u] /\ got'[u] = got[u]
          /\ Whole(got, request, u) /\ request[u] # Idle
      BY <1>1, <1>2, <2>1 DEF StageTrue
    <3>2. Whole(got, request, u)'
      BY <3>1 DEF Whole
    <3> QED BY <3>1, <3>2, <2>1 DEF StageTrue, Changes
  <2>2. CASE u # t
    <3>1. StageTrue(u) /\ stage'[u] = stage[u]
      BY <1>1, <1>2, <2>2
    <3> QED BY <3>1, <1>7, StageKept
  <2> QED BY <2>1, <2>2
<1> QED BY <1>3, <1>4, <1>5, <1>6, <1>10, <1>11 DEF PathsInv

\* Who has locked a node for writing, is alone with it.
LEMMA OwnsNode ==
  ASSUME PathsInv, NEW t \in Threads, NEW i \in {1, 2}, got[t][i].locked, NEW w \in Nodes, got[t][i].wnode = w
  PROVE  Reading(got, w) = {} /\ Writing(got, w) = {<<t, i>>}
<1>1. treelock \in [Nodes -> Int] /\ TreelocksTrue(treelock, got)
  BY DEF PathsInv, PathsTypes
<1>2. <<t, i>> \in Writing(got, w)
  BY DEF Writing, GotOf
<1>3. PICK g : g = got /\ TreelocksTrue(treelock, g)
  BY <1>1
<1>4. Reading(g, w) = {} /\ Cardinality(Writing(g, w)) = 1 /\ IsFiniteSet(Writing(g, w))
  BY <1>1, <1>2, <1>3, LockSays, GotPairs, PairsCounted
<1> QED BY <1>2, <1>3, <1>4, FS_Singleton

\* What a thread holds that is to change the tree.
LEMMA HoldsWhole ==
  ASSUME PathsInv, NEW t \in Threads, stage[t] = "held", Changes(request[t]), NEW i \in DOMAIN request[t].asks,
         NEW a, a = request[t].asks[i]
  PROVE  /\ i \in {1, 2} /\ AskGood(a) /\ a.dir \in Nodes \cup {Root} /\ a.name \in Names
         /\ got[t][i].locked /\ got[t][i].wnode = Lookup(a.dir, a.name)
         /\ DOMAIN got[t][i].chain = Above(a.dir) /\ Unbroken(a.dir)
         /\ Lookup(a.dir, a.name) \in Nodes \cup {None}
         /\ \A n \in Nodes : Lookup(a.dir, a.name) = n <=> place[n] = Spot(a)
<1>1. PlaceGood /\ PathsGood(treelock, got, request) /\ AsksGood(request) /\ request[t] \in Requests \cup {Idle}
  BY AllAsked
<1>2. i \in {1, 2} /\ AskGood(a) /\ a.dir \in Nodes \cup {Root} /\ a.name \in Names /\ a.write
  <2>1. PICK r \in Requests \cup {Idle} : r = request[t]
    BY <1>1
  <2> QED BY <2>1, Asked
<1>3. got[t][i].locked
  BY DEF PathsInv, StageTrue, Whole
<1>4. HeldTrue(request, t, i, got[t][i])
  BY <1>1, <1>2, <1>3 DEF PathsGood, PathsTrue
<1>5. /\ got[t][i].wnode = Lookup(a.dir, a.name) /\ got[t][i].chain = Trail(a.dir) /\ Unbroken(a.dir)
  BY <1>2, <1>4 DEF HeldTrue
<1>6. None \notin Nodes /\ None # Root
  BY FusePathsAssumption
<1>7. /\ Lookup(a.dir, a.name) \in Nodes \cup {None}
      /\ \A n \in Nodes : Lookup(a.dir, a.name) = n <=> place[n] = [dir |-> a.dir, name |-> a.name]
  BY <1>1, <1>2, <1>6, LookedUp DEF PlaceGood
<1> QED BY <1>2, <1>3, <1>5, <1>7 DEF Trail, Spot

LEMMA RemoveNodeKeeps ==
  ASSUME PathsInv, NEW t \in Threads, RemoveNode(t)
  PROVE  PathsInv'
<1>1. PICK a, w : a = request[t].asks[1] /\ w = Lookup(a.dir, a.name)
  OBVIOUS
<1>2. /\ stage[t] = "held" /\ request[t].kind = "unlink" /\ stage' = [stage EXCEPT ![t] = "done"]
      /\ place' = [n \in Nodes |-> IF n = w THEN Nowhere ELSE place[n]]
      /\ treelock' = treelock /\ lockq' = lockq /\ request' = request /\ got' = got /\ verdict' = verdict
  BY <1>1 DEF RemoveNode
<1>3. Changes(request[t])
  BY <1>2 DEF Changes
<1>4. DOMAIN request[t].asks = {1}
  <2>1. PICK r \in Requests \cup {Idle} : r = request[t]
    BY AllAsked
  <2> QED BY <2>1, <1>2, Asked
<1>5. /\ got[t][1].locked /\ got[t][1].wnode = w /\ w \in Nodes \cup {None}
  BY <1>1, <1>2, <1>3, <1>4, HoldsWhole
<1>0. None \notin Nodes
  BY FusePathsAssumption
<1> DEFINE C == {w} \cap Nodes
<1>6. PlaceGood'
  <2>1. PlaceGood
    BY AllAsked
  <2>2. PICK p : p = place /\ IsTree(p)
    BY <2>1 DEF PlaceGood
  <2>3. place' = [n \in Nodes |-> IF n \in {w} THEN Nowhere ELSE p[n]]
    BY <1>2, <2>2
  <2>4. IsTree(place')
    BY <2>2, <2>3, <1>0, TreeWithout
  <2>5. place' \in [Nodes -> Spots \cup {Nowhere}]
    BY <2>1, <1>2 DEF PlaceGood
  <2> QED BY <2>4, <2>5 DEF PlaceGood
<1>7. ChangedAt(place', C)
  BY <1>2 DEF ChangedAt
<1>8. \A n \in C : Reading(got, n) = {} /\ \A u \in Threads \ {t}, i \in {1, 2} : <<u, i>> \notin Writing(got, n)
  <2> SUFFICES ASSUME w \in Nodes
               PROVE  Reading(got, w) = {} /\ \A u \in Threads \ {t}, i \in {1, 2} : <<u, i>> \notin Writing(got, w)
    OBVIOUS
  <2>1. Reading(got, w) = {} /\ Writing(got, w) = {<<t, 1>>}
    BY <1>5, OwnsNode
  <2> QED BY <2>1
<1>9. /\ \A n \in Nodes : place[n] = Nowhere => place'[n] = Nowhere
      /\ \A c \in C : place'[c] = Nowhere
  BY <1>2
<1>10. \A i \in {1, 2} : got[t][i].locked /\ got[t][i].wnode # None =>
         \/ place'[got[t][i].wnode] = Nowhere
         \/ \E j \in DOMAIN request[t].asks : place'[got[t][i].wnode] = Spot(request[t].asks[j])
  <2> SUFFICES ASSUME NEW i \in {1, 2}, got[t][i].locked, got[t][i].wnode # None
               PROVE  place'[got[t][i].wnode] = Nowhere
    OBVIOUS
  <2>1. i = 1
    <3>1. PathsTrue(got, request)
      BY DEF PathsInv
    <3>2. HeldTrue(request, t, i, got[t][i])
      BY <3>1 DEF PathsTrue
    <3> QED BY <3>2, <1>4 DEF HeldTrue
  <2> QED BY <2>1, <1>2, <1>5
<1> HIDE DEF C
<1>11. C \in SUBSET Nodes
  BY DEF C
<1> QED BY <1>2, <1>3, <1>6, <1>7, <1>8, <1>9, <1>10, <1>11, ChangeKeeps

LEMMA RenameNodeKeeps ==
  ASSUME PathsInv, NEW t \in Threads, RenameNode(t)
  PROVE  PathsInv'
<1>1. PICK from, to, old, new : /\ from = request[t].asks[1] /\ old = Lookup(from.dir, from.name)
                                /\ to = request[t].asks[2] /\ new = Lookup(to.dir, to.name)
  OBVIOUS
<1>2. /\ stage[t] = "held" /\ request[t].kind = "rename" /\ stage' = [stage EXCEPT ![t] = "done"]
      /\ place' = [n \in Nodes |-> IF old = None THEN place[n]
                                   ELSE IF n = old THEN [dir |-> to.dir, name |-> to.name]
                                   ELSE IF n = new THEN Nowhere ELSE place[n]]
      /\ treelock' = treelock /\ lockq' = lockq /\ request' = request /\ got' = got /\ verdict' = verdict
  BY <1>1 DEF RenameNode
<1>3. Changes(request[t])
  BY <1>2 DEF Changes
<1>4. DOMAIN request[t].asks = {1, 2}
  <2>1. PICK r \in Requests \cup {Idle} : r = request[t]
    BY AllAsked
  <2> QED BY <2>1, <1>2, Asked
<1>5. /\ got[t][1].locked /\ got[t][1].wnode = old /\ old \in Nodes \cup {None} /\ Unbroken(from.dir)
      /\ \A n \in Nodes : old = n <=> place[n] = Spot(from)
  BY <1>1, <1>2, <1>3, <1>4, HoldsWhole, SMTT(40)
<1>6. /\ got[t][2].locked /\ got[t][2].wnode = new /\ new \in Nodes \cup {None} /\ Unbroken(to.dir)
      /\ \A n \in Nodes : new = n <=> place[n] = Spot(to)
      /\ DOMAIN got[t][2].chain = Above(to.dir) /\ to.dir \in Nodes \cup {Root} /\ to.name \in Names
  BY <1>1, <1>2, <1>3, <1>4, HoldsWhole, SMTT(40)
<1>0. None \notin Nodes /\ None # Root
  BY FusePathsAssumption
<1>7. PlaceGood /\ place \in [Nodes -> Spots \cup {Nowhere}] /\ IsTree(place)
  BY AllAsked DEF PlaceGood
<1>8. CASE old = None
  <2>1. place' = place
    BY <1>2, <1>7, <1>8
  <2>2. PlaceGood'
    BY <2>1, <1>7 DEF PlaceGood
  <2>3. ChangedAt(place', {})
    BY <2>1 DEF ChangedAt
  <2>4. \A i \in {1, 2} : got[t][i].locked /\ got[t][i].wnode # None =>
          \/ place'[got[t][i].wnode] = Nowhere
          \/ \E j \in DOMAIN request[t].asks : place'[got[t][i].wnode] = Spot(request[t].asks[j])
    <3> SUFFICES ASSUME NEW i \in {1, 2}, got[t][i].wnode # None
                 PROVE  \E j \in DOMAIN request[t].asks : place'[got[t][i].wnode] = Spot(request[t].asks[j])
      OBVIOUS
    <3>1. got[t][i].wnode = new /\ new \in Nodes
      BY <1>5, <1>6, <1>8
    <3>2. place'[new] = Spot(request[t].asks[2])
      BY <3>1, <2>1, <1>1, <1>6
    <3> QED BY <3>1, <3>2, <1>4
  <2>5. \A n \in Nodes : place[n] = Nowhere => place'[n] = Nowhere
    BY <2>1
  <2>6. {} \in SUBSET Nodes
    OBVIOUS
  <2> QED BY <2>2, <2>3, <2>4, <2>5, <2>6, <1>2, <1>3, ChangeKeeps
<1>9. CASE old \in Nodes
  <2>1. Reading(got, old) = {} /\ Writing(got, old) = {<<t, 1>>}
    BY <1>5, <1>9, OwnsNode
  <2>2. new \in Nodes => Reading(got, new) = {} /\ Writing(got, new) = {<<t, 2>>}
    BY <1>6, OwnsNode
  <2>3. old # new
    <3> SUFFICES ASSUME old = new PROVE FALSE
      OBVIOUS
    <3>1. <<t, 1>> \in Writing(got, old) /\ Writing(got, old) = {<<t, 2>>}
      BY <2>1, <2>2, <1>9
    <3>2. <<t, 1>> # <<t, 2>>
      OBVIOUS
    <3> QED BY <3>1, <3>2
  <2> DEFINE C == {old, new} \cap Nodes
             at == [dir |-> to.dir, name |-> to.name]
  <2>4. place' = [n \in Nodes |-> IF n = old THEN at ELSE IF n = new THEN Nowhere ELSE place[n]]
    BY <1>0, <1>2, <1>9
  <2>5. at # Nowhere /\ at \in Spots /\ at = Spot(to) /\ at.dir = to.dir
    <3>1. at.dir # Nowhere.dir
      BY <1>0, <1>6 DEF Nowhere
    <3> QED BY <3>1, <1>6 DEF Spots, Spot
  <2>6. place[old] # Nowhere /\ place[old] = Spot(from) /\ (new \in Nodes => place[new] = at)
    <3>1. place[old] = Spot(from) /\ (new \in Nodes => place[new] = Spot(to))
      BY <1>5, <1>6, <1>9
    <3>2. from.dir # None
      BY <1>0, <1>1, <1>2, <1>3, <1>4, HoldsWhole
    <3>3. Spot(from).dir # Nowhere.dir
      BY <3>2 DEF Spot, Nowhere
    <3> QED BY <3>1, <3>3, <2>5
  <2>7. \A n \in C : n \notin Above(to.dir)
    <3>1. <<t, 2>> \in GotOf(got) /\ <<t, 2>>[1] = t /\ <<t, 2>>[2] = 2
      BY <1>6 DEF GotOf
    <3>2. ASSUME NEW n \in Nodes, Reading(got, n) = {} PROVE n \notin Above(to.dir)
      BY <3>1, <3>2, <1>6 DEF Reading
    <3> QED BY <3>2, <2>1, <2>2
  <2>8. PlaceGood'
    <3>1. PICK p : p = place /\ IsTree(p) /\ p \in [Nodes -> Spots \cup {Nowhere}]
      BY <1>7
    <3>2. PICK q : q = [n \in Nodes |-> IF n \in {new} THEN Nowhere ELSE p[n]]
      OBVIOUS
    <3>3. IsTree(q)
      <4>1. IsTree(p) /\ None \notin Nodes
        BY <3>1, FusePathsAssumption
      <4>2. IsTree([n \in Nodes |-> IF n \in {new} THEN Nowhere ELSE p[n]])
        BY <4>1, TreeWithout, Zenon
      <4> QED BY <4>2, <3>2
    <3>4. \A n \in Nodes : q[n] # at
      <4> SUFFICES ASSUME NEW n \in Nodes, q[n] = at PROVE FALSE
        OBVIOUS
      <4>1. n # new /\ p[n] = at
        BY <2>5, <3>2
      <4> QED BY <4>1, <3>1, <2>5, <1>6
    <3>5. Ancestors(q, to.dir) = Ancestors(p, to.dir)
      <4>1. \A m \in Ancestors(p, to.dir) : q[m] = p[m]
        <5> SUFFICES ASSUME NEW m \in Ancestors(p, to.dir) PROVE q[m] = p[m]
          OBVIOUS
        <5>1. m \in Nodes /\ m \in Above(to.dir)
          BY <3>1, OnTheWay DEF Above
        <5>2. m # new
          BY <5>1, <2>7
        <5> QED BY <5>1, <5>2, <3>2
      <4> QED BY <4>1, SameWay
    <3>6. old \notin Ancestors(q, to.dir)
      BY <3>1, <3>5, <2>7, <1>9 DEF Above
    <3>7. PICK at1 : at1 = at /\ at1.dir = to.dir
      BY <2>5
    <3>8. IsTree([n \in Nodes |-> IF n = old THEN at1 ELSE q[n]])
      <4>1. at1 # Nowhere /\ (\A n \in Nodes : q[n] # at1) /\ old \notin Ancestors(q, at1.dir)
        BY <3>4, <3>6, <3>7, <2>5
      <4> QED BY <4>1, <3>3, <1>9, TreeMoved
    <3>9. place' = [n \in Nodes |-> IF n = old THEN at1 ELSE q[n]]
      BY <2>4, <3>1, <3>2, <3>7
    <3>10. place' \in [Nodes -> Spots \cup {Nowhere}]
      BY <2>4, <2>5, <3>1
    <3> QED BY <3>8, <3>9, <3>10 DEF PlaceGood
  <2>9. ChangedAt(place', C)
    BY <2>4 DEF ChangedAt
  <2>10. \A n \in C : Reading(got, n) = {} /\ \A u \in Threads \ {t}, i \in {1, 2} : <<u, i>> \notin Writing(got, n)
    <3> SUFFICES ASSUME NEW n \in C
                 PROVE  Reading(got, n) = {} /\ \A u \in Threads \ {t}, i \in {1, 2} : <<u, i>> \notin Writing(got, n)
      OBVIOUS
    <3>1. Reading(got, n) = {} /\ (Writing(got, n) = {<<t, 1>>} \/ Writing(got, n) = {<<t, 2>>})
      BY <2>1, <2>2
    <3> QED BY <3>1
  <2>11. \A n \in Nodes : place[n] = Nowhere => place'[n] = Nowhere
    BY <2>4, <2>6
  <2>12. \A c \in C : Unbroken(c)
    <3> SUFFICES ASSUME NEW c \in C PROVE Unbroken(c)
      OBVIOUS
    <3>1. c \in Nodes /\ place[c] # Nowhere /\ (place[c].dir = from.dir \/ place[c].dir = to.dir)
      BY <2>5, <2>6 DEF Spot
    <3>2. Unbroken(place[c].dir)
      BY <3>1, <1>5, <1>6
    <3>3. Above(c) = {c} \cup Above(place[c].dir)
      BY <3>1, OneMoreUp DEF Above
    <3> QED BY <3>1, <3>2, <3>3 DEF Unbroken
  <2>13. \A n \in C : place'[n] = Nowhere \/ \E j \in DOMAIN request[t].asks : place'[n].dir = request[t].asks[j].dir
    <3>1. place'[old] = at /\ (new \in Nodes => place'[new] = Nowhere)
      BY <2>3, <2>4, <1>9
    <3>2. at.dir = request[t].asks[2].dir
      BY <2>5, <1>1
    <3> QED BY <3>1, <3>2, <1>4
  <2>14. \A i \in {1, 2} : got[t][i].locked /\ got[t][i].wnode # None =>
          \/ place'[got[t][i].wnode] = Nowhere
          \/ \E j \in DOMAIN request[t].asks : place'[got[t][i].wnode] = Spot(request[t].asks[j])
    <3>1. place'[old] = Spot(request[t].asks[2]) /\ (new \in Nodes => place'[new] = Nowhere)
      BY <2>3, <2>4, <2>5, <1>1, <1>9
    <3> QED BY <3>1, <1>4, <1>5, <1>6
  <2> HIDE DEF C, at
  <2>15. C \in SUBSET Nodes
    BY DEF C
  <2> QED BY <2>8, <2>9, <2>10, <2>11, <2>12, <2>13, <2>14, <2>15, <1>2, <1>3, ChangeKeeps
<1> QED BY <1>5, <1>8, <1>9

\* A node is forgotten that no path goes through.
LEMMA ForgottenKeeps ==
  ASSUME PathsInv, NEW n \in Nodes, treelock[n] = 0, place' = [place EXCEPT ![n] = Nowhere], got' = got
  PROVE  /\ PlaceGood' /\ \A d : ~Unbroken(d) => ~Unbroken(d)'
         /\ \A u \in Threads, i \in {1, 2} :
              /\ got[u][i].locked /\ request'[u] = request[u] /\ (stage'[u] = "done" <=> stage[u] = "done")
                   => HeldTrue(request, u, i, got[u][i])'
              /\ ~got[u][i].locked => got[u][i] = NotLocked
<1>0. None \notin Nodes /\ None # Root
  BY FusePathsAssumption
<1>1. /\ PlaceGood /\ place \in [Nodes -> Spots \cup {Nowhere}] /\ IsTree(place)
      /\ treelock \in [Nodes -> Int] /\ TreelocksTrue(treelock, got) /\ PathsTrue(got, request)
  BY AllAsked DEF PlaceGood, PathsGood
<1>2. PICK p : p = place /\ IsTree(p) /\ p \in [Nodes -> Spots \cup {Nowhere}]
  BY <1>1
<1>3. place' = [m \in Nodes |-> IF m \in {n} THEN Nowhere ELSE p[m]]
  BY <1>2
<1>4. PlaceGood'
  <2>1. IsTree(place')
    <3>1. PICK q : q = [m \in Nodes |-> IF m \in {n} THEN Nowhere ELSE p[m]]
      OBVIOUS
    <3>2. IsTree(q)
      <4>1. IsTree(p) /\ None \notin Nodes
        BY <1>2, FusePathsAssumption
      <4>2. IsTree([m \in Nodes |-> IF m \in {n} THEN Nowhere ELSE p[m]])
        BY <4>1, TreeWithout, Zenon
      <4> QED BY <4>2, <3>1
    <3> QED BY <3>1, <3>2, <1>3
  <2>2. place' \in [Nodes -> Spots \cup {Nowhere}]
    BY <1>2, <1>3
  <2> QED BY <2>1, <2>2 DEF PlaceGood
<1>5. /\ ChangedAt(place', {n}) /\ (\A m \in Nodes : place[m] = Nowhere => place'[m] = Nowhere)
      /\ place'[n] = Nowhere /\ {n} \in SUBSET Nodes
  BY <1>2, <1>3 DEF ChangedAt
<1>6. \A d : ~Unbroken(d) => ~Unbroken(d)'
  <2>1. \A c \in {n} : place'[c] = Nowhere
    BY <1>5
  <2> QED BY <2>1, <1>5, BrokenStays
<1>7. Reading(got, n) = {} /\ Writing(got, n) = {}
  <2>1. PICK g : g = got /\ TreelocksTrue(treelock, g)
    BY <1>1
  <2> QED BY <2>1, <1>1, LockSays
<1>8. ASSUME NEW u \in Threads, NEW i \in {1, 2}, got[u][i].locked, request'[u] = request[u],
             stage'[u] = "done" <=> stage[u] = "done"
      PROVE  HeldTrue(request, u, i, got[u][i])'
  <2>1. \A c \in {n} : <<u, i>> \notin Reading(got, c) /\ <<u, i>> \notin Writing(got, c)
    BY <1>7
  <2>2. request[u].asks[i].write => \A c \in {n} : place'[c] # Spot(request[u].asks[i])
    <3>1. HeldTrue(request, u, i, got[u][i])
      BY <1>1, <1>8 DEF PathsTrue
    <3>2. request[u].asks[i].dir # None
      <4>1. AsksGood(request)
        BY AllAsked
      <4> QED BY <3>1, <4>1, <1>0 DEF HeldTrue, AsksGood, AskGood, Asks
    <3>3. Spot(request[u].asks[i]).dir # Nowhere.dir
      BY <3>2 DEF Spot, Nowhere
    <3> QED BY <3>3, <1>5
  <2> QED BY <2>1, <2>2, <1>4, <1>5, <1>8, PathKept
<1> QED BY <1>1, <1>4, <1>6, <1>8 DEF PathsTrue

LEMMA ForgetNodeKeeps ==
  ASSUME PathsInv, NEW t \in Threads, NEW r \in Requests, ForgetNode(t, r)
  PROVE  PathsInv'
<1>1. PICK n : n = r.asks[1].dir
  OBVIOUS
<1>2. /\ stage[t] = "idle" /\ r.kind = "forget" /\ Sends(r) /\ treelock' = treelock /\ got' = got
      /\ IF treelock[n] = 0
         THEN place' = [place EXCEPT ![n] = Nowhere] /\ UNCHANGED <<lockq, request, stage, verdict>>
         ELSE /\ lockq' = Append(lockq, t) /\ request' = [request EXCEPT ![t] = r]
              /\ stage' = [stage EXCEPT ![t] = "wait"] /\ verdict' = [verdict EXCEPT ![t] = "again"]
              /\ UNCHANGED place
  BY <1>1 DEF ForgetNode
<1>3. n \in Nodes
  BY <1>1, <1>2, Asked
<1>4. PathsTypes /\ \A u \in Threads : StageTrue(u)
  BY DEF PathsInv
<1>5. TreelocksTrue(treelock, got)'
  BY <1>2, SMTT(40) DEF PathsInv, TreelocksTrue, Reading, Writing, GotOf
<1>6. CASE treelock[n] = 0
  <2>1. /\ place' = [place EXCEPT ![n] = Nowhere] /\ lockq' = lockq /\ request' = request /\ stage' = stage
        /\ verdict' = verdict
    BY <1>2, <1>6
  <2>2. /\ PlaceGood' /\ \A d : ~Unbroken(d) => ~Unbroken(d)'
        /\ \A u \in Threads, i \in {1, 2} : /\ got[u][i].locked => HeldTrue(request, u, i, got[u][i])'
                                            /\ ~got[u][i].locked => got[u][i] = NotLocked
    BY <1>2, <1>3, <1>6, <2>1, ForgottenKeeps
  <2>3. PathsTrue(got, request)'
    BY <2>2, <1>2 DEF PathsTrue
  <2>4. PathsTypes' /\ IsTree(place)'
    BY <2>1, <2>2, <1>2, <1>4 DEF PathsTypes, PlaceGood
  <2>5. QueueTrue' /\ MutexTrue'
    BY <2>1 DEF PathsInv, QueueTrue, MutexTrue
  <2>6. \A u \in Threads : StageTrue(u)'
    BY <2>1, <2>2, <1>2, <1>4, StageKept
  <2> QED BY <2>3, <2>4, <2>5, <2>6, <1>5 DEF PathsInv
<1>7. CASE treelock[n] # 0
  <2>1. /\ lockq' = Append(lockq, t) /\ request' = [request EXCEPT ![t] = r] /\ place' = place
        /\ stage' = [stage EXCEPT ![t] = "wait"] /\ verdict' = [verdict EXCEPT ![t] = "again"]
    BY <1>2, <1>7
  <2>2. \A u \in Threads : /\ stage'[u] = IF u = t THEN "wait" ELSE stage[u]
                           /\ request'[u] = IF u = t THEN r ELSE request[u]
                           /\ verdict'[u] = IF u = t THEN "again" ELSE verdict[u]
    BY <2>1, <1>4 DEF PathsTypes
  <2>3. lockq' \in Seq(Threads) /\ QueueTrue'
    BY <2>1, <1>2, QueueWith
  <2>4. PathsTypes'
    BY <2>1, <2>3, <1>2, <1>4 DEF PathsTypes
  <2>5. IsTree(place)' /\ \A d : ~Unbroken(d) => ~Unbroken(d)'
    BY <2>1, PlaceStill
  <2>6. Nothing(got, t)
    BY <1>2, <1>4 DEF StageTrue
  <2>7. PathsTrue(got, request)'
    <3>1. PICK q, g : q = request /\ g = got /\ PathsTrue(g, q)
      BY DEF PathsInv
    <3>2. \A u \in Threads : \/ Nothing(g, u)
                             \/ request'[u] = q[u] /\ (stage'[u] = "done" <=> stage[u] = "done")
      BY <2>2, <2>6, <3>1
    <3>3. got' = g /\ place' = place
      BY <2>1, <1>2, <3>1
    <3> QED BY <3>1, <3>2, <3>3, PathsStill
  <2>8. MutexTrue'
    BY <2>1, <1>2, MutexKept
  <2>9. ASSUME NEW u \in Threads PROVE StageTrue(u)'
    <3>1. CASE u = t
      <4>1. stage'[u] = "wait" /\ request'[u] = r /\ verdict'[u] = "again" /\ Nothing(got, u)' /\ r # Idle
        <5>1. r # Idle
          BY <1>2 DEF Idle
        <5> QED BY <3>1, <5>1, <2>2, <2>6, <1>2 DEF Nothing
      <4>2. VerdictTrue(got, request, verdict, u)'
        BY <4>1 DEF VerdictTrue
      <4> QED BY <4>1, <4>2 DEF StageTrue
    <3>2. CASE u # t
      <4>1. /\ StageTrue(u) /\ stage'[u] = stage[u] /\ request'[u] = request[u] /\ got'[u] = got[u]
            /\ verdict'[u] = verdict[u]
        BY <3>2, <2>2, <1>2, <1>4
      <4> QED BY <4>1, <2>5, StageKept
    <3> QED BY <3>1, <3>2
  <2> QED BY <2>3, <2>4, <2>5, <2>7, <2>8, <2>9, <1>5 DEF PathsInv
<1> QED BY <1>6, <1>7

LEMMA ForgetWokenKeeps ==
  ASSUME PathsInv, NEW t \in Threads, ForgetWoken(t)
  PROVE  PathsInv'
<1>1. PICK n : n = request[t].asks[1].dir
  OBVIOUS
<1>2. /\ stage[t] = "wait" /\ request[t].kind = "forget" /\ treelock' = treelock /\ got' = got
      /\ IF treelock[n] = 0
         THEN /\ place' = [place EXCEPT ![n] = Nowhere]
              /\ lockq' = Dequeued(t)
              /\ Done(t) /\ UNCHANGED verdict
         ELSE /\ verdict' = [verdict EXCEPT ![t] = "again"]
              /\ UNCHANGED <<place, lockq, request, stage>>
  BY <1>1 DEF ForgetWoken
<1>3. n \in Nodes
  <2>1. PICK r \in Requests \cup {Idle} : r = request[t]
    BY AllAsked
  <2> QED BY <2>1, <1>1, <1>2, Asked
<1>4. PathsTypes /\ \A u \in Threads : StageTrue(u)
  BY DEF PathsInv
<1>5. TreelocksTrue(treelock, got)'
  BY <1>2, SMTT(40) DEF PathsInv, TreelocksTrue, Reading, Writing, GotOf
<1>6. Nothing(got, t)
  BY <1>2, <1>4 DEF StageTrue, VerdictTrue
<1>7. CASE treelock[n] = 0
  <2>1. /\ place' = [place EXCEPT ![n] = Nowhere] /\ lockq' = Dequeued(t) /\ verdict' = verdict
        /\ stage' = [stage EXCEPT ![t] = "idle"] /\ request' = [request EXCEPT ![t] = Idle]
    BY <1>2, <1>7 DEF Done
  <2>2. \A u \in Threads : /\ stage'[u] = IF u = t THEN "idle" ELSE stage[u]
                           /\ request'[u] = IF u = t THEN Idle ELSE request[u]
    BY <2>1, <1>4 DEF PathsTypes
  <2>3. lockq' \in Seq(Threads) /\ QueueTrue'
    BY <2>1, <1>2, QueueWithout
  <2>4. /\ PlaceGood' /\ \A d : ~Unbroken(d) => ~Unbroken(d)'
        /\ \A u \in Threads, i \in {1, 2} :
             /\ got[u][i].locked /\ request'[u] = request[u] /\ (stage'[u] = "done" <=> stage[u] = "done")
                  => HeldTrue(request, u, i, got[u][i])'
             /\ ~got[u][i].locked => got[u][i] = NotLocked
    BY <1>2, <1>3, <1>7, <2>1, ForgottenKeeps
  <2>5. PathsTrue(got, request)'
    <3>1. ASSUME NEW u \in Threads, NEW i \in {1, 2}, got[u][i].locked PROVE HeldTrue(request, u, i, got[u][i])'
      <4>1. u # t
        BY <3>1, <1>6 DEF Nothing
      <4>2. request'[u] = request[u] /\ (stage'[u] = "done" <=> stage[u] = "done")
        BY <4>1, <2>2
      <4> QED BY <3>1, <4>2, <2>4
    <3>2. \A u \in Threads, i \in {1, 2} : ~got[u][i].locked => got[u][i] = NotLocked
      BY <2>4
    <3>3. \A u \in Threads, i \in {1, 2} : got[u][i].locked => HeldTrue(request, u, i, got[u][i])'
      BY <3>1
    <3> QED BY <3>2, <3>3, <1>2 DEF PathsTrue
  <2>6. PathsTypes' /\ IsTree(place)'
    BY <2>1, <2>3, <2>4, <1>2, <1>4 DEF PathsTypes, PlaceGood
  <2>7. MutexTrue'
    <3>1. ~Changes(Idle)
      BY DEF Changes, Idle
    <3> QED BY <2>2, <3>1 DEF PathsInv, MutexTrue, Changes
  <2>8. ASSUME NEW u \in Threads PROVE StageTrue(u)'
    <3>1. CASE u = t
      <4>1. stage'[u] = "idle" /\ request'[u] = Idle /\ Nothing(got, u)'
        BY <3>1, <2>2, <1>2, <1>6 DEF Nothing
      <4> QED BY <4>1 DEF StageTrue
    <3>2. CASE u # t
      <4>1. /\ StageTrue(u) /\ stage'[u] = stage[u] /\ request'[u] = request[u] /\ got'[u] = got[u]
            /\ verdict'[u] = verdict[u]
        BY <3>2, <2>1, <2>2, <1>2, <1>4
      <4> QED BY <4>1, <2>4, StageKept
    <3> QED BY <3>1, <3>2
  <2> QED BY <2>3, <2>5, <2>6, <2>7, <2>8, <1>5 DEF PathsInv
<1>8. CASE treelock[n] # 0
  <2>1. /\ verdict' = [verdict EXCEPT ![t] = "again"] /\ place' = place /\ lockq' = lockq /\ request' = request
        /\ stage' = stage
    BY <1>2, <1>8
  <2>2. \A u \in Threads : verdict'[u] = IF u = t THEN "again" ELSE verdict[u]
    BY <2>1, <1>4 DEF PathsTypes
  <2>3. PathsTypes'
    BY <2>1, <1>2, <1>4 DEF PathsTypes
  <2>4. IsTree(place)' /\ \A d : ~Unbroken(d) => ~Unbroken(d)'
    BY <2>1, PlaceStill
  <2>5. PathsTrue(got, request)'
    <3>1. PICK q, g : q = request /\ g = got /\ PathsTrue(g, q)
      BY DEF PathsInv
    <3>2. \A u \in Threads : request'[u] = q[u] /\ (stage'[u] = "done" <=> stage[u] = "done")
      BY <2>1, <3>1
    <3> QED BY <2>1, <1>2, <3>1, <3>2, PathsStill
  <2>6. QueueTrue' /\ MutexTrue'
    BY <2>1 DEF PathsInv, QueueTrue, MutexTrue
  <2>7. ASSUME NEW u \in Threads PROVE StageTrue(u)'
    <3>1. CASE u = t
      <4>1. /\ stage'[u] = "wait" /\ request'[u] = request[u] /\ verdict'[u] = "again" /\ Nothing(got, u)'
            /\ request[u] # Idle
        BY <3>1, <2>1, <2>2, <1>2, <1>4, <1>6 DEF Nothing, StageTrue
      <4>2. VerdictTrue(got, request, verdict, u)'
        BY <4>1 DEF VerdictTrue
      <4> QED BY <4>1, <4>2 DEF StageTrue
    <3>2. CASE u # t
      <4>1. /\ StageTrue(u) /\ stage'[u] = stage[u] /\ request'[u] = request[u] /\ got'[u] = got[u]
            /\ verdict'[u] = verdict[u]
        BY <3>2, <2>1, <2>2, <1>2, <1>4
      <4> QED BY <4>1, <2>4, StageKept
    <3> QED BY <3>1, <3>2
  <2> QED BY <2>3, <2>4, <2>5, <2>6, <2>7, <1>5 DEF PathsInv
<1> QED BY <1>7, <1>8

LEMMA PathsAtFirst ==
  ASSUME Init
  PROVE  PathsInv
<1>1. /\ place = Places /\ treelock = [n \in Nodes |-> 0] /\ lockq = <<>>
      /\ request = [t \in Threads |-> Idle] /\ stage = [t \in Threads |-> "idle"]
      /\ got = [t \in Threads |-> Both(NotLocked, NotLocked)] /\ verdict = [t \in Threads |-> "again"]
  BY DEF Init
<1>2. Places \in [Nodes -> Spots \cup {Nowhere}] /\ IsTree(Places)
  BY FusePathsAssumption
<1>3. /\ Both(NotLocked, NotLocked) \in [{1, 2} -> PathRecs]
      /\ \A i \in {1, 2} : Both(NotLocked, NotLocked)[i] = NotLocked
  BY NoPath DEF Both
<1>4. \A t \in Threads, i \in {1, 2} : got[t][i] = NotLocked /\ ~got[t][i].locked
  BY <1>1, <1>3, NoPath
<1>5. PathsTypes
  <2>1. got \in [Threads -> [{1, 2} -> PathRecs]]
    BY <1>1, <1>3
  <2>2. lockq \in Seq(Threads)
    BY <1>1
  <2>3. /\ place \in [Nodes -> Spots \cup {Nowhere}] /\ treelock \in [Nodes -> Int]
        /\ request \in [Threads -> Requests \cup {Idle}]
        /\ stage \in [Threads -> {"idle", "wait", "held", "done", "replied", "failed"}]
        /\ verdict \in [Threads -> {"again", "ok", "noent"}]
    BY <1>1, <1>2
  <2> QED BY <2>1, <2>2, <2>3 DEF PathsTypes
<1>6. PathsTrue(got, request)
  BY <1>4 DEF PathsTrue
<1>7. TreelocksTrue(treelock, got)
  <2> SUFFICES ASSUME NEW n \in Nodes
               PROVE  Writing(got, n) = {} /\ treelock[n] = Cardinality(Reading(got, n))
    BY DEF TreelocksTrue
  <2>1. GotOf(got) = {}
    BY <1>4 DEF GotOf
  <2>2. Reading(got, n) = {} /\ Writing(got, n) = {}
    BY <2>1 DEF Reading, Writing
  <2>3. treelock[n] = 0
    BY <1>1
  <2> QED BY <2>2, <2>3, FS_EmptySet
<1>8. QueueTrue
  BY <1>1 DEF QueueTrue
<1>9. MutexTrue
  BY <1>1 DEF MutexTrue, Changes, Idle
<1>10. \A t \in Threads : StageTrue(t)
  BY <1>1, <1>4 DEF StageTrue, Nothing
<1> QED BY <1>1, <1>2, <1>5, <1>6, <1>7, <1>8, <1>9, <1>10 DEF PathsInv

LEMMA PathsKept ==
  ASSUME PathsInv, [Next]_vars
  PROVE  PathsInv'
<1>1. ASSUME NEW t \in Threads, Step(t) PROVE PathsInv'
  BY <1>1, WaitPathKeeps, ReplyErrorKeeps, RemoveNodeKeeps, RenameNodeKeeps, ReplyOpenKeeps, FreePathKeeps,
     ForgetWokenKeeps DEF Step
<1>2. ASSUME NEW t \in Threads, NEW r \in Requests, GetPath(t, r) \/ ForgetNode(t, r) PROVE PathsInv'
  BY <1>2, GetPathKeeps, ForgetNodeKeeps
<1>3. ASSUME UNCHANGED vars PROVE PathsInv'
  <2>1. /\ place' = place /\ treelock' = treelock /\ lockq' = lockq /\ request' = request /\ stage' = stage
        /\ got' = got /\ verdict' = verdict
    BY <1>3 DEF vars
  <2>2. PathsTrue(got, request)'
    <3>1. PICK q, g : q = request /\ g = got /\ PathsTrue(g, q)
      BY DEF PathsInv
    <3>2. \A u \in Threads : request'[u] = q[u] /\ (stage'[u] = "done" <=> stage[u] = "done")
      BY <2>1, <3>1
    <3> QED BY <2>1, <3>1, <3>2, PathsStill
  <2>3. IsTree(place)' /\ \A d : ~Unbroken(d) => ~Unbroken(d)'
    BY <2>1, PlaceStill
  <2>4. PathsTypes'
    BY <2>1 DEF PathsInv, PathsTypes
  <2>5. TreelocksTrue(treelock, got)'
    BY <2>1, SMTT(40) DEF PathsInv, TreelocksTrue, Reading, Writing, GotOf
  <2>6. QueueTrue' /\ MutexTrue'
    BY <2>1 DEF PathsInv, QueueTrue, MutexTrue
  <2>7. \A u \in Threads : StageTrue(u)'
    <3> TAKE u \in Threads
    <3>1. StageTrue(u)
      BY DEF PathsInv
    <3> QED BY <2>1, <2>3, <3>1, StageKept
  <2> QED BY <2>2, <2>3, <2>4, <2>5, <2>6, <2>7 DEF PathsInv
<1> QED BY <1>1, <1>2, <1>3 DEF Next

LEMMA PathsInvSound ==
  ASSUME PathsInv
  PROVE  PathsSound
<1>1. /\ PathsTypes /\ PathsTrue(got, request) /\ TreelocksTrue(treelock, got)
      /\ \A t \in Threads : request[t] \in Requests \cup {Idle}
  BY AllAsked DEF PathsInv
<1>2. PathsHold
  <2> SUFFICES ASSUME NEW x \in Holding
               PROVE  /\ Trail(Ask(x).dir) = Path(x).chain
                      /\ (Ask(x).write /\ stage[x[1]] # "done") => Lookup(Ask(x).dir, Ask(x).name) = Path(x).wnode
    BY DEF PathsHold
  <2>1. PICK t \in Threads, i \in {1, 2} : x[1] = t /\ x[2] = i /\ got[t][i].locked
    BY DEF Holding
  <2>2. HeldTrue(request, t, i, got[t][i])
    BY <2>1, <1>1 DEF PathsTrue
  <2> QED BY <2>1, <2>2 DEF HeldTrue, Ask, Path
<1>3. LocksExact
  <2> SUFFICES ASSUME NEW n \in Nodes
               PROVE  \/ Writers(n) = 1 /\ Readers(n) = 0 /\ treelock[n] = Write
                      \/ Writers(n) = 0 /\ treelock[n] = Readers(n)
                      \/ Writers(n) = 0 /\ Readers(n) > 0 /\ treelock[n] = Readers(n) + WaitOffset
    BY DEF LocksExact
  <2>1. Writers(n) = Cardinality(Writing(got, n)) /\ Readers(n) = Cardinality(Reading(got, n))
    BY DEF Writers, Readers, Writing, Reading, Holding, GotOf, Path
  <2>2. Cardinality({}) = 0
    BY FS_EmptySet
  <2>3. Reading(got, n) # {} => Cardinality(Reading(got, n)) > 0
    <3>1. PICK g : g = got
      OBVIOUS
    <3>2. IsFiniteSet(Reading(g, n)) /\ Cardinality(Reading(g, n)) \in Nat
      BY GotPairs, PairsCounted
    <3>3. Reading(g, n) # {} => Cardinality(Reading(g, n)) # 0
      BY <3>2, FS_EmptySet
    <3> QED BY <3>1, <3>2, <3>3
  <2> QED BY <1>1, <2>1, <2>2, <2>3 DEF TreelocksTrue
<1> QED BY <1>2, <1>3 DEF PathsSound

-----------------------------------------------------------------------------
(***************************************************************************)
(* The path locks of libfuse keep what they promise, in any tree and for   *)
(* any number of threads and requests: while the file system works on a    *)
(* path that get_path, get_path_wrlock or get_path2 gave it, every node on *)
(* the way stays where it was and what is locked for writing is still what *)
(* the entry names, whatever remove_node, rename_node and forget_node do   *)
(* meanwhile; and treelock of each node counts exactly the paths that      *)
(* try_get_path, wake_up_queued, unlock_path and unlock_path2 have left on *)
(* it, with TREELOCK_WAIT_OFFSET only as long as there are readers.        *)
(***************************************************************************)
THEOREM PathsStaySound == Spec => []PathsSound
<1>1. Init => PathsInv
  BY PathsAtFirst
<1>2. PathsInv /\ [Next]_vars => PathsInv'
  BY PathsKept
<1>3. PathsInv => PathsSound
  BY PathsInvSound
<1> QED BY <1>1, <1>2, <1>3, PTL DEF Spec
=============================================================================
