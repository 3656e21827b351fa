--------------------------- MODULE FusePartsProofs ---------------------------
(***************************************************************************)
(* Proofs about the parts that stand for themselves: the lock manager, for *)
(* any number of threads, owners and files, and the copying of buffers,    *)
(* for any buffers.                                                        *)
(***************************************************************************)
EXTENDS Ulockmgr, FuseBuffers, FiniteSetTheorems, SequenceTheorems, WellFoundedInduction, TLAPS

-----------------------------------------------------------------------------
(***************************************************************************)
(*                            The lock manager.                            *)
(***************************************************************************)
-----------------------------------------------------------------------------
(***************************************************************************)
(* The types.                                                              *)
(***************************************************************************)
LockTypes == {"none", "read", "write"}
Outside == {"sent", "wait", "back"}
Counts == [Fds -> Int]
CallType == [at : {"idle", "want"} \cup Outside, cmd : {"none", "getlk", "setlk", "setlkw"}, type : LockTypes,
             fd : Fds \cup {"none"}, all : BOOLEAN, nofd : BOOLEAN]
OwnerType == [up : BOOLEAN, alive : BOOLEAN, fds : Counts]
Message == [from : Callers, intr : BOOLEAN]
Results == {"ok", "EAGAIN", "EIO", "ENOLCK", "EINTR", "EDEADLK"}
Jobs == {"none", "try", "told", "block", "ok", "EINTR", "EDEADLK"}

UlockTypeOK ==
  /\ caller \in [Callers -> CallType] /\ mutex \in Callers \cup {"free"}
  /\ owner \in [LockOwners -> OwnerType] /\ server \in [LockOwners -> Counts]
  /\ chan \in [LockOwners -> Seq(Message)] /\ told \in [Callers -> Seq(Results)]
  /\ job \in [Callers -> Jobs] /\ posix \in [LockOwners -> [LockedFiles -> LockTypes]]

(* What a caller may ask for.                                              *)
Proper(t) ==
  caller[t].at # "idle" => /\ caller[t].fd \in Fds
                           /\ caller[t].all => caller[t].cmd = "setlk"
-----------------------------------------------------------------------------
(***************************************************************************)
(* A call: where its request is, or its replies. The process answers once, *)
(* or tells first that the caller has to wait.                             *)
(***************************************************************************)
IsRequest(o, i) == i \in DOMAIN chan[o] /\ chan[o][i].intr = FALSE
Asked(t) == \E i \in DOMAIN chan[OwnerOf[t]] : IsRequest(OwnerOf[t], i) /\ chan[OwnerOf[t]][i].from = t
Waits(t) == caller[t].cmd = "setlkw"
InLock == {"told", "block", "ok", "EINTR", "EDEADLK"}

Sent(t) ==
  \/ Asked(t) /\ told[t] = <<>> /\ job[t] = "none"
  \/ ~Asked(t) /\ Waits(t) /\ told[t] = <<>> /\ job[t] \in {"try", "ok"}
  \/ ~Asked(t) /\ Waits(t) /\ told[t] = <<"EAGAIN">> /\ job[t] \in InLock
  \/ ~Asked(t) /\ Waits(t) /\ Len(told[t]) = 2 /\ told[t][1] = "EAGAIN" /\ job[t] = "none"
  \/ ~Asked(t) /\ Len(told[t]) = 1 /\ (Waits(t) => told[t][1] # "EAGAIN") /\ job[t] = "none"
InWait(t) ==
  /\ ~Asked(t) /\ Waits(t)
  /\ \/ told[t] = <<>> /\ job[t] \in InLock
     \/ Len(told[t]) = 1 /\ job[t] = "none"
Quiet(t) == ~Asked(t) /\ told[t] = <<>> /\ job[t] = "none"

CallInv(t) ==
  /\ Proper(t)
  /\ caller[t].at \in {"idle", "want"} => Quiet(t)
  /\ caller[t].at = "sent" => Sent(t)
  /\ caller[t].at = "wait" => InWait(t)
  /\ caller[t].at = "back" => Quiet(t) /\ Waits(t)
  /\ caller[t].at = "sent" <=> mutex = t

(* There is no more than one request in a channel.                         *)
ChanInv(o) ==
  /\ \A i \in DOMAIN chan[o] : OwnerOf[chan[o][i].from] = o
  /\ \A i, j \in DOMAIN chan[o] : IsRequest(o, i) /\ IsRequest(o, j) => i = j
-----------------------------------------------------------------------------
(***************************************************************************)
(* inuse counts the callers, or the threads, that use a file.              *)
(***************************************************************************)
Uses(t, o, fd) == OwnerOf[t] = o /\ caller[t].at \in Outside /\ ~caller[t].all /\ caller[t].fd = fd
Works(t, o, fd) == OwnerOf[t] = o /\ job[t] # "none" /\ caller[t].fd = fd
Users(o, fd) == {t \in Callers : Uses(t, o, fd)}
Workers(o, fd) == {t \in Callers : Works(t, o, fd)}

Counted(n, S) == n = Cardinality(S) \/ (n = Missing /\ S = {})
OwnerInv(o) ==
  /\ \A fd \in Fds : Counted(owner[o].fds[fd], Users(o, fd))
  /\ ~owner[o].up => owner[o].fds = NoFds
  /\ \A t \in Callers : OwnerOf[t] = o /\ caller[t].at \in Outside => owner[o].up

(* What the process knows, the library knows that it knows; a process has  *)
(* locks on the files it knows, and no others.                             *)
ServerInv(o) ==
  /\ \A fd \in Fds : Counted(server[o][fd], Workers(o, fd))
  /\ \A fd \in Fds : server[o][fd] # Missing => owner[o].fds[fd] # Missing
  /\ \A t \in Callers : OwnerOf[t] = o /\ caller[t].at = "sent" /\ caller[t].all /\ told[t] # <<>>
                        /\ owner[o].fds[caller[t].fd] = 0 => server[o][caller[t].fd] = Missing
  /\ \A f \in LockedFiles : posix[o][f] # "none" => \E fd \in Fds : FileOf[fd] = f /\ server[o][fd] # Missing

UlockInv ==
  /\ UlockTypeOK
  /\ \A t \in Callers : CallInv(t)
  /\ \A o \in LockOwners : ChanInv(o) /\ OwnerInv(o) /\ ServerInv(o)
-----------------------------------------------------------------------------
(***************************************************************************)
(* Counting.                                                               *)
(***************************************************************************)
LEMMA OwnersAre ==
  ASSUME NEW t \in Callers
  PROVE  OwnerOf[t] \in LockOwners
BY UlockmgrAssumption DEF LockOwners

LEMMA UsersFinite ==
  \A o, fd : IsFiniteSet(Users(o, fd)) /\ IsFiniteSet(Workers(o, fd))
BY UlockmgrAssumption, FS_Subset DEF Users, Workers

LEMMA CountedRange ==
  ASSUME NEW n, NEW S, IsFiniteSet(S), Counted(n, S)
  PROVE  /\ n \in Int /\ n >= Missing
         /\ n \in {0, Missing} => S = {}
         /\ S # {} => n > 0
BY FS_CardinalityType, FS_EmptySet DEF Counted, Missing

LEMMA CountMore ==
  ASSUME NEW n, NEW S, IsFiniteSet(S), Counted(n, S), NEW t, t \notin S
  PROVE  Counted(IF n = Missing THEN 1 ELSE n + 1, S \cup {t})
<1>1. Cardinality(S) \in Nat /\ Cardinality(S \cup {t}) = Cardinality(S) + 1
  BY FS_CardinalityType, FS_AddElement
<1>2. S = {} => Cardinality(S) = 0
  BY FS_EmptySet
<1> QED
  BY <1>1, <1>2 DEF Counted, Missing

LEMMA CountLess ==
  ASSUME NEW n, NEW S, IsFiniteSet(S), Counted(n, S), NEW t \in S
  PROVE  Counted(n - 1, S \ {t})
<1>1. Cardinality(S) \in Nat /\ Cardinality(S \ {t}) = Cardinality(S) - 1
  BY FS_CardinalityType, FS_RemoveElement
<1> QED
  BY <1>1 DEF Counted

LEMMA CountNone ==
  ASSUME NEW S, Counted(0, S), IsFiniteSet(S)
  PROVE  Counted(Missing, S)
BY CountedRange DEF Counted
-----------------------------------------------------------------------------
(***************************************************************************)
(* A channel is read, or written to, or given up.                          *)
(***************************************************************************)
ChanType == chan \in [LockOwners -> Seq(Message)]

LEMMA PutAt ==
  ASSUME ChanType, NEW o \in LockOwners, NEW m \in Message, OwnerOf[m.from] = o, \A p \in LockOwners : ChanInv(p),
         chan' = [chan EXCEPT ![o] = Append(@, m)],
         m.intr = FALSE => \A i : ~IsRequest(o, i)
  PROVE  /\ ChanType' /\ \A p \in LockOwners : ChanInv(p)'
         /\ \A t \in Callers : Asked(t)' <=> Asked(t) \/ (m.from = t /\ m.intr = FALSE)
<1> DEFINE c == chan[o]
<1>1. c \in Seq(Message) /\ chan' \in [LockOwners -> Seq(Message)]
  BY DEF ChanType
<1>2. /\ DOMAIN chan'[o] = 1..(Len(c) + 1) /\ chan'[o][Len(c) + 1] = m
      /\ DOMAIN c = 1..Len(c) /\ Len(c) \in Nat
      /\ \A i \in 1..Len(c) : chan'[o][i] = c[i]
  BY <1>1 DEF ChanType
<1>3. \A p \in LockOwners : p # o => chan'[p] = chan[p]
  BY DEF ChanType
<1>4. \A i : IsRequest(o, i)' <=> IsRequest(o, i) \/ (i = Len(c) + 1 /\ m.intr = FALSE)
  BY <1>2 DEF IsRequest
<1>5. \A p \in LockOwners : p # o => \A i : IsRequest(p, i)' <=> IsRequest(p, i)
  BY <1>3 DEF IsRequest
<1>6. ChanInv(o)'
  <2>1. ChanInv(o)
    OBVIOUS
  <2>2. \A i \in DOMAIN chan'[o] : OwnerOf[chan'[o][i].from] = o
    BY <1>2, <2>1 DEF ChanInv
  <2>3. \A i, j \in DOMAIN chan'[o] : IsRequest(o, i)' /\ IsRequest(o, j)' => i = j
    BY <1>2, <1>4, <2>1 DEF ChanInv, IsRequest
  <2> QED
    BY <2>2, <2>3 DEF ChanInv
<1>7. \A p \in LockOwners : p # o => ChanInv(p)'
  BY <1>3, <1>5 DEF ChanInv
<1>8. ASSUME NEW t \in Callers
      PROVE  Asked(t)' <=> Asked(t) \/ (m.from = t /\ m.intr = FALSE)
  <2>1. CASE OwnerOf[t] = o
    <3>1. Asked(t)' <=> \E i \in DOMAIN chan'[o] : IsRequest(o, i)' /\ chan'[o][i].from = t
      BY <2>1 DEF Asked
    <3>2. Asked(t) <=> \E i \in DOMAIN chan[o] : IsRequest(o, i) /\ chan[o][i].from = t
      BY <2>1 DEF Asked
    <3> QED
      BY <1>2, <1>4, <3>1, <3>2 DEF IsRequest
  <2>2. CASE OwnerOf[t] # o
    BY <1>3, <1>5, <2>2, OwnersAre DEF Asked
  <2> QED
    BY <2>1, <2>2
<1> QED
  BY <1>1, <1>6, <1>7, <1>8 DEF ChanType

LEMMA Received ==
  ASSUME ChanType, NEW o \in LockOwners, \A p \in LockOwners : ChanInv(p), chan[o] # <<>>,
         chan' = [chan EXCEPT ![o] = Tail(@)]
  PROVE  /\ ChanType' /\ \A p \in LockOwners : ChanInv(p)'
         /\ Head(chan[o]) \in Message /\ OwnerOf[Head(chan[o]).from] = o
         /\ Head(chan[o]).intr = FALSE => Asked(Head(chan[o]).from)
         /\ \A t \in Callers : Asked(t)' <=> Asked(t) /\ ~(Head(chan[o]) = [from |-> t, intr |-> FALSE])
<1> DEFINE c == chan[o]
<1>1. c \in Seq(Message) /\ chan' \in [LockOwners -> Seq(Message)]
  BY DEF ChanType
<1>2. /\ Len(c) \in Nat /\ Len(c) > 0 /\ DOMAIN chan'[o] = 1..(Len(c) - 1)
      /\ DOMAIN c = 1..Len(c) /\ Head(c) = c[1] /\ c[1] \in Message
      /\ \A i \in 1..(Len(c) - 1) : chan'[o][i] = c[i + 1]
  BY <1>1 DEF ChanType
<1>3. \A p \in LockOwners : p # o => chan'[p] = chan[p]
  BY DEF ChanType
<1>4. \A i : IsRequest(o, i)' <=> i \in 1..(Len(c) - 1) /\ IsRequest(o, i + 1)
  BY <1>2 DEF IsRequest
<1>5. \A p \in LockOwners : p # o => \A i : IsRequest(p, i)' <=> IsRequest(p, i)
  BY <1>3 DEF IsRequest
<1>6. ChanInv(o)'
  <2>1. ChanInv(o)
    OBVIOUS
  <2>2. \A i \in DOMAIN chan'[o] : OwnerOf[chan'[o][i].from] = o
    BY <1>2, <2>1 DEF ChanInv
  <2>3. \A i, j \in DOMAIN chan'[o] : IsRequest(o, i)' /\ IsRequest(o, j)' => i = j
    BY <1>2, <1>4, <2>1 DEF ChanInv, IsRequest
  <2> QED
    BY <2>2, <2>3 DEF ChanInv
<1>7. \A p \in LockOwners : p # o => ChanInv(p)'
  BY <1>3, <1>5 DEF ChanInv
<1>8. Head(c) \in Message /\ OwnerOf[Head(c).from] = o
  BY <1>2 DEF ChanInv
<1>9. Head(c).intr = FALSE => Asked(Head(c).from)
  BY <1>2, <1>8 DEF Asked, IsRequest
<1>10. ASSUME NEW t \in Callers
       PROVE  Asked(t)' <=> Asked(t) /\ ~(Head(c) = [from |-> t, intr |-> FALSE])
  <2>1. CASE OwnerOf[t] = o
    <3>1. Asked(t)' <=> \E i \in 1..(Len(c) - 1) : IsRequest(o, i + 1) /\ c[i + 1].from = t
      BY <1>2, <1>4, <2>1 DEF Asked
    <3>2. Asked(t) <=> \E i \in 1..Len(c) : IsRequest(o, i) /\ c[i].from = t
      BY <1>2, <2>1 DEF Asked, IsRequest
    <3>3. Head(c) = [from |-> t, intr |-> FALSE] <=> IsRequest(o, 1) /\ c[1].from = t
      <4>1. c[1] = [from |-> c[1].from, intr |-> c[1].intr]
        BY <1>2 DEF Message
      <4>2. 1 \in DOMAIN c
        BY <1>2
      <4>3. IsRequest(o, 1) <=> c[1].intr = FALSE
        BY <4>2 DEF IsRequest
      <4>4. c[1] = [from |-> t, intr |-> FALSE] <=> c[1].from = t /\ c[1].intr = FALSE
        <5>1. ASSUME c[1] = [from |-> t, intr |-> FALSE] PROVE c[1].from = t /\ c[1].intr = FALSE
          BY <5>1, SMT
        <5>2. ASSUME c[1].from = t, c[1].intr = FALSE PROVE c[1] = [from |-> t, intr |-> FALSE]
          BY <4>1, <5>2, Zenon
        <5> QED
          BY <5>1, <5>2
      <4> QED
        BY <1>2, <4>3, <4>4
    <3>4. Asked(t)' => \E j \in 2..Len(c) : IsRequest(o, j) /\ c[j].from = t
      BY <1>2, <3>1
    <3>5. Asked(t) <=> (IsRequest(o, 1) /\ c[1].from = t) \/ \E j \in 2..Len(c) : IsRequest(o, j) /\ c[j].from = t
      BY <1>2, <3>2
    <3>6. (\E j \in 2..Len(c) : IsRequest(o, j) /\ c[j].from = t) => Asked(t)'
      <4>1. ASSUME NEW j \in 2..Len(c), IsRequest(o, j), c[j].from = t
            PROVE  j - 1 \in 1..(Len(c) - 1) /\ (j - 1) + 1 = j
        BY <1>2
      <4> QED
        BY <3>1, <4>1
    <3>7. IsRequest(o, 1) => ~\E j \in 2..Len(c) : IsRequest(o, j)
      BY <1>2 DEF ChanInv
    <3> QED
      BY <3>3, <3>4, <3>5, <3>6, <3>7
  <2>2. CASE OwnerOf[t] # o
    <3>1. Asked(t)' <=> Asked(t)
      BY <1>3, <1>5, <2>2, OwnersAre DEF Asked
    <3>2. Head(c) # [from |-> t, intr |-> FALSE]
      BY <1>8, <2>2 DEF Message
    <3> QED
      BY <3>1, <3>2
  <2> QED
    BY <2>1, <2>2
<1> QED
  BY <1>1, <1>6, <1>7, <1>8, <1>9, <1>10 DEF ChanType

LEMMA GivenUp ==
  ASSUME ChanType, NEW o \in LockOwners, \A p \in LockOwners : ChanInv(p),
         chan' = [chan EXCEPT ![o] = <<>>]
  PROVE  /\ ChanType' /\ \A p \in LockOwners : ChanInv(p)'
         /\ \A t \in Callers : Asked(t)' <=> Asked(t) /\ OwnerOf[t] # o
<1>1. chan' \in [LockOwners -> Seq(Message)] /\ chan'[o] = <<>> /\ \A p \in LockOwners : p # o => chan'[p] = chan[p]
  BY DEF ChanType
<1>2. \A p \in LockOwners : ChanInv(p)'
  BY <1>1 DEF ChanInv, IsRequest
<1>3. \A t \in Callers : Asked(t)' <=> Asked(t) /\ OwnerOf[t] # o
  BY <1>1, OwnersAre DEF Asked, IsRequest
<1> QED
  BY <1>1, <1>2, <1>3 DEF ChanType

LEMMA ChanStays ==
  ASSUME UNCHANGED chan
  PROVE  /\ ChanType => ChanType'
         /\ \A p : ChanInv(p) => ChanInv(p)'
         /\ \A t : Asked(t)' <=> Asked(t)
BY DEF ChanType, ChanInv, Asked, IsRequest
-----------------------------------------------------------------------------
(***************************************************************************)
(* What follows for a caller, and what a step leaves as it is.             *)
(***************************************************************************)
LEMMA WhoAsks ==
  ASSUME UlockInv, NEW t \in Callers, Asked(t)
  PROVE  caller[t].at = "sent" /\ told[t] = <<>> /\ job[t] = "none" /\ mutex = t
<1>1. CallInv(t) /\ caller[t].at \in {"idle", "want", "sent", "wait", "back"}
  BY DEF UlockInv, UlockTypeOK, CallType, Outside
<1> QED
  BY <1>1 DEF CallInv, Quiet, Sent, InWait

LEMMA NoRequests ==
  ASSUME UlockInv, mutex = "free"
  PROVE  /\ \A o \in LockOwners : \A i : ~IsRequest(o, i)
         /\ \A t \in Callers : ~Asked(t)
<1>1. \A t \in Callers : ~Asked(t)
  BY WhoAsks, UlockmgrAssumption
<1>2. ASSUME NEW o \in LockOwners, NEW i, IsRequest(o, i) PROVE FALSE
  <2>1. i \in DOMAIN chan[o] /\ chan[o] \in Seq(Message) /\ ChanInv(o)
    BY <1>2 DEF IsRequest, UlockInv, UlockTypeOK
  <2>2. chan[o][i].from \in Callers /\ OwnerOf[chan[o][i].from] = o
    <3>1. chan[o][i] \in Message
      BY <2>1
    <3> QED
      BY <2>1, <3>1 DEF ChanInv, Message
  <2>3. Asked(chan[o][i].from)
    BY <1>2, <2>1, <2>2 DEF Asked
  <2> QED
    BY <1>1, <2>2, <2>3
<1> QED
  BY <1>1, <1>2

LEMMA WhoWorks ==
  ASSUME UlockInv, NEW t \in Callers, job[t] # "none"
  PROVE  /\ caller[t].at \in {"sent", "wait"} /\ Waits(t) /\ ~Asked(t)
         /\ caller[t].all = FALSE /\ caller[t].fd \in Fds
<1>1. CallInv(t) /\ caller[t].at \in {"idle", "want", "sent", "wait", "back"} /\ caller[t].all \in BOOLEAN
  BY DEF UlockInv, UlockTypeOK, CallType, Outside
<1>2. caller[t].at \in {"sent", "wait"} /\ Waits(t) /\ ~Asked(t)
  BY <1>1 DEF CallInv, Quiet, Sent, InWait
<1> QED
  BY <1>1, <1>2 DEF CallInv, Proper, Waits

LEMMA WorkersAreUsers ==
  ASSUME UlockInv, NEW o, NEW fd
  PROVE  Workers(o, fd) \subseteq Users(o, fd)
BY WhoWorks DEF Workers, Works, Users, Uses, Outside

LEMMA CallStays ==
  ASSUME NEW t \in Callers, CallInv(t), caller'[t] = caller[t], told'[t] = told[t], job'[t] = job[t],
         Asked(t)' <=> Asked(t), mutex' = t <=> mutex = t
  PROVE  CallInv(t)'
<1>1. Quiet(t)' <=> Quiet(t)
  BY DEF Quiet
<1>2. Sent(t)' <=> Sent(t)
  BY DEF Sent, Waits
<1>3. InWait(t)' <=> InWait(t)
  BY DEF InWait, Waits
<1> QED
  BY <1>1, <1>2, <1>3 DEF CallInv, Proper, Waits

LEMMA UsersStay ==
  ASSUME \A t \in Callers : /\ caller'[t].at \in Outside <=> caller[t].at \in Outside
                            /\ caller[t].at \in Outside => caller'[t].all = caller[t].all /\ caller'[t].fd = caller[t].fd
  PROVE  \A o, fd : Users(o, fd)' = Users(o, fd)
BY DEF Users, Uses

LEMMA WorkersStay ==
  ASSUME \A t \in Callers : /\ job'[t] # "none" <=> job[t] # "none"
                            /\ job[t] # "none" => caller'[t].fd = caller[t].fd
  PROVE  \A o, fd : Workers(o, fd)' = Workers(o, fd)
BY DEF Workers, Works

LEMMA OwnerStays ==
  ASSUME NEW o \in LockOwners, OwnerInv(o), owner'[o] = owner[o], \A fd \in Fds : Users(o, fd)' = Users(o, fd),
         \A t \in Callers : OwnerOf[t] = o /\ caller'[t].at \in Outside => caller[t].at \in Outside
  PROVE  OwnerInv(o)'
<1>1. \A fd \in Fds : Counted(owner'[o].fds[fd], Users(o, fd)')
  BY DEF OwnerInv
<1> QED
  BY <1>1 DEF OwnerInv, Counted

LEMMA ServerStays ==
  ASSUME NEW o \in LockOwners, ServerInv(o), server'[o] = server[o], owner'[o].fds = owner[o].fds, posix'[o] = posix[o],
         \A fd \in Fds : Workers(o, fd)' = Workers(o, fd),
         \A t \in Callers : OwnerOf[t] = o /\ caller'[t].at = "sent" /\ caller'[t].all /\ told'[t] # <<>> =>
           caller[t].at = "sent" /\ caller[t].all /\ told[t] # <<>> /\ caller'[t].fd = caller[t].fd
  PROVE  ServerInv(o)'
<1>1. \A fd \in Fds : Counted(server'[o][fd], Workers(o, fd)')
  BY DEF ServerInv
<1>2. \A fd \in Fds : server'[o][fd] # Missing => owner'[o].fds[fd] # Missing
  BY DEF ServerInv
<1>3. \A t \in Callers : OwnerOf[t] = o /\ caller'[t].at = "sent" /\ caller'[t].all /\ told'[t] # <<>>
                         /\ owner'[o].fds[caller'[t].fd] = 0 => server'[o][caller'[t].fd] = Missing
  BY DEF ServerInv
<1>4. \A f \in LockedFiles : posix'[o][f] # "none" => \E fd \in Fds : FileOf[fd] = f /\ server'[o][fd] # Missing
  BY DEF ServerInv
<1> QED
  BY <1>1, <1>2, <1>3, <1>4 DEF ServerInv, Counted, Missing
-----------------------------------------------------------------------------
LEMMA InitUlock == UlockInit => UlockInv
<1> SUFFICES ASSUME UlockInit PROVE UlockInv
  OBVIOUS
<1>1. UlockTypeOK
  BY DEF UlockInit, UlockTypeOK, CallType, NotCalling, OwnerType, NoOwner, NoFds, Counts, Missing, Jobs, LockTypes
<1>2. \A t \in Callers : caller[t].at = "idle" /\ job[t] = "none" /\ told[t] = <<>> /\ mutex # t /\ ~Asked(t)
  BY UlockmgrAssumption, OwnersAre DEF UlockInit, NotCalling, Asked, IsRequest
<1>3. \A t \in Callers : CallInv(t)
  BY <1>2 DEF CallInv, Proper, Quiet
<1>4. \A o, fd : Users(o, fd) = {} /\ Workers(o, fd) = {}
  BY <1>2 DEF Users, Uses, Workers, Works, Outside
<1>5. ASSUME NEW o \in LockOwners PROVE ChanInv(o) /\ OwnerInv(o) /\ ServerInv(o)
  <2>1. owner[o] = NoOwner /\ owner[o].fds = NoFds /\ server[o] = NoFds /\ chan[o] = <<>> /\ \A f \in LockedFiles : posix[o][f] = "none"
    BY DEF UlockInit, NoOwner
  <2>2. \A fd \in Fds : NoFds[fd] = Missing
    BY DEF NoFds
  <2>3. ChanInv(o)
    BY <2>1 DEF ChanInv, IsRequest
  <2>4. OwnerInv(o)
    BY <1>2, <1>4, <2>1, <2>2 DEF OwnerInv, Counted, Outside
  <2>5. ServerInv(o)
    BY <1>2, <1>4, <2>1, <2>2 DEF ServerInv, Counted
  <2> QED
    BY <2>3, <2>4, <2>5
<1> QED
  BY <1>1, <1>3, <1>5 DEF UlockInv
-----------------------------------------------------------------------------
(***************************************************************************)
(* Steps of a caller that is not in the channel or the counters.           *)
(***************************************************************************)
LEMMA OpKeeps ==
  ASSUME UlockInv, NEW t \in Callers, NEW r \in Requests[t], UlockOp(t, r)
  PROVE  UlockInv'
<1>1. r \in Asking /\ (r.all => r.type = "none") /\ r.all \in BOOLEAN
  BY UlockmgrAssumption DEF Asking
<1>2. CallInv(t) /\ UlockTypeOK /\ caller[t].at = "idle" /\ Quiet(t) /\ mutex # t
  BY DEF UlockInv, UlockOp, CallInv
<1> DEFINE new == [NotCalling EXCEPT !.at = "want", !.type = r.type, !.fd = r.fd, !.all = r.all,
                                     !.cmd = IF r.type = "none" THEN "setlk" ELSE r.cmd]
<1>3. new \in CallType /\ new.at = "want" /\ new.fd \in Fds /\ (new.all => new.cmd = "setlk")
  <2>1. PICK cmd \in {"getlk", "setlk", "setlkw"} : cmd = IF r.type = "none" THEN "setlk" ELSE r.cmd
    BY <1>1 DEF Asking
  <2>2. PICK type \in LockTypes, fd \in Fds, all \in BOOLEAN : r.type = type /\ r.fd = fd /\ r.all = all
    BY <1>1 DEF Asking, LockTypes, Fds
  <2> DEFINE n1 == [NotCalling EXCEPT !.at = "want"]
             n2 == [n1 EXCEPT !.type = type]
             n3 == [n2 EXCEPT !.fd = fd]
             n4 == [n3 EXCEPT !.all = all]
  <2>3. n1 \in CallType /\ n1.at = "want"
    BY DEF NotCalling, CallType, LockTypes
  <2>4. n2 \in CallType /\ n2.at = "want"
    BY <2>3 DEF CallType
  <2>5. n3 \in CallType /\ n3.at = "want" /\ n3.fd = fd
    BY <2>4 DEF CallType
  <2>6. n4 \in CallType /\ n4.at = "want" /\ n4.fd = fd /\ n4.all = all
    BY <2>5 DEF CallType
  <2>7. new = [n4 EXCEPT !.cmd = cmd]
    BY <2>1, <2>2, Zenon
  <2>8. all => cmd = "setlk"
    BY <1>1, <2>1, <2>2
  <2> HIDE DEF n4, new
  <2> QED
    BY <2>6, <2>7, <2>8 DEF CallType
<1>4. caller' = [caller EXCEPT ![t] = new] /\ UNCHANGED <<mutex, owner, server, chan, told, job, posix>>
  BY DEF UlockOp
<1> HIDE DEF new
<1>5. /\ caller' \in [Callers -> CallType] /\ caller'[t] = new
      /\ \A u \in Callers : u # t => caller'[u] = caller[u]
  BY <1>2, <1>3, <1>4 DEF UlockTypeOK
<1>6. UlockTypeOK'
  BY <1>2, <1>4, <1>5 DEF UlockTypeOK
<1>7. \A u \in Callers : Asked(u)' <=> Asked(u)
  BY <1>4, ChanStays
<1>8. CallInv(t)'
  <2>1. Quiet(t)'
    BY <1>2, <1>4, <1>7 DEF Quiet
  <2> QED
    BY <1>2, <1>3, <1>4, <1>5, <2>1 DEF CallInv, Proper
<1>9. ASSUME NEW u \in Callers, u # t PROVE CallInv(u)'
  BY <1>4, <1>5, <1>7, <1>9, CallStays DEF UlockInv
<1>10. /\ \A o, fd : Users(o, fd)' = Users(o, fd)
       /\ \A o, fd : Workers(o, fd)' = Workers(o, fd)
  <2>1. job[t] = "none"
    BY <1>2 DEF Quiet
  <2>2. caller'[t].at \notin Outside /\ caller[t].at \notin Outside
    BY <1>2, <1>3, <1>5 DEF Outside
  <2>3. \A o, fd : Users(o, fd)' = Users(o, fd)
    BY <1>5, <2>2, UsersStay
  <2>4. \A o, fd : Workers(o, fd)' = Workers(o, fd)
    BY <1>4, <1>5, <2>1, WorkersStay
  <2> QED
    BY <2>3, <2>4
<1>11. ASSUME NEW o \in LockOwners PROVE ChanInv(o)' /\ OwnerInv(o)' /\ ServerInv(o)'
  <2>1. ChanInv(o)'
    BY <1>4, ChanStays DEF UlockInv
  <2>2. \A u \in Callers : (caller'[u].at \in Outside => caller[u].at \in Outside)
                           /\ (caller'[u].at = "sent" => caller'[u] = caller[u])
    BY <1>3, <1>5 DEF Outside
  <2>3. OwnerInv(o)'
    BY <1>4, <1>10, <2>2, OwnerStays DEF UlockInv
  <2>4. ServerInv(o)'
    BY <1>4, <1>10, <2>2, ServerStays DEF UlockInv
  <2> QED
    BY <2>1, <2>3, <2>4
<1> QED
  BY <1>6, <1>8, <1>9, <1>11 DEF UlockInv

LEMMA ReturnKeeps ==
  ASSUME UlockInv, NEW t \in Callers, caller[t].at = "want", Return(t),
         UNCHANGED <<mutex, owner, server, chan, told, job, posix>>
  PROVE  UlockInv'
<1>1. CallInv(t) /\ UlockTypeOK /\ Quiet(t) /\ mutex # t
  BY DEF UlockInv, CallInv
<1>2. NotCalling \in CallType /\ NotCalling.at = "idle"
  BY DEF NotCalling, CallType, LockTypes
<1>3. /\ caller' \in [Callers -> CallType] /\ caller'[t] = NotCalling
      /\ \A u \in Callers : u # t => caller'[u] = caller[u]
  BY <1>1, <1>2 DEF Return, UlockTypeOK
<1>4. UlockTypeOK'
  BY <1>1, <1>3 DEF UlockTypeOK
<1>5. \A u \in Callers : Asked(u)' <=> Asked(u)
  BY ChanStays
<1>6. CallInv(t)'
  <2>1. Quiet(t)'
    BY <1>1, <1>5 DEF Quiet
  <2> QED
    BY <1>1, <1>2, <1>3, <2>1 DEF CallInv, Proper
<1>7. ASSUME NEW u \in Callers, u # t PROVE CallInv(u)'
  BY <1>3, <1>5, <1>7, CallStays DEF UlockInv
<1>8. /\ \A o, fd : Users(o, fd)' = Users(o, fd)
      /\ \A o, fd : Workers(o, fd)' = Workers(o, fd)
  <2>1. job[t] = "none"
    BY <1>1 DEF Quiet
  <2>2. caller'[t].at \notin Outside /\ caller[t].at \notin Outside
    BY <1>2, <1>3 DEF Outside
  <2>3. \A o, fd : Users(o, fd)' = Users(o, fd)
    BY <1>3, <2>2, UsersStay
  <2>4. \A o, fd : Workers(o, fd)' = Workers(o, fd)
    BY <1>3, <2>1, WorkersStay
  <2> QED
    BY <2>3, <2>4
<1>9. ASSUME NEW o \in LockOwners PROVE ChanInv(o)' /\ OwnerInv(o)' /\ ServerInv(o)'
  <2>1. ChanInv(o)'
    BY ChanStays DEF UlockInv
  <2>2. \A u \in Callers : (caller'[u].at \in Outside => caller[u].at \in Outside)
                           /\ (caller'[u].at = "sent" => caller'[u] = caller[u])
    BY <1>2, <1>3 DEF Outside
  <2>3. OwnerInv(o)'
    BY <1>8, <2>2, OwnerStays DEF UlockInv
  <2>4. ServerInv(o)'
    BY <1>8, <2>2, ServerStays DEF UlockInv
  <2> QED
    BY <2>1, <2>3, <2>4
<1> QED
  BY <1>4, <1>6, <1>7, <1>9 DEF UlockInv

LEMMA NewOwnerKeeps ==
  ASSUME UlockInv, NEW t \in Callers, NEW alive \in BOOLEAN, NewOwner(t, alive)
  PROVE  UlockInv'
<1> DEFINE p == OwnerOf[t]
<1>1. UlockTypeOK /\ p \in LockOwners /\ OwnerInv(p) /\ ~owner[p].up
  BY OwnersAre DEF UlockInv, NewOwner
<1>2. UNCHANGED <<caller, mutex, server, chan, told, job, posix>> /\ owner' = [owner EXCEPT ![p] = Forked(alive)]
  BY DEF NewOwner
<1>3. Forked(alive) \in OwnerType /\ Forked(alive).up /\ Forked(alive).fds = NoFds
  <2> DEFINE begun == [NoOwner EXCEPT !.up = TRUE]
  <2>1. NoOwner \in OwnerType /\ NoOwner.fds = NoFds
    BY DEF NoOwner, OwnerType, NoFds, Counts, Missing
  <2>2. begun \in OwnerType /\ begun.up = TRUE /\ begun.fds = NoFds
    BY <2>1 DEF OwnerType
  <2>3. Forked(alive) = [begun EXCEPT !.alive = alive]
    BY DEF Forked
  <2> HIDE DEF begun
  <2> QED
    BY <2>2, <2>3 DEF OwnerType
<1>4. /\ owner' \in [LockOwners -> OwnerType] /\ owner'[p].up /\ owner'[p].fds = owner[p].fds
      /\ \A o \in LockOwners : o # p => owner'[o] = owner[o]
  BY <1>1, <1>2, <1>3 DEF UlockTypeOK, OwnerInv
<1>5. UlockTypeOK'
  BY <1>1, <1>2, <1>4 DEF UlockTypeOK
<1>6. ASSUME NEW u \in Callers PROVE CallInv(u)'
  BY <1>2, ChanStays, CallStays DEF UlockInv
<1>7. /\ \A o, fd : Users(o, fd)' = Users(o, fd)
      /\ \A o, fd : Workers(o, fd)' = Workers(o, fd)
  BY <1>2 DEF Users, Uses, Workers, Works
<1>8. ASSUME NEW o \in LockOwners PROVE ChanInv(o)' /\ OwnerInv(o)' /\ ServerInv(o)'
  <2>1. ChanInv(o)'
    BY <1>2, ChanStays DEF UlockInv
  <2>2. OwnerInv(o)'
    <3>1. CASE o = p
      <4>1. \A fd \in Fds : Counted(owner'[p].fds[fd], Users(p, fd)')
        BY <1>1, <1>4, <1>7 DEF OwnerInv
      <4> QED
        BY <1>4, <3>1, <4>1 DEF OwnerInv, Counted
    <3>2. CASE o # p
      BY <1>2, <1>4, <1>7, <3>2, OwnerStays DEF UlockInv
    <3> QED
      BY <3>1, <3>2
  <2>3. owner'[o].fds = owner[o].fds
    BY <1>4
  <2>4. ServerInv(o)'
    BY <1>2, <1>7, <2>3, ServerStays DEF UlockInv
  <2> QED
    BY <2>1, <2>2, <2>4
<1> QED
  BY <1>5, <1>6, <1>8 DEF UlockInv
-----------------------------------------------------------------------------
(***************************************************************************)
(* A request is sent, and answered.                                        *)
(***************************************************************************)
LEMMA OneIsSent ==
  ASSUME UlockInv, NEW t \in Callers
  PROVE  caller[t].at = "sent" <=> mutex = t
BY DEF UlockInv, CallInv

(* A change of one counter.                                                *)
LEMMA FdsChange ==
  ASSUME owner \in [LockOwners -> OwnerType], NEW o \in LockOwners, NEW fds \in Counts,
         owner' = [owner EXCEPT ![o] = [owner[o] EXCEPT !.fds = fds]]
  PROVE  /\ owner' \in [LockOwners -> OwnerType]
         /\ owner'[o].fds = fds /\ owner'[o].up = owner[o].up
         /\ \A p \in LockOwners : p # o => owner'[p] = owner[p]
<1>1. /\ [owner[o] EXCEPT !.fds = fds] \in OwnerType
      /\ [owner[o] EXCEPT !.fds = fds].fds = fds
      /\ [owner[o] EXCEPT !.fds = fds].up = owner[o].up
  BY DEF OwnerType
<1> QED
  BY <1>1

LEMMA SendKeeps ==
  ASSUME UlockInv, NEW t \in Callers, SendRequest1(t)
  PROVE  UlockInv'
<1>1. PICK o \in LockOwners : o = OwnerOf[t]
  BY OwnersAre
<1>2. PICK c \in CallType : c = caller[t]
  BY DEF UlockInv, UlockTypeOK
<1>3. PICK fd \in Fds : fd = c.fd
  BY <1>2 DEF UlockInv, CallInv, Proper, SendRequest1
<1>4. UlockTypeOK /\ CallInv(t) /\ Quiet(t) /\ c.at = "want" /\ mutex = "free" /\ owner[o].up
  BY <1>1, <1>2 DEF UlockInv, CallInv, SendRequest1
<1> DEFINE n == owner[o].fds[fd]
           k == IF n = Missing THEN 1 ELSE n + 1
           m == [from |-> t, intr |-> FALSE]
<1>5. /\ chan' = [chan EXCEPT ![o] = Append(@, m)]
      /\ owner' = IF c.all THEN owner ELSE [owner EXCEPT ![o] = [owner[o] EXCEPT !.fds = [owner[o].fds EXCEPT ![fd] = k]]]
      /\ caller' = [caller EXCEPT ![t] = [[c EXCEPT !.nofd = c.all \/ n # Missing] EXCEPT !.at = "sent"]]
      /\ mutex' = t
      /\ UNCHANGED <<server, told, job, posix>>
  BY <1>1, <1>2, <1>3 DEF SendRequest1
<1>6. PICK nofd \in BOOLEAN : nofd = (c.all \/ n # Missing)
  BY Zenon
<1>7. /\ caller' \in [Callers -> CallType] /\ caller'[t].at = "sent" /\ caller'[t].cmd = c.cmd
      /\ caller'[t].all = c.all /\ caller'[t].fd = fd
      /\ \A u \in Callers : u # t => caller'[u] = caller[u]
  <2> DEFINE msg == [c EXCEPT !.nofd = nofd]
             new == [msg EXCEPT !.at = "sent"]
  <2>1. msg \in CallType /\ msg.cmd = c.cmd /\ msg.all = c.all /\ msg.fd = fd
    BY <1>3 DEF CallType
  <2> HIDE DEF msg
  <2>2. new \in CallType /\ new.at = "sent" /\ new.cmd = c.cmd /\ new.all = c.all /\ new.fd = fd
    BY <2>1 DEF CallType, Outside
  <2>3. caller' = [caller EXCEPT ![t] = new]
    BY <1>5, <1>6, Zenon DEF msg
  <2> HIDE DEF new
  <2> QED
    BY <1>4, <2>2, <2>3 DEF UlockTypeOK
<1>8. /\ ChanType' /\ \A p \in LockOwners : ChanInv(p)'
      /\ \A u \in Callers : Asked(u)' <=> Asked(u) \/ u = t
  <2>1. m \in Message /\ m.from = t /\ m.intr = FALSE /\ OwnerOf[m.from] = o
    BY <1>1 DEF Message
  <2>2. \A i : ~IsRequest(o, i)
    BY <1>4, NoRequests
  <2>3. ChanType /\ \A p \in LockOwners : ChanInv(p)
    BY <1>4 DEF UlockInv, UlockTypeOK, ChanType
  <2> HIDE DEF m
  <2> QED
    BY <1>5, <2>1, <2>2, <2>3, PutAt
<1>9. n \in Int /\ k \in Int /\ owner[o].fds \in Counts /\ [owner[o].fds EXCEPT ![fd] = k] \in Counts
  BY <1>4 DEF UlockTypeOK, OwnerType, Counts, Missing
<1>10. /\ owner' \in [LockOwners -> OwnerType] /\ owner'[o].up = owner[o].up
       /\ \A p \in LockOwners : p # o => owner'[p] = owner[p]
       /\ owner'[o].fds = IF c.all THEN owner[o].fds ELSE [owner[o].fds EXCEPT ![fd] = k]
  <2>1. CASE c.all
    BY <1>4, <1>5, <2>1 DEF UlockTypeOK
  <2>2. CASE ~c.all
    <3>1. owner' = [owner EXCEPT ![o] = [owner[o] EXCEPT !.fds = [owner[o].fds EXCEPT ![fd] = k]]]
      BY <1>5, <2>2, Zenon
    <3> HIDE DEF k
    <3> QED
      BY <1>4, <1>9, <2>2, <3>1, FdsChange DEF UlockTypeOK
  <2> QED
    BY <2>1, <2>2
<1> HIDE DEF n, k, m
<1>11. UlockTypeOK'
  BY <1>4, <1>5, <1>7, <1>8, <1>10 DEF UlockTypeOK, ChanType
<1>12. CallInv(t)'
  <2>1. Sent(t)'
    BY <1>4, <1>5, <1>8 DEF Sent, Quiet
  <2>2. Proper(t)'
    BY <1>2, <1>4, <1>7 DEF CallInv, Proper
  <2> QED
    BY <1>5, <1>7, <2>1, <2>2 DEF CallInv
<1>13. ASSUME NEW u \in Callers, u # t PROVE CallInv(u)'
  <2>1. mutex' = u <=> mutex = u
    BY <1>4, <1>5, <1>13, UlockmgrAssumption
  <2> QED
    BY <1>5, <1>7, <1>8, <1>13, <2>1, CallStays DEF UlockInv
<1>14. /\ t \notin Users(o, fd)
       /\ \A p, g : Users(p, g)' = IF p = o /\ g = fd /\ ~c.all THEN Users(p, g) \cup {t} ELSE Users(p, g)
  <2>1. t \notin Users(o, fd)
    BY <1>2, <1>4 DEF Users, Uses, Outside
  <2>2. \A u \in Callers : \A p, g : Uses(u, p, g)' <=> Uses(u, p, g) \/ (u = t /\ p = o /\ g = fd /\ ~c.all)
    BY <1>1, <1>2, <1>4, <1>7 DEF Uses, Outside
  <2> QED
    BY <2>1, <2>2 DEF Users
<1>15. \A p, g : Workers(p, g)' = Workers(p, g)
  <2>1. job[t] = "none"
    BY <1>4 DEF Quiet
  <2> QED
    BY <1>5, <1>7, <2>1, WorkersStay
<1>16. \A g \in Fds : /\ Counted(owner'[o].fds[g], Users(o, g)')
                      /\ owner[o].fds[g] # Missing => owner'[o].fds[g] # Missing
  <2> SUFFICES ASSUME NEW g \in Fds
               PROVE  /\ Counted(owner'[o].fds[g], Users(o, g)')
                      /\ owner[o].fds[g] # Missing => owner'[o].fds[g] # Missing
    OBVIOUS
  <2>1. OwnerInv(o) /\ Counted(owner[o].fds[g], Users(o, g)) /\ IsFiniteSet(Users(o, g))
    BY UsersFinite DEF UlockInv, OwnerInv
  <2>2. CASE g = fd /\ ~c.all
    <3>1. owner'[o].fds[g] = k
      BY <1>9, <1>10, <2>2 DEF Counts
    <3>2. Counted(k, Users(o, fd) \cup {t})
      BY <1>14, <2>1, <2>2, CountMore DEF k, n
    <3>3. n \in Int /\ n >= Missing
      BY <2>1, <2>2, CountedRange DEF n
    <3>4. k # Missing
      BY <3>3 DEF k, Missing
    <3> QED
      BY <1>14, <2>2, <3>1, <3>2, <3>4
  <2>3. CASE ~(g = fd /\ ~c.all)
    <3>1. owner'[o].fds[g] = owner[o].fds[g]
      BY <1>9, <1>10, <2>3 DEF Counts
    <3> QED
      BY <1>14, <2>1, <2>3, <3>1
  <2> QED
    BY <2>2, <2>3
<1>17. ASSUME NEW p \in LockOwners PROVE OwnerInv(p)' /\ ServerInv(p)'
  <2>1. CASE p # o
    <3>1. OwnerInv(p)'
      BY <1>1, <1>7, <1>10, <1>14, <2>1, OwnerStays DEF UlockInv
    <3>2. owner'[p].fds = owner[p].fds
      BY <1>10, <2>1
    <3>3. ServerInv(p)'
      BY <1>1, <1>5, <1>7, <1>15, <2>1, <3>2, ServerStays DEF UlockInv
    <3> QED
      BY <3>1, <3>3
  <2>2. CASE p = o
    <3>1. OwnerInv(o)'
      BY <1>4, <1>10, <1>16 DEF OwnerInv, Counted
    <3>2. ServerInv(o)
      BY DEF UlockInv
    <3>3. ServerInv(o)'
      <4>1. \A g \in Fds : Counted(server'[o][g], Workers(o, g)')
        BY <1>5, <1>15, <3>2 DEF ServerInv
      <4>2. \A g \in Fds : server'[o][g] # Missing => owner'[o].fds[g] # Missing
        BY <1>5, <1>16, <3>2 DEF ServerInv
      <4>3. \A u \in Callers : caller'[u].at = "sent" => told'[u] = <<>>
        <5>1. \A u \in Callers : u # t => caller'[u].at # "sent"
          BY <1>4, <1>7, OneIsSent, UlockmgrAssumption
        <5>2. told'[t] = <<>>
          BY <1>4, <1>5 DEF Quiet
        <5> QED
          BY <5>1, <5>2
      <4>4. \A f \in LockedFiles : posix'[o][f] # "none" => \E g \in Fds : FileOf[g] = f /\ server'[o][g] # Missing
        BY <1>5, <3>2 DEF ServerInv
      <4> QED
        BY <4>1, <4>2, <4>3, <4>4 DEF ServerInv, Counted, Missing
    <3> QED
      BY <2>2, <3>1, <3>3
  <2> QED
    BY <2>1, <2>2
<1> QED
  BY <1>8, <1>11, <1>12, <1>13, <1>17 DEF UlockInv

(***************************************************************************)
(* The end of a call: Finish. With the last file, the owner goes.          *)
(***************************************************************************)
CallEnds(t) ==
  /\ UlockInv /\ Finish(t) /\ UNCHANGED <<job, posix>>
  /\ caller[t].at \in {"sent", "back"} /\ (caller[t].at = "sent" => told[t] # <<>>)
  /\ job[t] = "none" /\ ~Asked(t) /\ mutex \in {t, "free"}
  /\ told' \in [Callers -> Seq(Results)] /\ told'[t] = <<>> /\ \A u \in Callers : u # t => told'[u] = told[u]

(* The fd_stores that are left, and whether there are none.                *)
FdsAfter(t) ==
  IF caller[t].all THEN DropFd(owner[OwnerOf[t]].fds, caller[t].fd)
  ELSE [owner[OwnerOf[t]].fds EXCEPT ![caller[t].fd] = owner[OwnerOf[t]].fds[caller[t].fd] - 1]
Goes(t) == caller[t].all /\ FdsAfter(t) = NoFds

LEMMA EndedCalls ==
  ASSUME NEW t \in Callers, CallEnds(t)
  PROVE  /\ caller' \in [Callers -> CallType] /\ caller'[t].at = "idle" /\ mutex' = "free"
         /\ \A u \in Callers : u # t => caller'[u] = caller[u]
         /\ \A u \in Callers : caller'[u].at # "sent"
<1>1. UlockTypeOK
  BY DEF CallEnds, UlockInv
<1>2. NotCalling \in CallType /\ NotCalling.at = "idle"
  BY DEF NotCalling, CallType, LockTypes
<1>3. caller' = [caller EXCEPT ![t] = NotCalling] /\ mutex' = "free"
  BY DEF CallEnds, Finish, Return
<1>4. \A u \in Callers : u # t => caller[u].at # "sent"
  BY OneIsSent, UlockmgrAssumption DEF CallEnds
<1> QED
  BY <1>1, <1>2, <1>3, <1>4 DEF UlockTypeOK

LEMMA EndedUsers ==
  ASSUME NEW t \in Callers, CallEnds(t)
  PROVE  /\ \A o, fd : Users(o, fd)' = IF Uses(t, o, fd) THEN Users(o, fd) \ {t} ELSE Users(o, fd)
         /\ \A o, fd : Workers(o, fd)' = Workers(o, fd)
<1>1. \A u \in Callers : \A o, fd : Uses(u, o, fd)' <=> Uses(u, o, fd) /\ u # t
  BY EndedCalls DEF Uses, Outside
<1>2. \A o, fd : Users(o, fd)' = IF Uses(t, o, fd) THEN Users(o, fd) \ {t} ELSE Users(o, fd)
  BY <1>1 DEF Users
<1>3. \A o, fd : Workers(o, fd)' = Workers(o, fd)
  BY EndedCalls, WorkersStay DEF CallEnds
<1> QED
  BY <1>2, <1>3

(* What is left is counted as it should be, and covers what the process    *)
(* knows.                                                                  *)
LEMMA EndedCounts ==
  ASSUME NEW t \in Callers, CallEnds(t), NEW o, o = OwnerOf[t]
  PROVE  /\ FdsAfter(t) \in Counts
         /\ \A g \in Fds : Counted(FdsAfter(t)[g], Users(o, g)')
         /\ \A g \in Fds : server[o][g] # Missing => FdsAfter(t)[g] # Missing
<1>1. o \in LockOwners /\ UlockInv /\ UlockTypeOK /\ OwnerInv(o) /\ ServerInv(o) /\ CallInv(t)
  BY OwnersAre DEF CallEnds, UlockInv
<1>2. PICK fd \in Fds : fd = caller[t].fd
  BY <1>1 DEF CallInv, Proper, CallEnds
<1> DEFINE fds == owner[o].fds
<1>3. fds \in Counts
  BY <1>1 DEF UlockTypeOK, OwnerType
<1>4. \A g \in Fds : /\ Counted(fds[g], Users(o, g)) /\ IsFiniteSet(Users(o, g))
                     /\ server[o][g] # Missing => fds[g] # Missing
  BY <1>1, UsersFinite DEF OwnerInv, ServerInv
<1>5. CASE caller[t].all
  <2>1. FdsAfter(t) = IF fds[fd] = 0 THEN [fds EXCEPT ![fd] = Missing] ELSE fds
    BY <1>2, <1>5 DEF FdsAfter, DropFd
  <2>2. \A g \in Fds : Users(o, g)' = Users(o, g)
    BY <1>5, EndedUsers DEF Uses
  <2>3. caller[t].at = "sent" /\ told[t] # <<>>
    BY <1>1, <1>5 DEF CallEnds, CallInv, Proper, Waits
  <2>4. fds[fd] = 0 => server[o][fd] = Missing
    BY <1>1, <1>2, <1>5, <2>3 DEF ServerInv
  <2> HIDE DEF fds
  <2>5. FdsAfter(t) \in Counts
    BY <1>3, <2>1 DEF Counts, Missing
  <2>6. ASSUME NEW g \in Fds
        PROVE  Counted(FdsAfter(t)[g], Users(o, g)) /\ (server[o][g] # Missing => FdsAfter(t)[g] # Missing)
    <3>1. CASE fds[fd] = 0 /\ g = fd
      <4>1. FdsAfter(t)[g] = Missing
        BY <1>3, <2>1, <3>1 DEF Counts
      <4> QED
        BY <1>4, <2>4, <3>1, <4>1, CountNone
    <3>2. CASE ~(fds[fd] = 0 /\ g = fd)
      <4>1. FdsAfter(t)[g] = fds[g]
        BY <1>3, <2>1, <3>2 DEF Counts
      <4> QED
        BY <1>4, <4>1
    <3> QED
      BY <3>1, <3>2
  <2> QED
    BY <2>2, <2>5, <2>6
<1>6. CASE ~caller[t].all
  <2>1. FdsAfter(t) = [fds EXCEPT ![fd] = fds[fd] - 1]
    BY <1>2, <1>6 DEF FdsAfter
  <2>2. t \in Users(o, fd)
    BY <1>2, <1>6 DEF Users, Uses, CallEnds, Outside
  <2>3. /\ Users(o, fd)' = Users(o, fd) \ {t}
        /\ \A g \in Fds : g # fd => Users(o, g)' = Users(o, g)
    <3>1. Uses(t, o, fd)
      BY <2>2 DEF Users
    <3>2. \A g \in Fds : g # fd => ~Uses(t, o, g)
      BY <1>2 DEF Uses
    <3> HIDE DEF fds
    <3>3. \A g : Users(o, g)' = IF Uses(t, o, g) THEN Users(o, g) \ {t} ELSE Users(o, g)
      BY EndedUsers
    <3> QED BY <3>1, <3>2, <3>3
  <2> HIDE DEF fds
  <2>4. fds[fd] \in Int /\ fds[fd] > 0
    BY <1>4, <2>2, CountedRange
  <2>5. FdsAfter(t) \in Counts
    BY <1>3, <2>1, <2>4 DEF Counts
  <2>6. ASSUME NEW g \in Fds
        PROVE  Counted(FdsAfter(t)[g], Users(o, g)') /\ (server[o][g] # Missing => FdsAfter(t)[g] # Missing)
    <3>1. CASE g = fd
      <4>1. FdsAfter(t)[g] = fds[fd] - 1
        BY <1>3, <2>1, <3>1 DEF Counts
      <4>2. Counted(fds[fd] - 1, Users(o, fd) \ {t})
        BY <1>4, <2>2, CountLess
      <4>3. fds[fd] - 1 # Missing
        BY <2>4 DEF Missing
      <4> QED
        BY <2>3, <3>1, <4>1, <4>2, <4>3
    <3>2. CASE g # fd
      <4>1. FdsAfter(t)[g] = fds[g]
        BY <1>3, <2>1, <3>2 DEF Counts
      <4> QED
        BY <1>4, <2>3, <3>2, <4>1
    <3> QED
      BY <3>1, <3>2
  <2> QED
    BY <2>5, <2>6
<1> QED
  BY <1>5, <1>6

LEMMA EndKeepsChannels ==
  ASSUME NEW t \in Callers, CallEnds(t)
  PROVE  ChanType' /\ (\A p \in LockOwners : ChanInv(p)') /\ \A u \in Callers : Asked(u)' <=> Asked(u)
<1>1. PICK o \in LockOwners : o = OwnerOf[t]
  BY OwnersAre
<1>2. ChanType /\ \A p \in LockOwners : ChanInv(p)
  BY DEF CallEnds, UlockInv, UlockTypeOK, ChanType
<1>3. chan' = [chan EXCEPT ![o] = <<>>] \/ UNCHANGED chan
  BY <1>1 DEF CallEnds, Finish
<1>4. \A u \in Callers : ~Asked(u)
  <2>1. \A u \in Callers : Asked(u) => mutex = u
    BY WhoAsks DEF CallEnds
  <2> QED
    BY <2>1, UlockmgrAssumption DEF CallEnds
<1>5. CASE chan' = [chan EXCEPT ![o] = <<>>]
  BY <1>2, <1>4, <1>5, GivenUp
<1>6. CASE UNCHANGED chan
  BY <1>2, <1>6, ChanStays
<1> QED
  BY <1>3, <1>5, <1>6

LEMMA EndKeeps ==
  ASSUME NEW t \in Callers, CallEnds(t)
  PROVE  UlockInv'
<1>1. PICK o \in LockOwners : o = OwnerOf[t]
  BY OwnersAre
<1>2. UlockInv /\ UlockTypeOK /\ OwnerInv(o) /\ ServerInv(o) /\ CallInv(t) /\ UNCHANGED <<job, posix>>
  BY DEF CallEnds, UlockInv
<1>3. ChanType' /\ (\A p \in LockOwners : ChanInv(p)') /\ \A u \in Callers : Asked(u)' <=> Asked(u)
  BY EndKeepsChannels
<1>4. /\ owner' = [owner EXCEPT ![o] = IF Goes(t) THEN NoOwner ELSE [owner[o] EXCEPT !.fds = FdsAfter(t)]]
      /\ server' = IF Goes(t) THEN [server EXCEPT ![o] = NoFds] ELSE server
  BY <1>1 DEF CallEnds, Finish, FdsAfter, Goes
<1>5. /\ FdsAfter(t) \in Counts
      /\ \A g \in Fds : Counted(FdsAfter(t)[g], Users(o, g)')
      /\ \A g \in Fds : server[o][g] # Missing => FdsAfter(t)[g] # Missing
  BY <1>1, EndedCounts
<1>6. NoOwner \in OwnerType /\ NoOwner.fds = NoFds /\ NoOwner.up = FALSE /\ NoFds \in Counts
  BY DEF NoOwner, OwnerType, NoFds, Counts, Missing
<1>7. /\ owner' \in [LockOwners -> OwnerType] /\ owner'[o].fds = FdsAfter(t)
      /\ owner'[o].up = IF Goes(t) THEN FALSE ELSE owner[o].up
      /\ \A p \in LockOwners : p # o => owner'[p] = owner[p]
  <2>1. CASE Goes(t)
    BY <1>2, <1>4, <1>6, <2>1 DEF UlockTypeOK, Goes
  <2>2. CASE ~Goes(t)
    BY <1>2, <1>4, <1>5, <2>2, FdsChange DEF UlockTypeOK
  <2> QED
    BY <2>1, <2>2
<1>8. /\ server' \in [LockOwners -> Counts] /\ \A p \in LockOwners : p # o => server'[p] = server[p]
      /\ server'[o] = IF Goes(t) THEN NoFds ELSE server[o]
  BY <1>2, <1>4, <1>6 DEF UlockTypeOK
<1>9. UlockTypeOK'
  BY <1>2, <1>3, <1>7, <1>8, EndedCalls DEF UlockTypeOK, ChanType, CallEnds
<1>10. CallInv(t)'
  <2>1. Quiet(t)'
    BY <1>3 DEF Quiet, CallEnds
  <2>2. caller'[t].at = "idle" /\ mutex' # t
    BY EndedCalls, UlockmgrAssumption
  <2> QED
    BY <2>1, <2>2 DEF CallInv, Proper
<1>11. ASSUME NEW u \in Callers, u # t PROVE CallInv(u)'
  <2>1. mutex' = u <=> mutex = u
    BY <1>11, EndedCalls, UlockmgrAssumption DEF CallEnds
  <2>2. told'[u] = told[u] /\ caller'[u] = caller[u] /\ CallInv(u) /\ job'[u] = job[u]
    BY <1>2, <1>11, EndedCalls DEF CallEnds, UlockInv
  <2> QED
    BY <1>3, <2>1, <2>2, CallStays
<1>12. ASSUME Goes(t)
       PROVE  /\ \A g \in Fds : Users(o, g)' = {} /\ Workers(o, g) = {} /\ server[o][g] = Missing
              /\ \A f \in LockedFiles : posix[o][f] = "none"
              /\ \A u \in Callers : OwnerOf[u] = o => caller'[u].at \notin Outside
  <2>1. \A g \in Fds : FdsAfter(t)[g] = Missing
    BY <1>12 DEF Goes, NoFds
  <2>2. \A g \in Fds : server[o][g] = Missing
    BY <1>5, <2>1
  <2>3. \A f \in LockedFiles : posix[o][f] = "none"
    BY <1>2, <2>2 DEF ServerInv
  <2>4. \A g \in Fds : Workers(o, g) = {}
    <3>1. \A g \in Fds : Counted(server[o][g], Workers(o, g)) /\ IsFiniteSet(Workers(o, g))
      BY <1>2, UsersFinite DEF ServerInv
    <3> QED
      BY <2>2, <3>1, CountedRange
  <2>5. \A g \in Fds : Users(o, g)' = {}
    <3>1. \A g \in Fds : IsFiniteSet(Users(o, g)')
      BY UsersFinite, EndedUsers, FS_RemoveElement
    <3> HIDE DEF Users
    <3>2. \A g \in Fds : Counted(Missing, Users(o, g)')
      BY <1>5, <2>1
    <3> QED
      BY <3>1, <3>2, CountedRange
  <2>6. ASSUME NEW u \in Callers, OwnerOf[u] = o, caller'[u].at \in Outside PROVE FALSE
    <3>1. u # t /\ caller'[u] = caller[u] /\ caller[u].at \in {"wait", "back"}
      BY <2>6, EndedCalls DEF Outside
    <3>2. CallInv(u) /\ Waits(u)
      BY <1>2, <3>1 DEF UlockInv, CallInv, InWait
    <3>3. PICK g \in Fds : g = caller[u].fd /\ ~caller[u].all
      BY <3>1, <3>2 DEF CallInv, Proper, Waits
    <3>4. u \in Users(o, g)'
      BY <2>6, <3>1, <3>3 DEF Users, Uses
    <3> QED
      BY <2>5, <3>3, <3>4
  <2> QED
    BY <2>2, <2>3, <2>4, <2>5, <2>6
<1>13. OwnerInv(o)'
  <2>1. \A g \in Fds : Counted(owner'[o].fds[g], Users(o, g)')
    BY <1>5, <1>7
  <2>2. ~owner'[o].up => owner'[o].fds = NoFds
    <3>1. CASE Goes(t)
      BY <1>7, <3>1 DEF Goes
    <3>2. CASE ~Goes(t)
      BY <1>1, <1>2, <1>7, <3>2 DEF OwnerInv, CallEnds, Outside
    <3> QED
      BY <3>1, <3>2
  <2>3. \A u \in Callers : OwnerOf[u] = o /\ caller'[u].at \in Outside => owner'[o].up
    <3>1. CASE Goes(t)
      BY <1>12, <3>1
    <3>2. CASE ~Goes(t)
      BY <1>1, <1>2, <1>7, <3>2 DEF OwnerInv, CallEnds, Outside
    <3> QED
      BY <3>1, <3>2
  <2> QED
    BY <2>1, <2>2, <2>3 DEF OwnerInv, Counted
<1>14. ServerInv(o)'
  <2>1. \A g \in Fds : Counted(server'[o][g], Workers(o, g)')
    <3>1. CASE Goes(t)
      BY <1>8, <1>12, <3>1, EndedUsers DEF Counted, NoFds
    <3>2. CASE ~Goes(t)
      BY <1>2, <1>8, <3>2, EndedUsers DEF ServerInv
    <3> QED
      BY <3>1, <3>2
  <2>2. \A g \in Fds : server'[o][g] # Missing => owner'[o].fds[g] # Missing
    BY <1>5, <1>7, <1>8 DEF NoFds
  <2>3. \A u \in Callers : caller'[u].at # "sent"
    BY EndedCalls
  <2>4. \A f \in LockedFiles : posix'[o][f] # "none" => \E g \in Fds : FileOf[g] = f /\ server'[o][g] # Missing
    BY <1>2, <1>8, <1>12 DEF ServerInv
  <2> QED
    BY <2>1, <2>2, <2>3, <2>4 DEF ServerInv, Counted, Missing
<1>15. ASSUME NEW p \in LockOwners, p # o PROVE OwnerInv(p)' /\ ServerInv(p)'
  <2>1. /\ \A g \in Fds : Users(p, g)' = Users(p, g)
        /\ \A g \in Fds : Workers(p, g)' = Workers(p, g)
    BY <1>1, <1>15, EndedUsers DEF Uses
  <2>2. owner'[p] = owner[p] /\ owner'[p].fds = owner[p].fds /\ server'[p] = server[p] /\ posix'[p] = posix[p]
    BY <1>2, <1>7, <1>8, <1>15
  <2>3. \A u \in Callers : (caller'[u].at \in Outside => caller[u].at \in Outside) /\ caller'[u].at # "sent"
    BY EndedCalls DEF Outside
  <2>4. OwnerInv(p)'
    BY <1>2, <2>1, <2>2, <2>3, OwnerStays DEF UlockInv
  <2>5. ServerInv(p)'
    BY <1>2, <2>1, <2>2, <2>3, ServerStays DEF UlockInv
  <2> QED
    BY <2>4, <2>5
<1> QED
  BY <1>3, <1>9, <1>10, <1>11, <1>13, <1>14, <1>15 DEF UlockInv

LEMMA FirstReplyKeeps ==
  ASSUME UlockInv, NEW t \in Callers, FirstReply(t)
  PROVE  UlockInv'
<1>1. UlockTypeOK /\ CallInv(t) /\ caller[t].at = "sent" /\ told[t] # <<>> /\ mutex = t /\ Sent(t)
  BY OneIsSent DEF UlockInv, FirstReply, CallInv
<1>2. told' = [told EXCEPT ![t] = Tail(@)] /\ UNCHANGED <<job, posix>>
  BY DEF FirstReply
<1>3. told[t] \in Seq(Results) /\ Tail(told[t]) \in Seq(Results) /\ Head(told[t]) = told[t][1]
      /\ Len(Tail(told[t])) = Len(told[t]) - 1 /\ Len(told[t]) \in Nat /\ Len(told[t]) > 0
  BY <1>1 DEF UlockTypeOK
<1>4. told' \in [Callers -> Seq(Results)] /\ told'[t] = Tail(told[t]) /\ \A u \in Callers : u # t => told'[u] = told[u]
  BY <1>1, <1>2, <1>3 DEF UlockTypeOK
<1>5. CASE Waits(t) /\ Head(told[t]) = "EAGAIN"
  <2>1. caller' = [caller EXCEPT ![t].at = "wait"] /\ mutex' = "free" /\ UNCHANGED <<owner, chan, server>>
    BY <1>5 DEF FirstReply, Waits
  <2>2. /\ caller' \in [Callers -> CallType] /\ caller'[t].at = "wait" /\ caller'[t].cmd = caller[t].cmd
        /\ caller'[t].all = caller[t].all /\ caller'[t].fd = caller[t].fd
        /\ \A u \in Callers : u # t => caller'[u] = caller[u]
    BY <1>1, <2>1 DEF UlockTypeOK, CallType, Outside
  <2>3. UlockTypeOK'
    BY <1>1, <1>2, <1>4, <2>1, <2>2 DEF UlockTypeOK
  <2>4. \A u \in Callers : Asked(u)' <=> Asked(u)
    BY <2>1, ChanStays
  <2>5. CallInv(t)'
    <3>1. \/ ~Asked(t) /\ told[t] = <<"EAGAIN">> /\ job[t] \in InLock
          \/ ~Asked(t) /\ Len(told[t]) = 2 /\ job[t] = "none"
      BY <1>1, <1>3, <1>5 DEF Sent
    <3>2. told[t] = <<"EAGAIN">> => Tail(told[t]) = <<>>
      OBVIOUS
    <3>3. ~Asked(t)' /\ ((told'[t] = <<>> /\ job'[t] \in InLock) \/ (Len(told'[t]) = 1 /\ job'[t] = "none"))
      BY <1>2, <1>3, <1>4, <2>4, <3>1, <3>2
    <3>4. InWait(t)'
      BY <1>5, <2>2, <3>3 DEF InWait, Waits
    <3>5. Proper(t)' /\ mutex' # t
      BY <1>1, <2>1, <2>2, UlockmgrAssumption DEF CallInv, Proper
    <3> QED
      BY <2>2, <3>4, <3>5 DEF CallInv
  <2>6. ASSUME NEW u \in Callers, u # t PROVE CallInv(u)'
    <3>1. mutex' = u <=> mutex = u
      BY <1>1, <2>1, <2>6, UlockmgrAssumption
    <3> QED
      BY <1>2, <1>4, <2>2, <2>4, <2>6, <3>1, CallStays DEF UlockInv
  <2>7. /\ \A o, fd : Users(o, fd)' = Users(o, fd)
        /\ \A o, fd : Workers(o, fd)' = Workers(o, fd)
    <3>1. \A o, fd : Users(o, fd)' = Users(o, fd)
      BY <1>1, <2>2, UsersStay DEF Outside
    <3>2. \A o, fd : Workers(o, fd)' = Workers(o, fd)
      BY <1>2, <2>2, WorkersStay
    <3> QED
      BY <3>1, <3>2
  <2>8. ASSUME NEW o \in LockOwners PROVE ChanInv(o)' /\ OwnerInv(o)' /\ ServerInv(o)'
    <3>1. ChanInv(o)'
      BY <2>1, ChanStays DEF UlockInv
    <3>2. \A u \in Callers : (caller'[u].at \in Outside => caller[u].at \in Outside) /\ caller'[u].at # "sent"
      BY <1>1, <2>2, OneIsSent DEF Outside
    <3>3. OwnerInv(o)'
      BY <2>1, <2>7, <3>2, OwnerStays DEF UlockInv
    <3>4. ServerInv(o)'
      BY <1>2, <2>1, <2>7, <3>2, ServerStays DEF UlockInv
    <3> QED
      BY <3>1, <3>3, <3>4
  <2> QED
    BY <2>3, <2>5, <2>6, <2>8 DEF UlockInv
<1>6. CASE ~(Waits(t) /\ Head(told[t]) = "EAGAIN")
  <2>1. Finish(t)
    BY <1>6 DEF FirstReply, Waits
  <2>2. ~Asked(t) /\ Len(told[t]) = 1 /\ job[t] = "none"
    BY <1>1, <1>3, <1>6 DEF Sent
  <2>3. told'[t] = <<>>
    BY <1>3, <1>4, <2>2
  <2>4. CallEnds(t)
    BY <1>1, <1>2, <1>4, <2>1, <2>2, <2>3 DEF CallEnds
  <2> QED
    BY <2>4, EndKeeps
<1> QED
  BY <1>5, <1>6

LEMMA BackKeeps ==
  ASSUME UlockInv, NEW t \in Callers, Back(t)
  PROVE  UlockInv'
<1>1. CallInv(t) /\ Quiet(t) /\ caller[t].at = "back"
  BY DEF UlockInv, Back, CallInv
<1>2. told \in [Callers -> Seq(Results)]
  BY DEF UlockInv, UlockTypeOK
<1>3. CallEnds(t)
  BY <1>1, <1>2 DEF CallEnds, Back, Quiet
<1> QED
  BY <1>3, EndKeeps

LEMMA SecondReplyKeeps ==
  ASSUME UlockInv, NEW t \in Callers, SecondReply(t)
  PROVE  UlockInv'
<1>1. UlockTypeOK /\ CallInv(t) /\ caller[t].at = "wait" /\ told[t] # <<>> /\ mutex # t /\ InWait(t)
  BY OneIsSent DEF UlockInv, SecondReply, CallInv
<1>2. /\ told' = [told EXCEPT ![t] = Tail(@)] /\ UNCHANGED <<mutex, owner, server, chan, job, posix>>
      /\ caller' = [caller EXCEPT ![t].at = "back"]
  BY DEF SecondReply
<1>3. told[t] \in Seq(Results) /\ Tail(told[t]) \in Seq(Results) /\ Len(told[t]) = 1 /\ Tail(told[t]) = <<>> /\ job[t] = "none"
  <2>1. told[t] \in Seq(Results) /\ Len(told[t]) = 1 /\ job[t] = "none"
    BY <1>1 DEF UlockTypeOK, InWait
  <2>2. Tail(told[t]) \in Seq(Results) /\ Len(Tail(told[t])) = 0
    BY <2>1
  <2>3. \A s \in Seq(Results) : Len(s) = 0 => s = <<>>
    OBVIOUS
  <2>4. Tail(told[t]) = <<>>
    BY <2>2, <2>3
  <2> QED
    BY <2>1, <2>2, <2>4
<1>4. told' \in [Callers -> Seq(Results)] /\ told'[t] = <<>> /\ \A u \in Callers : u # t => told'[u] = told[u]
  BY <1>1, <1>2, <1>3 DEF UlockTypeOK
<1>5. /\ caller' \in [Callers -> CallType] /\ caller'[t].at = "back" /\ caller'[t].cmd = caller[t].cmd
      /\ caller'[t].all = caller[t].all /\ caller'[t].fd = caller[t].fd
      /\ \A u \in Callers : u # t => caller'[u] = caller[u]
  BY <1>1, <1>2 DEF UlockTypeOK, CallType, Outside
<1>6. UlockTypeOK'
  BY <1>1, <1>2, <1>4, <1>5 DEF UlockTypeOK
<1>7. \A u \in Callers : Asked(u)' <=> Asked(u)
  BY <1>2, ChanStays
<1>8. CallInv(t)'
  <2>1. Quiet(t)' /\ Waits(t)' /\ Proper(t)'
    BY <1>1, <1>2, <1>3, <1>4, <1>5, <1>7 DEF Quiet, InWait, Waits, CallInv, Proper
  <2> QED
    BY <1>1, <1>2, <1>5, <2>1 DEF CallInv
<1>9. ASSUME NEW u \in Callers, u # t PROVE CallInv(u)'
  BY <1>2, <1>4, <1>5, <1>7, <1>9, CallStays DEF UlockInv
<1>10. /\ \A o, fd : Users(o, fd)' = Users(o, fd)
       /\ \A o, fd : Workers(o, fd)' = Workers(o, fd)
  <2>1. \A o, fd : Users(o, fd)' = Users(o, fd)
    BY <1>1, <1>5, UsersStay DEF Outside
  <2>2. \A o, fd : Workers(o, fd)' = Workers(o, fd)
    BY <1>2, <1>5, WorkersStay
  <2> QED
    BY <2>1, <2>2
<1>11. ASSUME NEW o \in LockOwners PROVE ChanInv(o)' /\ OwnerInv(o)' /\ ServerInv(o)'
  <2>1. ChanInv(o)'
    BY <1>2, ChanStays DEF UlockInv
  <2>2. \A u \in Callers : /\ caller'[u].at \in Outside => caller[u].at \in Outside
                           /\ caller'[u].at = "sent" => caller'[u] = caller[u] /\ told'[u] = told[u]
    BY <1>1, <1>4, <1>5 DEF Outside
  <2>3. OwnerInv(o)'
    BY <1>2, <1>10, <2>2, OwnerStays DEF UlockInv
  <2>4. ServerInv(o)'
    BY <1>2, <1>10, <2>2, ServerStays DEF UlockInv
  <2> QED
    BY <2>1, <2>3, <2>4
<1> QED
  BY <1>6, <1>8, <1>9, <1>11 DEF UlockInv

LEMMA SignalKeeps ==
  ASSUME UlockInv, NEW t \in Callers, Signalled(t)
  PROVE  UlockInv'
<1>1. PICK o \in LockOwners : o = OwnerOf[t]
  BY OwnersAre
<1> DEFINE m == [from |-> t, intr |-> TRUE]
<1>2. chan' = [chan EXCEPT ![o] = Append(@, m)] /\ UNCHANGED <<caller, mutex, owner, server, told, job, posix>>
  BY <1>1 DEF Signalled
<1>3. m \in Message /\ m.from = t /\ m.intr = TRUE /\ OwnerOf[m.from] = o
  BY <1>1 DEF Message
<1>4. ChanType /\ \A p \in LockOwners : ChanInv(p)
  BY DEF UlockInv, UlockTypeOK, ChanType
<1> HIDE DEF m
<1>5. ChanType' /\ (\A p \in LockOwners : ChanInv(p)') /\ \A u \in Callers : Asked(u)' <=> Asked(u)
  BY <1>2, <1>3, <1>4, PutAt
<1>6. UlockTypeOK'
  BY <1>2, <1>5 DEF UlockInv, UlockTypeOK, ChanType
<1>7. \A u \in Callers : CallInv(u)'
  BY <1>2, <1>5, CallStays DEF UlockInv
<1>8. \A o1, fd : Users(o1, fd)' = Users(o1, fd) /\ Workers(o1, fd)' = Workers(o1, fd)
  BY <1>2 DEF Users, Uses, Workers, Works
<1>9. ASSUME NEW p \in LockOwners PROVE OwnerInv(p)' /\ ServerInv(p)'
  <2>1. OwnerInv(p)'
    BY <1>2, <1>8, OwnerStays DEF UlockInv
  <2>2. ServerInv(p)'
    BY <1>2, <1>8, ServerStays DEF UlockInv
  <2> QED
    BY <2>1, <2>2
<1> QED
  BY <1>5, <1>6, <1>7, <1>9 DEF UlockInv
-----------------------------------------------------------------------------
(***************************************************************************)
(* The process. What it reads of its channel.                              *)
(***************************************************************************)
Reads(o, intr) == UlockInv /\ o \in LockOwners /\ Next1(o, intr) /\ ReceiveNow(o)

LEMMA ARequest ==
  ASSUME NEW o, Reads(o, FALSE)
  PROVE  \E t \in Callers :
           /\ t = Head(chan[o]).from /\ OwnerOf[t] = o /\ caller[t].at = "sent" /\ mutex = t /\ caller[t].fd \in Fds
           /\ told[t] = <<>> /\ job[t] = "none" /\ Proper(t)
           /\ ChanType' /\ (\A p \in LockOwners : ChanInv(p)')
           /\ ~Asked(t)' /\ \A u \in Callers : u # t => (Asked(u)' <=> Asked(u))
<1>1. ChanType /\ o \in LockOwners /\ chan[o] # <<>> /\ Head(chan[o]).intr = FALSE /\ (\A p \in LockOwners : ChanInv(p))
      /\ chan' = [chan EXCEPT ![o] = Tail(@)]
  BY DEF Reads, UlockInv, UlockTypeOK, ChanType, Next1, ReceiveNow
<1>2. /\ ChanType' /\ \A p \in LockOwners : ChanInv(p)'
      /\ Head(chan[o]) \in Message /\ OwnerOf[Head(chan[o]).from] = o
      /\ Asked(Head(chan[o]).from)
      /\ \A t \in Callers : Asked(t)' <=> Asked(t) /\ ~(Head(chan[o]) = [from |-> t, intr |-> FALSE])
  BY <1>1, Received
<1>3. PICK t \in Callers : t = Head(chan[o]).from
  BY <1>2 DEF Message
<1>4. Head(chan[o]) = [from |-> t, intr |-> FALSE]
  <2>1. Head(chan[o]) = [from |-> Head(chan[o]).from, intr |-> Head(chan[o]).intr]
    BY <1>2 DEF Message
  <2> QED
    BY <1>1, <1>3, <2>1, Zenon
<1>5. ~Asked(t)'
  BY <1>2, <1>4
<1>6. ASSUME NEW u \in Callers, u # t PROVE Asked(u)' <=> Asked(u)
  <2>1. Head(chan[o]) # [from |-> u, intr |-> FALSE]
    BY <1>3, <1>6
  <2> QED
    BY <1>2, <2>1
<1>7. caller[t].at = "sent" /\ told[t] = <<>> /\ job[t] = "none" /\ mutex = t
  BY <1>2, <1>3, WhoAsks DEF Reads
<1>8. Proper(t) /\ caller[t].fd \in Fds
  BY <1>7 DEF Reads, UlockInv, CallInv, Proper
<1> QED
  BY <1>2, <1>3, <1>5, <1>6, <1>7, <1>8

LEMMA InterruptKeeps ==
  ASSUME UlockInv, NEW o \in LockOwners, NEW t \in Callers, Interrupt(o, t)
  PROVE  UlockInv'
<1>1. /\ ChanType /\ chan[o] # <<>> /\ Head(chan[o]).intr = TRUE /\ (\A p \in LockOwners : ChanInv(p))
      /\ chan' = [chan EXCEPT ![o] = Tail(@)] /\ UNCHANGED <<caller, mutex, owner, server, told, posix>>
  BY DEF UlockInv, UlockTypeOK, ChanType, Interrupt, Next1, ReceiveNow
<1>2. \A u \in Callers : ~(Head(chan[o]) = [from |-> u, intr |-> FALSE])
  BY <1>1
<1>3. ChanType' /\ (\A p \in LockOwners : ChanInv(p)') /\ \A u \in Callers : Asked(u)' <=> Asked(u)
  BY <1>1, <1>2, Received
<1>4. /\ job' \in [Callers -> Jobs] /\ \A u \in Callers : u # t => job'[u] = job[u]
      /\ \/ job'[t] = job[t]
         \/ job[t] = "block" /\ job'[t] = "EINTR"
  BY DEF Interrupt, UlockInv, UlockTypeOK, Jobs
<1>5. UlockTypeOK'
  BY <1>1, <1>3, <1>4 DEF UlockInv, UlockTypeOK, ChanType
<1>6. CallInv(t)'
  <2>1. CASE job'[t] = job[t]
    BY <1>1, <1>3, <2>1, CallStays DEF UlockInv
  <2>2. CASE job[t] = "block" /\ job'[t] = "EINTR"
    <3>1. CallInv(t) /\ caller[t].at \in {"sent", "wait"}
      BY <2>2, WhoWorks DEF UlockInv
    <3>2. caller[t].at = "sent" => Sent(t)'
      BY <1>1, <1>3, <2>2, <3>1 DEF CallInv, Sent, InLock, Waits
    <3>3. caller[t].at = "wait" => InWait(t)'
      BY <1>1, <1>3, <2>2, <3>1 DEF CallInv, InWait, InLock, Waits
    <3> QED
      BY <1>1, <3>1, <3>2, <3>3 DEF CallInv, Proper
  <2> QED
    BY <1>4, <2>1, <2>2
<1>7. ASSUME NEW u \in Callers, u # t PROVE CallInv(u)'
  BY <1>1, <1>3, <1>4, <1>7, CallStays DEF UlockInv
<1>8. \A p, fd : Users(p, fd)' = Users(p, fd)
  BY <1>1 DEF Users, Uses
<1>9. \A p, fd : Workers(p, fd)' = Workers(p, fd)
  BY <1>1, <1>4, WorkersStay
<1>10. ASSUME NEW p \in LockOwners PROVE OwnerInv(p)' /\ ServerInv(p)'
  <2>1. OwnerInv(p)'
    BY <1>1, <1>8, OwnerStays DEF UlockInv
  <2>2. ServerInv(p)'
    BY <1>1, <1>9, ServerStays DEF UlockInv
  <2> QED
    BY <2>1, <2>2
<1> QED
  BY <1>3, <1>5, <1>6, <1>7, <1>10 DEF UlockInv

(* A request was read and gets its one answer.                             *)
Reading(t, o) ==
  /\ UlockInv /\ o \in LockOwners /\ OwnerOf[t] = o /\ caller[t].at = "sent" /\ mutex = t /\ caller[t].fd \in Fds
  /\ told[t] = <<>> /\ job[t] = "none" /\ Proper(t)
  /\ ChanType' /\ (\A p \in LockOwners : ChanInv(p)')
  /\ ~Asked(t)' /\ \A u \in Callers : u # t => (Asked(u)' <=> Asked(u))
  /\ UNCHANGED <<caller, mutex, owner>>

(* The locks and files of one owner change.                                *)
OnlyOf(o) ==
  /\ server' \in [LockOwners -> Counts] /\ posix' \in [LockOwners -> [LockedFiles -> LockTypes]]
  /\ \A p \in LockOwners : p # o => server'[p] = server[p] /\ posix'[p] = posix[p]

LEMMA AnswerKeeps ==
  ASSUME NEW t \in Callers, NEW o, Reading(t, o), OnlyOf(o), ServerInv(o)', UNCHANGED job,
         NEW err \in Results, told' = [told EXCEPT ![t] = Append(@, err)], Waits(t) => err # "EAGAIN"
  PROVE  UlockInv'
<1>1. UlockTypeOK /\ UlockInv /\ o \in LockOwners
  BY DEF Reading, UlockInv
<1>2. told[t] = <<>> /\ UNCHANGED <<caller, mutex, owner, job>> /\ caller[t].at = "sent" /\ job[t] = "none" /\ Proper(t)
      /\ OwnerOf[t] = o /\ mutex = t
  BY DEF Reading
<1>3. told' \in [Callers -> Seq(Results)] /\ told'[t] = <<err>> /\ \A u \in Callers : u # t => told'[u] = told[u]
  BY <1>1, <1>2 DEF UlockTypeOK
<1>4. UlockTypeOK'
  BY <1>1, <1>2, <1>3 DEF UlockTypeOK, OnlyOf, Reading, ChanType
<1>5. CallInv(t)'
  <2>1. Len(<<err>>) = 1 /\ <<err>>[1] = err
    OBVIOUS
  <2>2. Sent(t)'
    BY <1>2, <1>3, <2>1 DEF Reading, Sent, Waits
  <2>3. Proper(t)'
    BY <1>2 DEF Proper
  <2> QED
    BY <1>2, <2>2, <2>3 DEF CallInv
<1>6. ASSUME NEW u \in Callers, u # t PROVE CallInv(u)'
  <2>1. Asked(u)' <=> Asked(u)
    BY <1>6 DEF Reading
  <2> QED
    BY <1>1, <1>2, <1>3, <1>6, <2>1, CallStays DEF UlockInv
<1>7. \A p, fd : Users(p, fd)' = Users(p, fd) /\ Workers(p, fd)' = Workers(p, fd)
  BY <1>2 DEF Users, Uses, Workers, Works
<1>8. \A p \in LockOwners : OwnerInv(p)'
  BY <1>1, <1>2, <1>7, OwnerStays DEF UlockInv
<1>9. ASSUME NEW p \in LockOwners, p # o PROVE ServerInv(p)'
  <2>1. server'[p] = server[p] /\ posix'[p] = posix[p]
    BY <1>9 DEF OnlyOf
  <2>2. \A u \in Callers : OwnerOf[u] = p => told'[u] = told[u] /\ caller'[u] = caller[u]
    BY <1>2, <1>3, <1>9
  <2> QED
    BY <1>1, <1>2, <1>7, <2>1, <2>2, ServerStays DEF UlockInv
<1> QED
  BY <1>4, <1>5, <1>6, <1>8, <1>9 DEF UlockInv, Reading

(* A lock that is set, or not.                                             *)
LEMMA LockedOne ==
  ASSUME UlockTypeOK, NEW t \in Callers, caller[t].fd \in Fds, posix' \in {Locked(t), posix}
  PROVE  /\ posix' \in [LockOwners -> [LockedFiles -> LockTypes]]
         /\ \A p \in LockOwners : p # OwnerOf[t] => posix'[p] = posix[p]
         /\ \A f \in LockedFiles : posix'[OwnerOf[t]][f] # "none" =>
              posix[OwnerOf[t]][f] # "none" \/ f = FileOf[caller[t].fd]
<1>1. TypeOf(t) \in LockTypes /\ FileFor(t) \in LockedFiles /\ OwnerOf[t] \in LockOwners
  BY OwnersAre DEF TypeOf, FileFor, LockedFiles, UlockTypeOK, CallType
<1>2. Locked(t) = [posix EXCEPT ![OwnerOf[t]] = [posix[OwnerOf[t]] EXCEPT ![FileFor(t)] = TypeOf(t)]]
  BY DEF Locked
<1>3. posix[OwnerOf[t]] \in [LockedFiles -> LockTypes]
  BY <1>1 DEF UlockTypeOK
<1>4. [posix[OwnerOf[t]] EXCEPT ![FileFor(t)] = TypeOf(t)] \in [LockedFiles -> LockTypes]
  BY <1>1, <1>3
<1>5. CASE posix' = posix
  BY <1>5 DEF UlockTypeOK
<1>6. CASE posix' = Locked(t)
  <2>1. /\ posix' \in [LockOwners -> [LockedFiles -> LockTypes]]
        /\ posix'[OwnerOf[t]] = [posix[OwnerOf[t]] EXCEPT ![FileFor(t)] = TypeOf(t)]
        /\ \A p \in LockOwners : p # OwnerOf[t] => posix'[p] = posix[p]
    BY <1>1, <1>2, <1>4, <1>6 DEF UlockTypeOK
  <2>2. \A f \in LockedFiles : f # FileFor(t) => posix'[OwnerOf[t]][f] = posix[OwnerOf[t]][f]
    BY <1>1, <1>3, <2>1
  <2> QED
    BY <2>1, <2>2 DEF FileFor
<1> QED
  BY <1>5, <1>6

LEMMA UnansweredKeeps ==
  ASSUME NEW t \in Callers, NEW o, Reading(t, o), UNCHANGED <<job, server, posix>>, ~caller[t].all,
         NEW err \in Results, told' = [told EXCEPT ![t] = Append(@, err)], Waits(t) => err # "EAGAIN"
  PROVE  UlockInv'
<1>1. UlockTypeOK /\ UlockInv /\ o \in LockOwners /\ UNCHANGED <<caller, mutex, owner>>
  BY DEF Reading, UlockInv
<1>2. OnlyOf(o)
  BY <1>1 DEF OnlyOf, UlockTypeOK
<1>3. \A p, fd : Workers(p, fd)' = Workers(p, fd)
  BY <1>1 DEF Workers, Works
<1>4. \A u \in Callers : caller'[u].at = "sent" /\ caller'[u].all => told'[u] = told[u]
  <2>1. \A u \in Callers : u # t => told'[u] = told[u]
    BY <1>1 DEF UlockTypeOK
  <2> QED
    BY <1>1, <2>1
<1>5. ServerInv(o)'
  BY <1>1, <1>3, <1>4, ServerStays DEF UlockInv
<1> QED
  BY <1>2, <1>5, AnswerKeeps

LEMMA UnknownKeeps ==
  ASSUME UlockInv, NEW o \in LockOwners, ProcessUnknown(o)
  PROVE  UlockInv'
<1>1. Reads(o, FALSE)
  BY DEF Reads, ProcessUnknown
<1>2. PICK t \in Callers : t = Head(chan[o]).from /\ Reading(t, o)
  BY <1>1, ARequest DEF Reading, ProcessUnknown
<1> QED
  BY <1>2, UnansweredKeeps DEF ProcessUnknown, Replies1, Results

LEMMA FailsKeeps ==
  ASSUME UlockInv, NEW o \in LockOwners, ProcessFails(o)
  PROVE  UlockInv'
<1>1. Reads(o, FALSE)
  BY DEF Reads, ProcessFails
<1>2. PICK t \in Callers : t = Head(chan[o]).from /\ Reading(t, o)
  BY <1>1, ARequest DEF Reading, ProcessFails
<1> QED
  BY <1>2, UnansweredKeeps DEF ProcessFails, Replies1, Results

(* Of all that have sent something, only t may have a reply now.           *)
LEMMA UnlockAllKeeps ==
  ASSUME UlockInv, NEW o \in LockOwners, ProcessUnlockAll(o)
  PROVE  UlockInv'
<1>1. Reads(o, FALSE)
  BY DEF Reads, ProcessUnlockAll
<1>2. PICK t \in Callers : t = Head(chan[o]).from /\ Reading(t, o)
  BY <1>1, ARequest DEF Reading, ProcessUnlockAll
<1>3. PICK fd \in Fds : fd = caller[t].fd
  BY <1>2 DEF Reading
<1> DEFINE closes == server[o][fd] = 0
<1>4. /\ caller[t].all /\ server' = [server EXCEPT ![o] = DropFd(server[o], fd)]
      /\ posix' = IF closes THEN [posix EXCEPT ![o] = [posix[o] EXCEPT ![FileOf[fd]] = "none"]] ELSE posix
      /\ told' = [told EXCEPT ![t] = Append(@, "ok")] /\ UNCHANGED <<caller, mutex, owner, job>>
  BY <1>2, <1>3 DEF ProcessUnlockAll, Replies1
<1>5. UlockTypeOK /\ ServerInv(o) /\ OwnerInv(o) /\ FileOf[fd] \in LockedFiles
  BY DEF UlockInv, LockedFiles
<1>6. server[o] \in Counts /\ posix[o] \in [LockedFiles -> LockTypes]
  BY <1>5 DEF UlockTypeOK
<1>7. DropFd(server[o], fd) = (IF closes THEN [server[o] EXCEPT ![fd] = Missing] ELSE server[o])
      /\ DropFd(server[o], fd) \in Counts
  BY <1>6 DEF DropFd, Counts, Missing
<1>8. OnlyOf(o) /\ server'[o] = DropFd(server[o], fd)
      /\ posix'[o] = IF closes THEN [posix[o] EXCEPT ![FileOf[fd]] = "none"] ELSE posix[o]
  <2>1. [posix[o] EXCEPT ![FileOf[fd]] = "none"] \in [LockedFiles -> LockTypes]
    BY <1>6 DEF LockTypes
  <2> HIDE DEF closes
  <2> QED
    BY <1>4, <1>5, <1>7, <2>1 DEF UlockTypeOK, OnlyOf
<1>9. \A g : Workers(o, g)' = Workers(o, g)
  BY <1>4 DEF Workers, Works
<1>10. \A g \in Fds : server'[o][g] = IF g = fd /\ closes THEN Missing ELSE server[o][g]
  BY <1>6, <1>7, <1>8 DEF Counts
<1>11. \A g \in Fds : Counted(server[o][g], Workers(o, g)) /\ IsFiniteSet(Workers(o, g)) /\ IsFiniteSet(Users(o, g))
  BY <1>5, UsersFinite DEF ServerInv
<1>12. \A g \in Fds : Counted(server'[o][g], Workers(o, g))
  BY <1>10, <1>11, CountNone
<1>13. owner[o].fds[fd] = 0 => server'[o][fd] = Missing
  <2>1. ASSUME owner[o].fds[fd] = 0 PROVE server[o][fd] \in {0, Missing}
    <3>1. Users(o, fd) = {}
      BY <1>5, <1>11, <2>1, CountedRange DEF OwnerInv
    <3>2. Workers(o, fd) = {}
      BY <3>1, WorkersAreUsers
    <3> QED
      BY <1>11, <3>2, FS_EmptySet DEF Counted
  <2> QED
    BY <1>10, <2>1
<1>14. \A f \in LockedFiles : posix'[o][f] # "none" => \E g \in Fds : FileOf[g] = f /\ server'[o][g] # Missing
  <2> SUFFICES ASSUME NEW f \in LockedFiles, posix'[o][f] # "none"
               PROVE  \E g \in Fds : FileOf[g] = f /\ server'[o][g] # Missing
    OBVIOUS
  <2>1. posix[o][f] # "none" /\ ~(closes /\ f = FileOf[fd])
    BY <1>5, <1>6, <1>8
  <2>2. PICK g \in Fds : FileOf[g] = f /\ server[o][g] # Missing
    BY <1>5, <2>1 DEF ServerInv
  <2>3. ~(g = fd /\ closes)
    BY <2>1, <2>2
  <2> QED
    BY <1>10, <2>2, <2>3
<1>15. ServerInv(o)'
  <2>1. \A g \in Fds : server'[o][g] # Missing => owner'[o].fds[g] # Missing
    BY <1>4, <1>5, <1>10 DEF ServerInv
  <2>2. \A u \in Callers : caller'[u].at = "sent" => u = t
    BY <1>2, <1>4, OneIsSent DEF Reading
  <2>3. caller'[t].fd = fd /\ owner'[o].fds = owner[o].fds
    BY <1>3, <1>4
  <2> QED
    BY <1>9, <1>12, <1>13, <1>14, <2>1, <2>2, <2>3 DEF ServerInv, Counted, Missing
<1> QED
  <2>1. ~Waits(t)
    BY <1>2, <1>4 DEF Reading, Proper, Waits
  <2>2. "ok" \in Results
    BY DEF Results
  <2> QED
    BY <1>2, <1>4, <1>8, <1>15, <2>1, <2>2, AnswerKeeps

(* A file that becomes known.                                              *)
LEMMA WithOne ==
  ASSUME UlockInv, NEW o \in LockOwners, NEW t \in Callers, Reading(t, o), ~caller[t].all, NEW fd \in Fds, fd = caller[t].fd
  PROVE  /\ With(o, fd) \in [LockOwners -> Counts]
         /\ \A p \in LockOwners : p # o => With(o, fd)[p] = server[p]
         /\ \A g \in Fds : g # fd => With(o, fd)[o][g] = server[o][g]
         /\ Counted(With(o, fd)[o][fd], Workers(o, fd)) /\ With(o, fd)[o][fd] \in Nat
         /\ owner[o].fds[fd] # Missing
<1>1. UlockTypeOK /\ ServerInv(o) /\ OwnerInv(o) /\ server[o] \in Counts
  BY DEF UlockInv, UlockTypeOK
<1>2. With(o, fd) = IF server[o][fd] = Missing THEN [server EXCEPT ![o] = [server[o] EXCEPT ![fd] = 0]] ELSE server
  BY DEF With
<1>3. Counted(server[o][fd], Workers(o, fd)) /\ IsFiniteSet(Workers(o, fd)) /\ server[o][fd] \in Int /\ server[o][fd] >= Missing
  BY <1>1, UsersFinite, CountedRange DEF ServerInv
<1>4. [server[o] EXCEPT ![fd] = 0] \in Counts
  BY <1>1 DEF Counts
<1>5. /\ With(o, fd) \in [LockOwners -> Counts]
      /\ \A p \in LockOwners : p # o => With(o, fd)[p] = server[p]
      /\ With(o, fd)[o] = IF server[o][fd] = Missing THEN [server[o] EXCEPT ![fd] = 0] ELSE server[o]
  BY <1>1, <1>2, <1>4 DEF UlockTypeOK
<1>6. /\ \A g \in Fds : g # fd => With(o, fd)[o][g] = server[o][g]
      /\ With(o, fd)[o][fd] = IF server[o][fd] = Missing THEN 0 ELSE server[o][fd]
  BY <1>1, <1>5 DEF Counts
<1>7. Counted(With(o, fd)[o][fd], Workers(o, fd)) /\ With(o, fd)[o][fd] \in Nat
  <2>1. CASE server[o][fd] = Missing
    <3>1. Workers(o, fd) = {}
      BY <1>3, <2>1, CountedRange
    <3> QED
      BY <1>6, <2>1, <3>1, FS_EmptySet DEF Counted
  <2>2. CASE server[o][fd] # Missing
    BY <1>3, <1>6, <2>2 DEF Missing
  <2> QED
    BY <2>1, <2>2
<1>8. owner[o].fds[fd] # Missing
  <2>1. t \in Users(o, fd)
    BY DEF Users, Uses, Reading, Outside
  <2>2. Counted(owner[o].fds[fd], Users(o, fd)) /\ IsFiniteSet(Users(o, fd))
    BY <1>1, UsersFinite DEF OwnerInv
  <2>3. owner[o].fds[fd] > 0
    BY <2>1, <2>2, CountedRange
  <2> QED
    BY <2>3 DEF Missing
<1> QED
  BY <1>5, <1>6, <1>7, <1>8

LEMMA NowKeeps ==
  ASSUME UlockInv, NEW o \in LockOwners, ProcessNow(o)
  PROVE  UlockInv'
<1>1. Reads(o, FALSE)
  BY DEF Reads, ProcessNow
<1>2. PICK t \in Callers : t = Head(chan[o]).from /\ Reading(t, o)
  BY <1>1, ARequest DEF Reading, ProcessNow
<1>3. PICK fd \in Fds : fd = caller[t].fd
  BY <1>2 DEF Reading
<1>4. PICK err \in {"ok", "EAGAIN"} : told' = [told EXCEPT ![t] = Append(@, err)]
  BY <1>2 DEF ProcessNow, Replies1
<1>5. /\ ~caller[t].all /\ ~Waits(t) /\ server' = With(o, fd)
      /\ posix' \in {Locked(t), posix} /\ UNCHANGED <<caller, mutex, owner, job>>
  BY <1>2, <1>3 DEF ProcessNow, Waits
<1>6. UlockTypeOK /\ ServerInv(o) /\ OwnerOf[t] = o
  BY <1>2 DEF UlockInv, Reading
<1>7. /\ server' \in [LockOwners -> Counts]
      /\ \A p \in LockOwners : p # o => server'[p] = server[p]
      /\ \A g \in Fds : g # fd => server'[o][g] = server[o][g]
      /\ Counted(server'[o][fd], Workers(o, fd)) /\ server'[o][fd] \in Nat
      /\ owner[o].fds[fd] # Missing
  BY <1>2, <1>3, <1>5, WithOne, ZenonT(60)
<1>8. /\ posix' \in [LockOwners -> [LockedFiles -> LockTypes]]
      /\ \A p \in LockOwners : p # o => posix'[p] = posix[p]
      /\ \A f \in LockedFiles : posix'[o][f] # "none" => posix[o][f] # "none" \/ f = FileOf[fd]
  BY <1>3, <1>5, <1>6, LockedOne
<1>9. OnlyOf(o)
  BY <1>7, <1>8 DEF OnlyOf
<1>10. \A g : Workers(o, g)' = Workers(o, g)
  BY <1>5 DEF Workers, Works
<1>11. server'[o][fd] # Missing
  BY <1>7 DEF Missing
<1>12. ServerInv(o)'
  <2>1. \A g \in Fds : Counted(server'[o][g], Workers(o, g)')
    BY <1>6, <1>7, <1>10 DEF ServerInv
  <2>2. \A g \in Fds : server'[o][g] # Missing => owner'[o].fds[g] # Missing
    BY <1>5, <1>6, <1>7 DEF ServerInv
  <2>3. \A u \in Callers : caller'[u].at = "sent" => ~caller'[u].all
    BY <1>2, <1>5, OneIsSent DEF Reading
  <2>4. \A f \in LockedFiles : posix'[o][f] # "none" => \E g \in Fds : FileOf[g] = f /\ server'[o][g] # Missing
    <3> SUFFICES ASSUME NEW f \in LockedFiles, posix'[o][f] # "none"
                 PROVE  \E g \in Fds : FileOf[g] = f /\ server'[o][g] # Missing
      OBVIOUS
    <3>1. CASE f = FileOf[fd]
      BY <1>11, <3>1
    <3>2. CASE f # FileOf[fd]
      <4>1. PICK g \in Fds : FileOf[g] = f /\ server[o][g] # Missing
        BY <1>6, <1>8, <3>2 DEF ServerInv
      <4>2. g # fd
        BY <3>2, <4>1
      <4> QED
        BY <1>7, <4>1, <4>2
    <3> QED
      BY <3>1, <3>2
  <2> QED
    BY <2>1, <2>2, <2>3, <2>4 DEF ServerInv, Counted, Missing
<1> QED
  <2>1. err \in Results
    BY DEF Results
  <2> QED
    BY <1>2, <1>4, <1>5, <1>9, <1>12, <2>1, AnswerKeeps

LEMMA WaitKeeps ==
  ASSUME UlockInv, NEW o \in LockOwners, ProcessWait(o)
  PROVE  UlockInv'
<1>1. Reads(o, FALSE)
  BY DEF Reads, ProcessWait
<1>2. PICK t \in Callers : t = Head(chan[o]).from /\ Reading(t, o)
  BY <1>1, ARequest DEF Reading, ProcessWait
<1>3. PICK fd \in Fds : fd = caller[t].fd
  BY <1>2 DEF Reading
<1> DEFINE w == With(o, fd)
           k == w[o][fd] + 1
<1>4. /\ ~caller[t].all /\ Waits(t) /\ server' = [w EXCEPT ![o] = [w[o] EXCEPT ![fd] = k]]
      /\ job' = [job EXCEPT ![t] = "try"] /\ UNCHANGED <<caller, mutex, owner, told, posix>>
  BY <1>2, <1>3 DEF ProcessWait, Waits
<1>5. UlockTypeOK /\ ServerInv(o) /\ OwnerOf[t] = o /\ job[t] = "none" /\ told[t] = <<>> /\ caller[t].at = "sent" /\ Proper(t)
      /\ mutex = t /\ ~Asked(t)' /\ \A u \in Callers : u # t => (Asked(u)' <=> Asked(u))
  BY <1>2 DEF UlockInv, Reading
<1>6. /\ w \in [LockOwners -> Counts]
      /\ \A p \in LockOwners : p # o => w[p] = server[p]
      /\ \A g \in Fds : g # fd => w[o][g] = server[o][g]
      /\ Counted(w[o][fd], Workers(o, fd)) /\ w[o][fd] \in Nat
      /\ owner[o].fds[fd] # Missing
  BY <1>2, <1>3, <1>4, WithOne, ZenonT(60)
<1> HIDE DEF w
<1>7. k \in Int /\ k # Missing
  BY <1>6 DEF Missing
<1>8. t \notin Workers(o, fd)
  BY <1>5 DEF Workers, Works
<1>9. Counted(k, Workers(o, fd) \cup {t})
  <2>1. w[o][fd] # Missing
    BY <1>6 DEF Missing
  <2> QED
    BY <1>6, <1>8, <2>1, UsersFinite, CountMore
<1> HIDE DEF k
<1>10. /\ server' \in [LockOwners -> Counts] /\ server'[o][fd] = k
       /\ \A g \in Fds : g # fd => server'[o][g] = server[o][g]
       /\ \A p \in LockOwners : p # o => server'[p] = server[p]
  <2>1. w[o] \in Counts /\ [w[o] EXCEPT ![fd] = k] \in Counts
    BY <1>6, <1>7 DEF Counts
  <2>2. /\ server' \in [LockOwners -> Counts] /\ server'[o] = [w[o] EXCEPT ![fd] = k]
        /\ \A p \in LockOwners : p # o => server'[p] = w[p]
    BY <1>4, <1>6, <2>1
  <2>3. server'[o][fd] = k /\ \A g \in Fds : g # fd => server'[o][g] = w[o][g]
    BY <2>1, <2>2 DEF Counts
  <2> QED
    BY <1>6, <2>2, <2>3
<1>11. job' \in [Callers -> Jobs] /\ job'[t] = "try" /\ \A u \in Callers : u # t => job'[u] = job[u]
  BY <1>4, <1>5 DEF UlockTypeOK, Jobs
<1>12. UlockTypeOK'
  BY <1>2, <1>4, <1>5, <1>10, <1>11 DEF UlockTypeOK, Reading, ChanType
<1>13. CallInv(t)'
  <2>1. Sent(t)'
    BY <1>4, <1>5, <1>11 DEF Sent, Waits
  <2> QED
    BY <1>4, <1>5, <2>1 DEF CallInv, Proper
<1>14. ASSUME NEW u \in Callers, u # t PROVE CallInv(u)'
  BY <1>4, <1>5, <1>11, <1>14, CallStays DEF UlockInv
<1>15. \A p, g : /\ Users(p, g)' = Users(p, g)
                 /\ Workers(p, g)' = IF p = o /\ g = fd THEN Workers(p, g) \cup {t} ELSE Workers(p, g)
  <2>1. \A u \in Callers : \A p, g : Works(u, p, g)' <=> Works(u, p, g) \/ (u = t /\ p = o /\ g = fd)
    BY <1>3, <1>4, <1>5, <1>11 DEF Works
  <2> QED
    BY <1>4, <2>1 DEF Users, Uses, Workers
<1>16. \A p \in LockOwners : OwnerInv(p)'
  BY <1>4, <1>15, OwnerStays DEF UlockInv
<1>17. ASSUME NEW p \in LockOwners PROVE ServerInv(p)'
  <2>1. CASE p # o
    BY <1>4, <1>10, <1>15, <2>1, ServerStays DEF UlockInv
  <2>2. CASE p = o
    <3>1. \A g \in Fds : Counted(server'[o][g], Workers(o, g)')
      BY <1>5, <1>9, <1>10, <1>15 DEF ServerInv
    <3>2. \A g \in Fds : server'[o][g] # Missing => owner'[o].fds[g] # Missing
      BY <1>4, <1>5, <1>6, <1>10 DEF ServerInv
    <3>3. \A u \in Callers : caller'[u].at = "sent" => ~caller'[u].all
      BY <1>4, <1>5, OneIsSent
    <3>4. \A f \in LockedFiles : posix'[o][f] # "none" => \E g \in Fds : FileOf[g] = f /\ server'[o][g] # Missing
      BY <1>4, <1>5, <1>7, <1>10 DEF ServerInv
    <3> QED
      BY <2>2, <3>1, <3>2, <3>3, <3>4 DEF ServerInv, Counted, Missing
  <2> QED
    BY <2>1, <2>2
<1> QED
  BY <1>2, <1>12, <1>13, <1>14, <1>16, <1>17 DEF UlockInv, Reading
-----------------------------------------------------------------------------
(***************************************************************************)
(* The threads of the process.                                             *)
(***************************************************************************)
LEMMA KnownFd ==
  ASSUME UlockInv, NEW t \in Callers, job[t] # "none"
  PROVE  /\ caller[t].fd \in Fds /\ OwnerOf[t] \in LockOwners
         /\ server[OwnerOf[t]][caller[t].fd] > 0
         /\ server[OwnerOf[t]][caller[t].fd] \in Int
<1>1. PICK o \in LockOwners : o = OwnerOf[t]
  BY OwnersAre
<1>2. caller[t].fd \in Fds
  BY WhoWorks
<1>3. PICK fd \in Fds : fd = caller[t].fd
  BY <1>2
<1>4. t \in Workers(o, fd)
  BY <1>1, <1>3 DEF Workers, Works
<1>5. Counted(server[o][fd], Workers(o, fd)) /\ IsFiniteSet(Workers(o, fd))
  BY UsersFinite DEF UlockInv, ServerInv
<1>6. server[o][fd] > 0 /\ server[o][fd] \in Int
  BY <1>4, <1>5, CountedRange
<1> QED
  BY <1>1, <1>3, <1>6

(* A thread that goes on, and may get the lock.                            *)
LEMMA JobKeeps ==
  ASSUME UlockInv, NEW t \in Callers, job[t] # "none", UNCHANGED <<caller, mutex, owner, server, chan>>,
         NEW j \in Jobs \ {"none"}, job' = [job EXCEPT ![t] = j], posix' \in {Locked(t), posix},
         told' \in [Callers -> Seq(Results)], \A u \in Callers : u # t => told'[u] = told[u],
         caller[t].at = "sent" => Sent(t)', caller[t].at = "wait" => InWait(t)'
  PROVE  UlockInv'
<1>1. UlockTypeOK /\ caller[t].at \in {"sent", "wait"} /\ ~caller[t].all /\ caller[t].fd \in Fds /\ CallInv(t)
  BY WhoWorks DEF UlockInv
<1>2. PICK o \in LockOwners : o = OwnerOf[t]
  BY OwnersAre
<1>3. PICK fd \in Fds : fd = caller[t].fd
  BY <1>1
<1>4. server[o][fd] # Missing
  <2>1. server[o][fd] > 0
    BY <1>2, <1>3, KnownFd
  <2> QED
    BY <2>1 DEF Missing
<1>5. job' \in [Callers -> Jobs] /\ job'[t] = j /\ \A u \in Callers : u # t => job'[u] = job[u]
  BY <1>1 DEF UlockTypeOK
<1>6. /\ posix' \in [LockOwners -> [LockedFiles -> LockTypes]]
      /\ \A p \in LockOwners : p # o => posix'[p] = posix[p]
      /\ \A f \in LockedFiles : posix'[o][f] # "none" => posix[o][f] # "none" \/ f = FileOf[fd]
  BY <1>1, <1>2, <1>3, LockedOne
<1>7. UlockTypeOK'
  BY <1>1, <1>5, <1>6 DEF UlockTypeOK
<1>8. \A u \in Callers : Asked(u)' <=> Asked(u)
  BY ChanStays
<1>9. CallInv(t)'
  BY <1>1 DEF CallInv, Proper
<1>10. ASSUME NEW u \in Callers, u # t PROVE CallInv(u)'
  BY <1>5, <1>8, <1>10, CallStays DEF UlockInv
<1>11. /\ \A p, g : Users(p, g)' = Users(p, g)
       /\ \A p, g : Workers(p, g)' = Workers(p, g)
  <2>1. \A p, g : Users(p, g)' = Users(p, g)
    BY DEF Users, Uses
  <2>2. \A p, g : Workers(p, g)' = Workers(p, g)
    BY <1>5, WorkersStay
  <2> QED
    BY <2>1, <2>2
<1>12. \A p \in LockOwners : ChanInv(p)' /\ OwnerInv(p)'
  BY <1>11, ChanStays, OwnerStays DEF UlockInv
<1>13. \A u \in Callers : caller'[u].at = "sent" /\ caller'[u].all => told'[u] = told[u]
  BY <1>1
<1>14. ASSUME NEW p \in LockOwners PROVE ServerInv(p)'
  <2>1. ServerInv(p)
    BY DEF UlockInv
  <2>2. \A f \in LockedFiles : posix'[p][f] # "none" => \E g \in Fds : FileOf[g] = f /\ server'[p][g] # Missing
    <3> SUFFICES ASSUME NEW f \in LockedFiles, posix'[p][f] # "none"
                 PROVE  \E g \in Fds : FileOf[g] = f /\ server'[p][g] # Missing
      OBVIOUS
    <3>1. CASE p = o /\ f = FileOf[fd]
      BY <1>4, <3>1
    <3>2. CASE ~(p = o /\ f = FileOf[fd])
      BY <1>6, <2>1, <3>2 DEF ServerInv
    <3> QED
      BY <3>1, <3>2
  <2>3. \A g \in Fds : Counted(server'[p][g], Workers(p, g)')
    BY <1>11, <2>1 DEF ServerInv
  <2>4. \A g \in Fds : server'[p][g] # Missing => owner'[p].fds[g] # Missing
    BY <2>1 DEF ServerInv
  <2>5. \A u \in Callers : OwnerOf[u] = p /\ caller'[u].at = "sent" /\ caller'[u].all /\ told'[u] # <<>>
                           /\ owner'[p].fds[caller'[u].fd] = 0 => server'[p][caller'[u].fd] = Missing
    BY <1>13, <2>1 DEF ServerInv
  <2> QED
    BY <2>2, <2>3, <2>4, <2>5 DEF ServerInv, Counted, Missing
<1> QED
  BY <1>7, <1>9, <1>10, <1>12, <1>14 DEF UlockInv

LEMMA TryLockKeeps ==
  ASSUME UlockInv, NEW t \in Callers, TryLock(t)
  PROVE  UlockInv'
<1>1. job[t] = "try" /\ UNCHANGED <<caller, mutex, owner, server, chan>>
  BY DEF TryLock
<1>2. CallInv(t) /\ told \in [Callers -> Seq(Results)] /\ caller[t].at \in {"sent", "wait"} /\ Waits(t)
  BY <1>1, WhoWorks DEF UlockInv, UlockTypeOK
<1>3. caller[t].at = "sent" /\ told[t] = <<>> /\ ~Asked(t) /\ job \in [Callers -> Jobs]
  BY <1>1, <1>2 DEF CallInv, Sent, InWait, InLock, UlockInv, UlockTypeOK
<1>4. ~Asked(t)'
  BY <1>1, <1>3, ChanStays
<1>5. CASE Blockers(t) = {}
  <2>1. posix' = Locked(t) /\ job' = [job EXCEPT ![t] = "ok"] /\ UNCHANGED told
    BY <1>5 DEF TryLock
  <2>2. Sent(t)'
    BY <1>1, <1>2, <1>3, <1>4, <2>1 DEF Sent, Waits
  <2>3. "ok" \in Jobs \ {"none"}
    BY DEF Jobs
  <2> QED
    BY <1>1, <1>2, <1>3, <2>1, <2>2, <2>3, JobKeeps
<1>6. CASE Blockers(t) # {}
  <2>1. posix' = posix /\ job' = [job EXCEPT ![t] = "told"] /\ told' = [told EXCEPT ![t] = Append(@, "EAGAIN")]
    BY <1>6 DEF TryLock, TellWait
  <2>2. /\ told' \in [Callers -> Seq(Results)] /\ told'[t] = <<"EAGAIN">>
        /\ \A u \in Callers : u # t => told'[u] = told[u]
    BY <1>2, <1>3, <2>1 DEF Results
  <2>3. Sent(t)'
    BY <1>1, <1>2, <1>3, <1>4, <2>1, <2>2 DEF Sent, Waits, InLock
  <2>4. "told" \in Jobs \ {"none"}
    BY DEF Jobs
  <2> QED
    BY <1>1, <1>3, <2>1, <2>2, <2>3, <2>4, JobKeeps
<1> QED
  BY <1>5, <1>6

(* A thread that has told the caller, and waits.                           *)
LEMMA InLockKeeps ==
  ASSUME UlockInv, NEW t \in Callers, job[t] \in {"told", "block"}, NEW j \in {"EDEADLK", "block", "ok"},
         job' = [job EXCEPT ![t] = j], posix' \in {Locked(t), posix},
         UNCHANGED <<caller, mutex, owner, server, chan, told>>
  PROVE  UlockInv'
<1>1. CallInv(t) /\ told \in [Callers -> Seq(Results)] /\ job \in [Callers -> Jobs] /\ Waits(t) /\ ~Asked(t)
  BY WhoWorks DEF UlockInv, UlockTypeOK
<1>2. ~Asked(t)'
  BY <1>1, ChanStays
<1>3. job'[t] = j
  BY <1>1
<1>4. caller[t].at = "sent" => Sent(t)'
  BY <1>1, <1>2, <1>3 DEF CallInv, Sent, Waits, InLock
<1>5. caller[t].at = "wait" => InWait(t)'
  BY <1>1, <1>2, <1>3 DEF CallInv, InWait, Waits, InLock
<1>6. j \in Jobs \ {"none"}
  BY DEF Jobs
<1> QED
  BY <1>1, <1>4, <1>5, <1>6, JobKeeps

LEMMA BlockLockKeeps ==
  ASSUME UlockInv, NEW t \in Callers, BlockLock(t)
  PROVE  UlockInv'
<1>1. PICK j \in {"EDEADLK", "block"} : job' = [job EXCEPT ![t] = j]
  BY DEF BlockLock
<1> QED
  BY <1>1, InLockKeeps DEF BlockLock

LEMMA GetLockKeeps ==
  ASSUME UlockInv, NEW t \in Callers, GetLock(t)
  PROVE  UlockInv'
BY InLockKeeps DEF GetLock

LEMMA EndRequestKeeps ==
  ASSUME UlockInv, NEW t \in Callers, EndRequest(t)
  PROVE  UlockInv'
<1>1. PICK o \in LockOwners : o = OwnerOf[t]
  BY OwnersAre
<1>2. job[t] \in {"ok", "EINTR", "EDEADLK"} /\ UNCHANGED <<caller, mutex, owner, chan, posix>>
  BY DEF EndRequest
<1>3. /\ UlockTypeOK /\ ServerInv(o) /\ CallInv(t) /\ caller[t].at \in {"sent", "wait"} /\ Waits(t) /\ ~Asked(t)
      /\ ~caller[t].all
  BY <1>2, WhoWorks DEF UlockInv
<1>4. PICK fd \in Fds : fd = caller[t].fd /\ server[o][fd] > 0 /\ server[o][fd] \in Int
  BY <1>1, <1>2, KnownFd
<1> DEFINE k == server[o][fd] - 1
<1>5. server' = [server EXCEPT ![o] = [server[o] EXCEPT ![fd] = k]]
  BY <1>1, <1>4 DEF EndRequest
<1>6. told' = [told EXCEPT ![t] = Append(@, job[t])] /\ job' = [job EXCEPT ![t] = "none"]
  BY DEF EndRequest, Replies1
<1>7. k \in Int /\ k # Missing
  BY <1>4 DEF Missing
<1>8. Counted(k, Workers(o, fd) \ {t})
  <2>1. t \in Workers(o, fd)
    BY <1>1, <1>2, <1>4 DEF Workers, Works
  <2>2. Counted(server[o][fd], Workers(o, fd)) /\ IsFiniteSet(Workers(o, fd))
    BY <1>3, UsersFinite DEF ServerInv
  <2> QED
    BY <2>1, <2>2, CountLess
<1> HIDE DEF k
<1>9. /\ server' \in [LockOwners -> Counts] /\ server'[o][fd] = k
      /\ \A g \in Fds : g # fd => server'[o][g] = server[o][g]
      /\ \A p \in LockOwners : p # o => server'[p] = server[p]
  <2>1. server[o] \in Counts /\ [server[o] EXCEPT ![fd] = k] \in Counts
    BY <1>3, <1>7 DEF UlockTypeOK, Counts
  <2>2. /\ server' \in [LockOwners -> Counts] /\ server'[o] = [server[o] EXCEPT ![fd] = k]
        /\ \A p \in LockOwners : p # o => server'[p] = server[p]
    BY <1>3, <1>5, <2>1 DEF UlockTypeOK
  <2> QED
    BY <2>1, <2>2 DEF Counts
<1>10. job' \in [Callers -> Jobs] /\ job'[t] = "none" /\ \A u \in Callers : u # t => job'[u] = job[u]
  BY <1>3, <1>6 DEF UlockTypeOK, Jobs
<1>11. told[t] \in Seq(Results) /\ job[t] \in Results
  BY <1>2, <1>3 DEF UlockTypeOK, Results
<1>12. /\ told' \in [Callers -> Seq(Results)] /\ told'[t] = Append(told[t], job[t])
       /\ \A u \in Callers : u # t => told'[u] = told[u]
  BY <1>3, <1>6, <1>11 DEF UlockTypeOK
<1>13. UlockTypeOK'
  BY <1>2, <1>3, <1>9, <1>10, <1>12 DEF UlockTypeOK
<1>14. \A u \in Callers : Asked(u)' <=> Asked(u)
  BY <1>2, ChanStays
<1>15. CallInv(t)'
  <2>1. told[t] = <<>> => Len(told'[t]) = 1 /\ told'[t][1] = job[t]
    BY <1>11, <1>12
  <2>2. told[t] = <<"EAGAIN">> => Len(told'[t]) = 2 /\ told'[t][1] = "EAGAIN"
    BY <1>11, <1>12
  <2>3. caller[t].at = "sent" => Sent(t)'
    BY <1>2, <1>3, <1>10, <1>14, <2>1, <2>2 DEF CallInv, Sent, Waits
  <2>4. caller[t].at = "wait" => InWait(t)'
    BY <1>2, <1>3, <1>10, <1>14, <2>1 DEF CallInv, InWait, Waits
  <2> QED
    BY <1>2, <1>3, <2>3, <2>4 DEF CallInv, Proper
<1>16. ASSUME NEW u \in Callers, u # t PROVE CallInv(u)'
  BY <1>2, <1>10, <1>12, <1>14, <1>16, CallStays DEF UlockInv
<1>17. /\ \A p, g : Users(p, g)' = Users(p, g)
       /\ \A p, g : Workers(p, g)' = IF p = o /\ g = fd THEN Workers(p, g) \ {t} ELSE Workers(p, g)
  <2>1. \A p, g : Users(p, g)' = Users(p, g)
    BY <1>2 DEF Users, Uses
  <2>2. \A u \in Callers : \A p, g : Works(u, p, g)' <=> Works(u, p, g) /\ ~(u = t /\ p = o /\ g = fd)
    BY <1>1, <1>2, <1>4, <1>10 DEF Works
  <2> QED
    BY <2>1, <2>2 DEF Workers
<1>18. \A p \in LockOwners : ChanInv(p)' /\ OwnerInv(p)'
  BY <1>2, <1>17, ChanStays, OwnerStays DEF UlockInv
<1>19. \A u \in Callers : caller'[u].at = "sent" /\ caller'[u].all => told'[u] = told[u]
  BY <1>2, <1>3, <1>12
<1>20. ASSUME NEW p \in LockOwners PROVE ServerInv(p)'
  <2>1. CASE p # o
    BY <1>2, <1>9, <1>17, <1>19, <2>1, ServerStays DEF UlockInv
  <2>2. CASE p = o
    <3>1. \A g \in Fds : Counted(server'[o][g], Workers(o, g)')
      BY <1>3, <1>8, <1>9, <1>17 DEF ServerInv
    <3>2. \A g \in Fds : server'[o][g] # Missing <=> server[o][g] # Missing
      <4>1. server[o][fd] # Missing
        BY <1>4 DEF Missing
      <4> QED
        BY <1>7, <1>9, <4>1
    <3>3. \A g \in Fds : server'[o][g] # Missing => owner'[o].fds[g] # Missing
      BY <1>2, <1>3, <3>2 DEF ServerInv
    <3>4. \A u \in Callers : OwnerOf[u] = o /\ caller'[u].at = "sent" /\ caller'[u].all /\ told'[u] # <<>>
                             /\ owner'[o].fds[caller'[u].fd] = 0 => server'[o][caller'[u].fd] = Missing
      <4> SUFFICES ASSUME NEW u \in Callers, OwnerOf[u] = o, caller'[u].at = "sent", caller'[u].all, told'[u] # <<>>,
                          owner'[o].fds[caller'[u].fd] = 0
                   PROVE  server'[o][caller'[u].fd] = Missing
        OBVIOUS
      <4>1. caller[u].at = "sent" /\ caller[u].all /\ told[u] # <<>> /\ owner[o].fds[caller[u].fd] = 0
            /\ caller'[u].fd = caller[u].fd
        BY <1>2, <1>19
      <4>2. server[o][caller[u].fd] = Missing
        BY <1>3, <4>1 DEF ServerInv
      <4>3. caller[u].fd \in Fds
        BY <4>1 DEF UlockInv, CallInv, Proper
      <4> QED
        BY <3>2, <4>1, <4>2, <4>3
    <3>5. \A f \in LockedFiles : posix'[o][f] # "none" => \E g \in Fds : FileOf[g] = f /\ server'[o][g] # Missing
      BY <1>2, <1>3, <3>2 DEF ServerInv
    <3> QED
      BY <2>2, <3>1, <3>3, <3>4, <3>5 DEF ServerInv, Counted, Missing
  <2> QED
    BY <2>1, <2>2
<1> QED
  BY <1>13, <1>15, <1>16, <1>18, <1>20 DEF UlockInv
-----------------------------------------------------------------------------
LEMMA StepsKeepUlock == UlockInv /\ [UlockNext]_ulockvars => UlockInv'
<1> SUFFICES ASSUME UlockInv, [UlockNext]_ulockvars PROVE UlockInv'
  OBVIOUS
<1>1. CASE UNCHANGED ulockvars
  <2>1. UNCHANGED <<caller, mutex, owner, server, chan, told, job, posix>>
    BY <1>1 DEF ulockvars
  <2>2. UlockTypeOK' /\ \A u \in Callers : Asked(u)' <=> Asked(u)
    BY <2>1, ChanStays DEF UlockInv, UlockTypeOK
  <2>3. \A u \in Callers : CallInv(u)'
    BY <2>1, <2>2, CallStays DEF UlockInv
  <2>4. \A p, g : Users(p, g)' = Users(p, g) /\ Workers(p, g)' = Workers(p, g)
    BY <2>1 DEF Users, Uses, Workers, Works
  <2>5. \A p \in LockOwners : ChanInv(p)' /\ OwnerInv(p)' /\ ServerInv(p)'
    BY <2>1, <2>4, ChanStays, OwnerStays, ServerStays DEF UlockInv
  <2> QED
    BY <2>2, <2>3, <2>5 DEF UlockInv
<1>2. ASSUME NEW t \in Callers, UlockCalls(t) PROVE UlockInv'
  <2>1. CASE \E r \in Requests[t] : UlockOp(t, r)
    BY <2>1, OpKeeps
  <2>2. CASE SendFails(t)
    BY <2>2, ReturnKeeps DEF SendFails
  <2>3. CASE Signalled(t)
    BY <2>3, SignalKeeps
  <2>4. CASE \E alive \in BOOLEAN : NewOwner(t, alive)
    BY <2>4, NewOwnerKeeps
  <2> QED
    BY <1>2, <2>1, <2>2, <2>3, <2>4 DEF UlockCalls
<1>3. ASSUME NEW t \in Callers, UlockSteps(t) PROVE UlockInv'
  <2>1. CASE SendNowhere(t)
    BY <2>1, ReturnKeeps DEF SendNowhere
  <2>2. CASE SendToNobody(t)
    BY <2>2, ReturnKeeps DEF SendToNobody
  <2> QED
    BY <1>3, <2>1, <2>2, SendKeeps, FirstReplyKeeps, SecondReplyKeeps, BackKeeps,
       TryLockKeeps, BlockLockKeeps, GetLockKeeps, EndRequestKeeps DEF UlockSteps
<1>4. ASSUME NEW o \in LockOwners, ServerSteps(o) PROVE UlockInv'
  BY <1>4, InterruptKeeps, UnlockAllKeeps, UnknownKeeps, NowKeeps, WaitKeeps, FailsKeeps DEF ServerSteps
<1> QED
  BY <1>1, <1>2, <1>3, <1>4 DEF UlockNext

LEMMA NothingIsFreed == UlockInv => NoneFreed
<1> SUFFICES ASSUME UlockInv PROVE NoneFreed
  OBVIOUS
<1>1. ASSUME NEW t \in Callers, caller[t].at \in {"sent", "wait", "back"}
      PROVE  owner[OwnerOf[t]].up /\ (~caller[t].all => owner[OwnerOf[t]].fds[caller[t].fd] > 0)
  <2>1. PICK o \in LockOwners : o = OwnerOf[t]
    BY OwnersAre
  <2>2. PICK fd \in Fds : fd = caller[t].fd
    BY <1>1 DEF UlockInv, CallInv, Proper
  <2>3. OwnerInv(o)
    BY DEF UlockInv
  <2>4. owner[o].up
    BY <1>1, <2>1, <2>3 DEF OwnerInv, Outside
  <2>5. ASSUME ~caller[t].all PROVE owner[o].fds[fd] > 0
    <3>1. t \in Users(o, fd)
      BY <1>1, <2>1, <2>2, <2>5 DEF Users, Uses, Outside
    <3>2. Counted(owner[o].fds[fd], Users(o, fd)) /\ IsFiniteSet(Users(o, fd))
      BY <2>3, UsersFinite DEF OwnerInv
    <3> QED
      BY <3>1, <3>2, CountedRange
  <2> QED
    BY <2>1, <2>2, <2>4, <2>5
<1>2. \A t \in Callers : job[t] # "none" => server[OwnerOf[t]][caller[t].fd] > 0
  BY KnownFd
<1>3. ASSUME NEW o \in LockOwners, ~owner[o].up, NEW f \in LockedFiles PROVE posix[o][f] = "none"
  <2>1. OwnerInv(o) /\ ServerInv(o)
    BY DEF UlockInv
  <2>2. \A fd \in Fds : owner[o].fds[fd] = Missing
    BY <1>3, <2>1 DEF OwnerInv, NoFds
  <2>3. \A fd \in Fds : server[o][fd] = Missing
    BY <2>1, <2>2 DEF ServerInv
  <2> QED
    BY <2>1, <2>3 DEF ServerInv
<1> QED
  BY <1>1, <1>2, <1>3 DEF NoneFreed

LEMMA MutexIsAnswered == UlockInv => MutexMoves
<1> SUFFICES ASSUME UlockInv, NEW t \in Callers, mutex = t
             PROVE  \/ told[t] # <<>>
                    \/ job[t] \in {"try", "ok", "EINTR", "EDEADLK"}
                    \/ \E i \in DOMAIN chan[OwnerOf[t]] : chan[OwnerOf[t]][i] = [from |-> t, intr |-> FALSE]
  BY DEF MutexMoves
<1>1. PICK o \in LockOwners : o = OwnerOf[t]
  BY OwnersAre
<1>2. CallInv(t) /\ caller[t].at = "sent" /\ Sent(t)
  BY OneIsSent DEF UlockInv, CallInv
<1>3. CASE Asked(t)
  <2>1. PICK i \in DOMAIN chan[o] : chan[o][i].intr = FALSE /\ chan[o][i].from = t
    BY <1>1, <1>3 DEF Asked, IsRequest
  <2>2. chan[o][i] \in Message
    <3>1. chan[o] \in Seq(Message)
      BY DEF UlockInv, UlockTypeOK
    <3> QED
      BY <3>1
  <2>3. chan[o][i] = [from |-> chan[o][i].from, intr |-> chan[o][i].intr]
    BY <2>2 DEF Message
  <2>4. chan[o][i] = [from |-> t, intr |-> FALSE]
    BY <2>1, <2>3, Zenon
  <2> QED
    BY <1>1, <2>4
<1>4. CASE ~Asked(t)
  <2>1. told[t] = <<>> => Len(told[t]) = 0 /\ told[t] # <<"EAGAIN">>
    OBVIOUS
  <2>2. told[t] = <<>> => job[t] \in {"try", "ok"}
    BY <1>2, <1>4, <2>1 DEF Sent
  <2> QED
    BY <2>2
<1> QED
  BY <1>3, <1>4

(***************************************************************************)
(* No call of ulockmgr_op uses an owner or a file that another call has    *)
(* freed, no thread of ulockmgr_server one that its process has closed,    *)
(* and whoever holds ulockmgr_lock will be answered: for any number of     *)
(* callers, owners and files, any requests, and any number of signals.     *)
(***************************************************************************)
THEOREM CallsAlwaysEnd == UlockSpec => []CallsEnd
<1>1. UlockInv => CallsEnd
  BY NothingIsFreed, MutexIsAnswered DEF CallsEnd
<1> QED
  BY <1>1, InitUlock, StepsKeepUlock, PTL DEF UlockSpec
-----------------------------------------------------------------------------
(***************************************************************************)
(*                         The copying of buffers.                         *)
(***************************************************************************)
-----------------------------------------------------------------------------
(***************************************************************************)
(* The inductive invariant of the copying of buffers: how far a copy has   *)
(* come, in the source, the destination and the pipe.                      *)
(***************************************************************************)
ReplyPlaces == {"choose", "spliced", "extra", "send", "message", "fallback"}
RequestPlaces == {"small", "head", "rest", "written"}
ReplyCopies == {"spliced", "extra", "message"}
Loops == LoopCalls \cup {"fd_to_fd"}
Over == Errors \cup {"end"}
BufType == [kind : {"mem", "fd", "pipe"}, size : Nat, eof : Nat, seek : BOOLEAN, retry : BOOLEAN]
PipeBuf(n) == [kind |-> "pipe", size |-> n, eof |-> n, seek |-> FALSE, retry |-> FALSE]

TaskType == [job : {"none", "reply", "write", "other"}, at : {"idle", "copy"} \cup ReplyPlaces \cup RequestPlaces,
             then : {"none"} \cup ReplyCopies \cup RequestPlaces, data : Nat, res : Nat, err : Errors \cup {"ok"},
             now : Nat]
SourceType == [bufs : Seq(BufType), idx : Nat, off : Nat, own : Seq(Nat)]
DestType == [kind : {"mem", "pipe", "file"}, size : Nat, off : Nat, full : BOOLEAN, retry : BOOLEAN,
             splice : BOOLEAN, holds : Seq(Int)]
OneType == [how : {"none", "memory"} \cup Loops \cup Over, len : Nat, copied : Nat, so : Nat, do : Nat]
BuffersTypeOK ==
  /\ task \in TaskType /\ srcv \in SourceType /\ dstv \in DestType /\ one \in OneType
  /\ pipe \in Seq(Int) /\ device \in [len : Nat, bytes : Seq(Int)]

(* How far the source has been read. Of a buffer that has not its turn yet *)
(* nothing is taken, and of the one that has what was copied.              *)
HasSource == srcv.idx <= Len(srcv.bufs)
Consumed == Sums(srcv.bufs)[srcv.idx - 1] + srcv.off
SourceInv ==
  /\ Len(srcv.own) = Len(srcv.bufs)
  /\ srcv.idx \in 1..(Len(srcv.bufs) + 1)
  /\ HasSource => srcv.off <= Src.size
  /\ ~HasSource => srcv.off = 0
  /\ \A i \in 1..Len(srcv.bufs) : i > srcv.idx => srcv.own[i] = 0
TakenAll == HasSource => srcv.own[srcv.idx] = srcv.off + one.copied

(* A call of fuse_buf_copy_one.                                            *)
OneInv ==
  /\ one.how = "none" => one = NoOne
  /\ one.how # "none" => /\ HasSource
                         /\ one.copied + one.len <= Src.size - srcv.off
                         /\ one.copied + one.len <= dstv.size - dstv.off
  /\ one.how \in Loops => one.so = srcv.off + one.copied /\ one.do = dstv.off + one.copied
  /\ one.how = "memory" => Src.kind = "mem" /\ dstv.kind = "mem"
  /\ one.how = "memory" /\ one.len > 0 => one.copied = 0 /\ one.so = srcv.off /\ one.do = dstv.off
  /\ one.how = "write" => Src.kind = "mem" /\ dstv.kind # "mem"
  /\ one.how = "read" => Src.kind # "mem" /\ dstv.kind = "mem"
  /\ one.how = "splice" => Src.kind # "mem" /\ dstv.kind # "mem"
  /\ one.how = "fd_to_fd" => Src.kind # "mem" /\ dstv.kind = "file"
  /\ one.how \in Errors => one.copied = 0
DestInv == dstv.off <= dstv.size /\ (dstv.kind # "pipe" => Len(dstv.holds) = dstv.size)

(* What is in the pipe of an answer, and what the destination holds.       *)
InPipe(n) == Len(pipe) = n /\ \A i \in 1..n : pipe[i] = i - 1
Holds(from, to) == to <= Len(dstv.holds) /\ \A i \in 1..to : i > from => dstv.holds[i] = i

(* An answer is copied into the pipe, from there and from the rest of the  *)
(* source into memory, or only into memory.                                *)
Whole == TakenAll /\ task.data = BufSize(srcv.bufs)
NotBegun == Whole /\ Consumed = 0 /\ task.now = 0 /\ pipe = <<>>
Gets(kind) ==
  CASE kind = "spliced" -> task.now = 0 /\ dstv.kind = "pipe" /\ dstv.splice /\ InPipe(1 + task.res + one.copied)
    [] kind = "extra" -> dstv.kind = "mem" /\ Holds(task.now, task.now + task.res + one.copied) /\ InPipe(1 + task.now)
    [] kind = "message" -> task.now = 0 /\ dstv.kind = "mem" /\ Holds(0, task.res + one.copied) /\ pipe = <<>>
ReplyCopy ==
  /\ Whole /\ OneInv /\ DestInv /\ task.then \in ReplyCopies
  /\ Consumed = task.now + task.res /\ dstv.off = task.now + task.res
  /\ Gets(task.then)
Spliced == Whole /\ Consumed = task.res /\ task.now = 0 /\ InPipe(1 + task.res) /\ (task.err # "ok" => task.res = 0)
Extra == InPipe(1 + task.now) /\ Holds(task.now, task.now + task.res)
InMessage == pipe = <<>> /\ Holds(0, task.res)
ReplyInv ==
  /\ task.at \in {"copy"} \cup ReplyPlaces
  /\ \A i \in 1..Len(srcv.bufs) : srcv.bufs[i].kind # "pipe"
  /\ task.at \in {"choose", "fallback"} => NotBegun
  /\ task.at = "copy" => ReplyCopy
  /\ task.at = "spliced" => Spliced
  /\ task.at = "extra" => Extra
  /\ task.at = "send" => InPipe(1 + task.now)
  /\ task.at = "message" => InMessage

(* What is left in the pipe of a request, whose first byte is the header   *)
(* until a write has been given to the file system. A file that cannot be  *)
(* written loses what was read for it.                                     *)
Skip == IF task.then = "written" THEN 0 ELSE 1
Start == IF task.then = "rest" THEN 1 ELSE 0
PipeLength == task.data + Skip
Left ==
  /\ srcv.own[1] <= PipeLength /\ Len(pipe) = PipeLength - srcv.own[1]
  /\ \A i \in 1..Len(pipe) : pipe[i] = srcv.own[1] + i - Skip
Lost == task.then = "written" /\ (task.at = "written" \/ (one.how \in Over /\ one.len > 0))
RequestCopy ==
  /\ OneInv /\ DestInv /\ dstv.off = task.res /\ dstv.kind # "pipe"
  /\ task.then # "written" => dstv.kind = "mem"
  /\ task.then = "rest" => dstv.size = task.data
  /\ task.then \in {"rest", "written"} => Holds(0, task.res + one.copied)
RequestInv ==
  /\ task.then \in RequestPlaces /\ task.at \in {"copy", task.then}
  /\ srcv.bufs = <<PipeBuf(PipeLength)>> /\ Left
  /\ srcv.idx = 1 => srcv.own[1] >= srcv.off + one.copied
  /\ srcv.idx = 2 => srcv.own[1] = PipeLength
  /\ ~Lost => TakenAll
  /\ Consumed = task.res + Start
  /\ task.then = "small" => task.data = 0
  /\ task.at = "copy" => RequestCopy
  /\ task.at \in {"rest", "written"} => Holds(0, task.res)
  /\ task.at = "rest" => Len(dstv.holds) = task.data

BuffersInv ==
  /\ BuffersTypeOK /\ SourceInv /\ AnswerExact
  /\ task.at = "idle" <=> task.job = "none"
  /\ task.at = "idle" => pipe = <<>>
  /\ IF task.at = "copy" THEN task.err = "ok" ELSE one = NoOne
  /\ task.job = "reply" => ReplyInv
  /\ task.job \in {"write", "other"} => RequestInv

BuffersSpec == BuffersInit /\ [][BuffersNext]_buffervars
-----------------------------------------------------------------------------
(***************************************************************************)
(* A set of numbers that is not empty has a least one.                     *)
(***************************************************************************)
LEMMA Least ==
  ASSUME NEW S, S \subseteq Nat, S # {}
  PROVE  \E m \in S : \A n \in S : m <= n
<1>1. PICK m \in S : \A n \in S : ~(<<n, m>> \in OpToRel(<, Nat))
  BY NatLessThanWellFounded, WFMin
<1>2. ASSUME NEW n \in S PROVE m <= n
  <2>1. ~(n < m)
    BY <1>1 DEF OpToRel
  <2>2. n \in Nat /\ m \in Nat
    OBVIOUS
  <2> QED BY <2>1, <2>2
<1> QED BY <1>2

(***************************************************************************)
(* fuse_buf_size: the sums are there, each with the buffer before it.      *)
(***************************************************************************)
SumsUpTo(bufs, n, f) ==
  f \in [0..n -> Nat] /\ f[0] = 0 /\ \A i \in 1..n : f[i] = f[i - 1] + bufs[i].size

LEMMA SizesAreNat ==
  ASSUME NEW bufs, bufs \in Seq(BufType)
  PROVE  Len(bufs) \in Nat /\ \A i \in 1..Len(bufs) : bufs[i] \in BufType /\ bufs[i].size \in Nat
<1>1. Len(bufs) \in Nat /\ \A i \in 1..Len(bufs) : bufs[i] \in BufType
  OBVIOUS
<1> QED BY <1>1 DEF BufType

LEMMA SumsExist ==
  ASSUME NEW bufs, bufs \in Seq(BufType)
  PROVE  \A n \in 0..Len(bufs) : \E f : SumsUpTo(bufs, n, f)
<1> DEFINE Bad == {n \in 0..Len(bufs) : ~ \E f : SumsUpTo(bufs, n, f)}
<1>1. Len(bufs) \in Nat /\ \A i \in 1..Len(bufs) : bufs[i].size \in Nat
  BY SizesAreNat
<1>2. SUFFICES ASSUME Bad # {} PROVE FALSE
  OBVIOUS
<1>3. PICK m \in Bad : \A n \in Bad : m <= n
  <2>1. Bad \subseteq Nat
    BY <1>1
  <2> QED BY <1>2, <2>1, Least
<1>4. m \in 0..Len(bufs) /\ m \in Nat
  BY <1>1, <1>3
<1>5. m # 0
  <2>1. SumsUpTo(bufs, 0, [i \in 0..0 |-> 0])
    BY DEF SumsUpTo
  <2> QED BY <2>1, <1>3
<1>6. PICK f : SumsUpTo(bufs, m - 1, f)
  <2>1. m - 1 \in 0..Len(bufs) /\ ~(m <= m - 1)
    BY <1>1, <1>4, <1>5
  <2> QED BY <2>1, <1>3
<1> DEFINE g == [i \in 0..m |-> IF i = m THEN f[m - 1] + bufs[m].size ELSE f[i]]
<1>7. SumsUpTo(bufs, m, g)
  <2>1. bufs[m].size \in Nat /\ m - 1 \in Nat
    BY <1>1, <1>4, <1>5
  <2>2. \A i \in 0..(m - 1) : f[i] \in Nat
    BY <1>6, <2>1 DEF SumsUpTo
  <2>3. f[0] = 0 /\ \A i \in 1..(m - 1) : f[i] = f[i - 1] + bufs[i].size
    BY <1>6 DEF SumsUpTo
  <2>4. g \in [0..m -> Nat]
    BY <2>1, <2>2, <1>4, <1>5
  <2>5. g[0] = 0
    BY <2>3, <1>4, <1>5
  <2>6. \A i \in 1..m : g[i] = g[i - 1] + bufs[i].size
    <3> TAKE i \in 1..m
    <3>1. CASE i = m
      BY <3>1, <2>1, <1>4, <1>5
    <3>2. CASE i # m
      <4>1. i \in 1..(m - 1) /\ i - 1 # m /\ i \in 0..m /\ i - 1 \in 0..m
        BY <3>2, <1>4
      <4> QED BY <4>1, <3>2, <2>3
    <3> QED BY <3>1, <3>2
  <2> QED BY <2>4, <2>5, <2>6 DEF SumsUpTo
<1> QED BY <1>3, <1>7

LEMMA SumsAre ==
  ASSUME NEW bufs, bufs \in Seq(BufType)
  PROVE  SumsUpTo(bufs, Len(bufs), Sums(bufs))
<1>1. Len(bufs) \in Nat /\ \A i \in 1..Len(bufs) : bufs[i].size \in Nat
  BY SizesAreNat
<1>2. PICK f : SumsUpTo(bufs, Len(bufs), f)
  BY <1>1, SumsExist
<1> DEFINE Next(s) == [i \in 0..Len(bufs) |-> IF i = 0 THEN 0 ELSE s[i - 1] + bufs[i].size]
<1>3. f = Next(f)
  BY <1>1, <1>2 DEF SumsUpTo
<1>4. Sums(bufs) = CHOOSE s : s = Next(s)
  BY DEF Sums
<1>5. Sums(bufs) = Next(Sums(bufs))
  BY <1>3, <1>4
<1> DEFINE s == Sums(bufs)
           Bad == {n \in 0..Len(bufs) : s[n] \notin Nat}
<1>6. s[0] = 0 /\ \A i \in 1..Len(bufs) : s[i] = s[i - 1] + bufs[i].size
  BY <1>5, <1>1
<1>7. Bad = {}
  <2>1. SUFFICES ASSUME Bad # {} PROVE FALSE
    OBVIOUS
  <2>2. PICK m \in Bad : \A n \in Bad : m <= n
    <3>1. Bad \subseteq Nat
      BY <1>1
    <3> QED BY <2>1, <3>1, Least
  <2>3. m \in Nat /\ m # 0 /\ m \in 1..Len(bufs)
    BY <1>1, <1>6, <2>2
  <2>4. m - 1 \in 0..Len(bufs) /\ ~(m <= m - 1)
    BY <1>1, <2>3
  <2>5. s[m - 1] \in Nat
    BY <2>2, <2>4
  <2> QED BY <1>1, <1>6, <2>2, <2>3, <2>5
<1>8. s \in [0..Len(bufs) -> Nat]
  BY <1>5, <1>7
<1> QED BY <1>6, <1>8 DEF SumsUpTo

(***************************************************************************)
(* The sum before the current buffer, and after it.                        *)
(***************************************************************************)
LEMMA SumsAt ==
  ASSUME BuffersTypeOK, SourceInv
  PROVE  /\ Sums(srcv.bufs)[srcv.idx - 1] \in Nat
         /\ HasSource => /\ Src \in BufType /\ Src.size \in Nat /\ srcv.idx \in 1..Len(srcv.bufs)
                         /\ Sums(srcv.bufs)[srcv.idx] = Sums(srcv.bufs)[srcv.idx - 1] + Src.size
                         /\ Sums(srcv.bufs)[srcv.idx] \in Nat
         /\ ~HasSource => srcv.idx = Len(srcv.bufs) + 1
         /\ srcv.idx = 1 => Sums(srcv.bufs)[srcv.idx - 1] = 0
<1>1. srcv.bufs \in Seq(BufType) /\ srcv.idx \in Nat
  BY DEF BuffersTypeOK, SourceType
<1>2. Len(srcv.bufs) \in Nat /\ \A i \in 1..Len(srcv.bufs) : srcv.bufs[i] \in BufType /\ srcv.bufs[i].size \in Nat
  BY <1>1, SizesAreNat
<1>3. SumsUpTo(srcv.bufs, Len(srcv.bufs), Sums(srcv.bufs))
  BY <1>1, SumsAre
<1>4. srcv.idx \in 1..(Len(srcv.bufs) + 1)
  BY DEF SourceInv
<1>5. Sums(srcv.bufs)[srcv.idx - 1] \in Nat
  <2>1. srcv.idx - 1 \in 0..Len(srcv.bufs)
    BY <1>2, <1>4
  <2> QED BY <2>1, <1>3 DEF SumsUpTo
<1>6. ASSUME HasSource
      PROVE  /\ Src \in BufType /\ Src.size \in Nat /\ srcv.idx \in 1..Len(srcv.bufs)
             /\ Sums(srcv.bufs)[srcv.idx] = Sums(srcv.bufs)[srcv.idx - 1] + Src.size
             /\ Sums(srcv.bufs)[srcv.idx] \in Nat
  BY <1>2, <1>3, <1>4, <1>6 DEF SumsUpTo, HasSource, Src
<1>7. ~HasSource => srcv.idx = Len(srcv.bufs) + 1
  BY <1>2, <1>4 DEF HasSource
<1>8. srcv.idx = 1 => Sums(srcv.bufs)[srcv.idx - 1] = 0
  BY <1>3 DEF SumsUpTo
<1> QED BY <1>5, <1>6, <1>7, <1>8

(***************************************************************************)
(* What taking n bytes, of which m are written, does: the bytes are those  *)
(* that come next, at the place that they are copied to.                   *)
(***************************************************************************)
NextByte(i) == IF Src.kind = "pipe" THEN pipe[i] ELSE Sums(srcv.bufs)[srcv.idx - 1] + Position + i
Taken(n, m) ==
  /\ dstv' \in DestType /\ srcv' \in SourceType /\ pipe' \in Seq(Int)
  /\ dstv'.kind = dstv.kind /\ dstv'.size = dstv.size /\ dstv'.off = dstv.off /\ dstv'.full = dstv.full
  /\ dstv'.retry = dstv.retry /\ dstv'.splice = dstv.splice
  /\ Len(dstv'.holds) = Len(dstv.holds)
  /\ dstv.kind # "pipe" => \A i \in 1..Len(dstv.holds) :
        dstv'.holds[i] = IF i - one.do \in 1..m THEN NextByte(i - one.do) ELSE dstv.holds[i]
  /\ srcv'.bufs = srcv.bufs /\ srcv'.idx = srcv.idx /\ srcv'.off = srcv.off /\ Len(srcv'.own) = Len(srcv.own)
  /\ \A i \in 1..Len(srcv.own) : srcv'.own[i] = IF i = srcv.idx THEN srcv.own[i] + n ELSE srcv.own[i]
  /\ IF Src.kind = "pipe"
     THEN Len(pipe') = Len(pipe) - n /\ \A i \in 1..Len(pipe') : pipe'[i] = pipe[n + i]
     ELSE IF dstv.kind = "pipe"
     THEN Len(pipe') = Len(pipe) + m
          /\ \A i \in 1..Len(pipe') : pipe'[i] = IF i <= Len(pipe) THEN pipe[i] ELSE NextByte(i - Len(pipe))
     ELSE pipe' = pipe

LEMMA BytesTaken ==
  ASSUME BuffersTypeOK, SourceInv, HasSource, NEW n \in Nat, NEW m \in 0..n, Takes(n, m),
         Src.kind = "pipe" => n <= Len(pipe)
  PROVE  Taken(n, m)
<1> DEFINE bytes == FirstOf(m)
           sum == Sums(srcv.bufs)[srcv.idx - 1]
<1>1. sum \in Nat /\ Src \in BufType /\ srcv.idx \in 1..Len(srcv.bufs) /\ Len(srcv.bufs) \in Nat
  BY SumsAt, SizesAreNat DEF BuffersTypeOK, SourceType
<1>2. srcv.own \in Seq(Nat) /\ Len(srcv.own) = Len(srcv.bufs) /\ srcv.own[srcv.idx] \in Nat
  <2>1. srcv.own \in Seq(Nat) /\ Len(srcv.own) = Len(srcv.bufs)
    BY DEF BuffersTypeOK, SourceType, SourceInv
  <2> QED BY <2>1, <1>1
<1>3. one.so \in Nat /\ one.do \in Nat
  BY DEF BuffersTypeOK, OneType
<1>4. Position \in Nat
  BY <1>2, <1>3 DEF Position
<1>5. pipe \in Seq(Int) /\ Len(pipe) \in Nat /\ \A i \in 1..Len(pipe) : pipe[i] \in Int
  <2>1. pipe \in Seq(Int)
    BY DEF BuffersTypeOK
  <2> QED BY <2>1
<1>6. bytes \in Seq(Int) /\ Len(bytes) = m /\ \A i \in 1..m : bytes[i] = NextByte(i)
  <2>1. CASE Src.kind = "pipe"
    <3>1. bytes = SubSeq(pipe, 1, m) /\ m <= Len(pipe)
      BY <2>1, <1>5 DEF FirstOf
    <3> QED BY <3>1, <2>1, <1>5, SubSeqProperties DEF NextByte
  <2>2. CASE Src.kind # "pipe"
    <3>1. bytes = [i \in 1..m |-> sum + Position + i]
      BY <2>2 DEF FirstOf
    <3> HIDE DEF sum, bytes
    <3>2. bytes \in Seq(Int) /\ Len(bytes) = m
      BY <3>1, <1>1, <1>4
    <3>3. \A i \in 1..m : NextByte(i) = sum + Position + i
      BY <2>2 DEF NextByte, sum
    <3> QED BY <3>1, <3>2, <3>3
  <2> QED BY <2>1, <2>2
<1> DEFINE put(i) == IF i - one.do \in 1..m THEN bytes[i - one.do] ELSE dstv.holds[i]
<1>7. /\ dstv' = IF dstv.kind = "pipe" THEN dstv ELSE [dstv EXCEPT !.holds = [i \in DOMAIN dstv.holds |-> put(i)]]
      /\ srcv' = [srcv EXCEPT !.own[srcv.idx] = srcv.own[srcv.idx] + n]
      /\ pipe' = IF Src.kind = "pipe" THEN SubSeq(pipe, n + 1, Len(pipe))
                 ELSE IF dstv.kind = "pipe" THEN pipe \o bytes ELSE pipe
  BY DEF Takes
<1> HIDE DEF bytes
<1>8. /\ dstv' \in DestType
      /\ dstv'.kind = dstv.kind /\ dstv'.size = dstv.size /\ dstv'.off = dstv.off /\ dstv'.full = dstv.full
      /\ dstv'.retry = dstv.retry /\ dstv'.splice = dstv.splice
      /\ Len(dstv'.holds) = Len(dstv.holds)
      /\ dstv.kind # "pipe" => \A i \in 1..Len(dstv.holds) :
            dstv'.holds[i] = IF i - one.do \in 1..m THEN NextByte(i - one.do) ELSE dstv.holds[i]
  <2> DEFINE new == [i \in DOMAIN dstv.holds |-> put(i)]
  <2>1. dstv \in DestType /\ dstv.holds \in Seq(Int)
    BY DEF BuffersTypeOK, DestType
  <2>2. Len(dstv.holds) \in Nat /\ DOMAIN dstv.holds = 1..Len(dstv.holds)
        /\ \A i \in 1..Len(dstv.holds) : dstv.holds[i] \in Int
    BY <2>1
  <2>3. \A i \in 1..m : bytes[i] \in Int
    BY <1>6
  <2>4. \A i \in 1..Len(dstv.holds) : put(i) \in Int
    BY <2>2, <2>3
  <2>5. new \in Seq(Int) /\ Len(new) = Len(dstv.holds)
    <3> HIDE DEF put
    <3> QED BY <2>2, <2>4
  <2>6. \A i \in 1..Len(dstv.holds) : new[i] = IF i - one.do \in 1..m THEN NextByte(i - one.do) ELSE dstv.holds[i]
    BY <2>2, <1>6
  <2> HIDE DEF new
  <2>7. dstv' = IF dstv.kind = "pipe" THEN dstv ELSE [dstv EXCEPT !.holds = new]
    BY <1>7 DEF new
  <2> QED BY <2>1, <2>5, <2>6, <2>7 DEF DestType
<1>9. /\ srcv' \in SourceType
      /\ srcv'.bufs = srcv.bufs /\ srcv'.idx = srcv.idx /\ srcv'.off = srcv.off /\ Len(srcv'.own) = Len(srcv.own)
      /\ \A i \in 1..Len(srcv.own) : srcv'.own[i] = IF i = srcv.idx THEN srcv.own[i] + n ELSE srcv.own[i]
  <2> DEFINE new == [srcv.own EXCEPT ![srcv.idx] = srcv.own[srcv.idx] + n]
  <2>1. new \in Seq(Nat) /\ Len(new) = Len(srcv.own)
    BY <1>1, <1>2, ExceptSeq
  <2>2. \A i \in 1..Len(srcv.own) : new[i] = IF i = srcv.idx THEN srcv.own[i] + n ELSE srcv.own[i]
    BY <1>1, <1>2
  <2>3. srcv \in SourceType
    BY DEF BuffersTypeOK
  <2>4. srcv' = [srcv EXCEPT !.own = new]
    BY <2>3, <1>7 DEF SourceType
  <2> HIDE DEF new
  <2> QED BY <2>1, <2>2, <2>3, <2>4 DEF SourceType
<1>10. pipe' \in Seq(Int)
       /\ IF Src.kind = "pipe"
          THEN Len(pipe') = Len(pipe) - n /\ \A i \in 1..Len(pipe') : pipe'[i] = pipe[n + i]
          ELSE IF dstv.kind = "pipe"
          THEN Len(pipe') = Len(pipe) + m
               /\ \A i \in 1..Len(pipe') : pipe'[i] = IF i <= Len(pipe) THEN pipe[i] ELSE NextByte(i - Len(pipe))
          ELSE pipe' = pipe
  <2>1. CASE Src.kind = "pipe"
    <3>1. pipe' = SubSeq(pipe, n + 1, Len(pipe)) /\ n <= Len(pipe)
      BY <2>1, <1>7
    <3>2. pipe' \in Seq(Int) /\ Len(pipe') = Len(pipe) - n /\ \A i \in 1..Len(pipe') : pipe'[i] = pipe[n + i]
      BY <3>1, <1>5, SubSeqProperties
    <3> QED BY <3>2, <2>1
  <2>2. CASE Src.kind # "pipe" /\ dstv.kind = "pipe"
    <3>1. pipe' = pipe \o bytes
      BY <2>2, <1>7
    <3>2. pipe' \in Seq(Int) /\ Len(pipe') = Len(pipe) + m
          /\ \A i \in 1..Len(pipe') : pipe'[i] = IF i <= Len(pipe) THEN pipe[i] ELSE bytes[i - Len(pipe)]
      <4>1. pipe \o bytes \in Seq(Int) /\ Len(pipe \o bytes) = Len(pipe) + m
        BY <1>5, <1>6, ConcatProperties
      <4>2. \A i \in 1..(Len(pipe) + Len(bytes)) :
               (pipe \o bytes)[i] = IF i <= Len(pipe) THEN pipe[i] ELSE bytes[i - Len(pipe)]
        BY <1>5, <1>6, ConcatProperties
      <4> QED BY <4>1, <4>2, <3>1, <1>6
    <3>3. \A i \in 1..Len(pipe') : i <= Len(pipe) \/ i - Len(pipe) \in 1..m
      BY <3>2, <1>5
    <3> QED BY <3>2, <3>3, <1>6, <2>2
  <2>3. CASE Src.kind # "pipe" /\ dstv.kind # "pipe"
    BY <2>3, <1>7, <1>5
  <2> QED BY <2>1, <2>2, <2>3
<1> QED BY <1>8, <1>9, <1>10 DEF Taken

(***************************************************************************)
(* Bytes that are the next ones of the destination continue what it holds. *)
(***************************************************************************)
LEMMA HoldsMore ==
  ASSUME BuffersTypeOK, NEW n \in Nat, NEW m \in 0..n, Taken(n, m), dstv.kind # "pipe", NEW from \in Nat,
         NEW to \in Nat, Holds(from, to), one.do = to, to + m <= Len(dstv.holds),
         \A i \in 1..m : NextByte(i) = to + i
  PROVE  Holds(from, to + m)'
<1>1. /\ Len(dstv'.holds) = Len(dstv.holds)
      /\ \A i \in 1..Len(dstv.holds) :
            dstv'.holds[i] = IF i - to \in 1..m THEN NextByte(i - to) ELSE dstv.holds[i]
  BY DEF Taken
<1>2. Len(dstv.holds) \in Nat
  <2>1. dstv.holds \in Seq(Int)
    BY DEF BuffersTypeOK, DestType
  <2> QED BY <2>1
<1>3. \A i \in 1..to : i > from => dstv.holds[i] = i
  BY DEF Holds
<1>4. ASSUME NEW i \in 1..(to + m), i > from PROVE dstv'.holds[i] = i
  <2>1. i \in 1..Len(dstv.holds)
    BY <1>2
  <2>2. CASE i <= to
    <3>1. i \in 1..to /\ ~(i - to \in 1..m)
      BY <2>2
    <3> QED BY <3>1, <2>1, <1>1, <1>3, <1>4
  <2>3. CASE ~(i <= to)
    <3>1. i - to \in 1..m
      BY <2>3
    <3>2. NextByte(i - to) = to + (i - to)
      BY <3>1
    <3> QED BY <3>1, <3>2, <2>1, <1>1
  <2> QED BY <2>2, <2>3
<1> QED BY <1>1, <1>2, <1>4 DEF Holds

(***************************************************************************)
(* What fuse_buf_copy_one does in the middle of a copy: it moves n bytes.  *)
(***************************************************************************)
Moves(n, m) ==
  /\ task.at = "copy" /\ one.how # "none" /\ TakenAll /\ Taken(n, m)
  /\ one.copied + n <= Src.size - srcv.off /\ one.copied + m <= dstv.size - dstv.off
  /\ one.do = dstv.off + one.copied /\ one.so = srcv.off + one.copied
  /\ Src.kind = "pipe" => n <= Len(pipe)
  /\ one' \in OneType /\ one'.copied = one.copied + m /\ OneInv'
  /\ m < n => task.then = "written" /\ one'.how \in Over /\ one'.len > 0
  /\ UNCHANGED <<task, device>>

LEMMA MovesSource ==
  ASSUME BuffersTypeOK, SourceInv, HasSource, NEW n \in Nat, NEW m \in 0..n, Moves(n, m)
  PROVE  /\ SourceInv' /\ HasSource' /\ Src' = Src /\ Consumed' = Consumed
         /\ srcv.own[srcv.idx] \in Nat /\ srcv'.own[srcv'.idx] = srcv.own[srcv.idx] + n
         /\ m = n => TakenAll'
         /\ Consumed \in Nat /\ Consumed = Sums(srcv.bufs)[srcv.idx - 1] + srcv.off
         /\ Src.kind # "pipe" => \A i \in 1..m : NextByte(i) = Consumed + one.copied + i
<1>1. /\ srcv'.bufs = srcv.bufs /\ srcv'.idx = srcv.idx /\ srcv'.off = srcv.off /\ Len(srcv'.own) = Len(srcv.own)
      /\ \A i \in 1..Len(srcv.own) : srcv'.own[i] = IF i = srcv.idx THEN srcv.own[i] + n ELSE srcv.own[i]
  BY DEF Moves, Taken
<1>2. /\ Len(srcv.own) = Len(srcv.bufs) /\ srcv.idx \in 1..Len(srcv.bufs) /\ Len(srcv.bufs) \in Nat
      /\ srcv.off \in Nat /\ srcv.own[srcv.idx] \in Nat
      /\ one.copied \in Nat /\ one'.copied = one.copied + m
  <2>1. srcv.own \in Seq(Nat) /\ srcv.bufs \in Seq(BufType) /\ srcv.off \in Nat /\ one.copied \in Nat
    BY DEF BuffersTypeOK, SourceType, OneType
  <2>2. Len(srcv.own) = Len(srcv.bufs) /\ srcv.idx \in 1..Len(srcv.bufs)
    BY SumsAt DEF SourceInv
  <2>3. one'.copied = one.copied + m
    BY DEF Moves
  <2> QED BY <2>1, <2>2, <2>3, SMTT(40)
<1>3. HasSource' /\ Src' = Src
  BY <1>1 DEF HasSource, Src
<1>4. SourceInv'
  <2>1. srcv.off <= Src.size /\ \A i \in 1..Len(srcv.bufs) : i > srcv.idx => srcv.own[i] = 0
    BY DEF SourceInv
  <2>2. \A i \in 1..Len(srcv'.bufs) : i > srcv'.idx => srcv'.own[i] = 0
    BY <2>1, <1>1, <1>2, SMTT(40)
  <2>3. Len(srcv'.own) = Len(srcv'.bufs) /\ srcv'.idx \in 1..(Len(srcv'.bufs) + 1) /\ srcv'.off <= Src'.size
    BY <2>1, <1>1, <1>2, <1>3
  <2> QED BY <2>2, <2>3, <1>3 DEF SourceInv
<1>5. Consumed \in Nat /\ Consumed = Sums(srcv.bufs)[srcv.idx - 1] + srcv.off /\ Consumed' = Consumed
  <2>1. Sums(srcv.bufs)[srcv.idx - 1] \in Nat
    BY SumsAt
  <2> QED BY <1>1, <1>2, <2>1 DEF Consumed
<1>6. srcv'.own[srcv'.idx] = srcv.own[srcv.idx] + n /\ srcv.own[srcv.idx] = srcv.off + one.copied
  <2>1. srcv.own[srcv.idx] = srcv.off + one.copied
    BY DEF Moves, TakenAll
  <2> QED BY <2>1, <1>1, <1>2
<1>7. m = n => TakenAll'
  BY <1>1, <1>2, <1>6 DEF TakenAll
<1>8. ASSUME Src.kind # "pipe", NEW i \in 1..m PROVE NextByte(i) = Consumed + one.copied + i
  <2>1. Position = srcv.off + one.copied
    BY <1>6 DEF Position, Moves
  <2>2. NextByte(i) = Sums(srcv.bufs)[srcv.idx - 1] + Position + i
    BY <1>8 DEF NextByte
  <2>3. PICK s \in Nat : s = Sums(srcv.bufs)[srcv.idx - 1]
    BY SumsAt
  <2>4. NextByte(i) = s + (srcv.off + one.copied) + i /\ Consumed = s + srcv.off
    BY <2>1, <2>2, <2>3, <1>5
  <2> QED BY <2>4, <1>2
<1> QED BY <1>2, <1>3, <1>4, <1>5, <1>6, <1>7, <1>8

LEMMA MovesReply ==
  ASSUME BuffersTypeOK, SourceInv, HasSource, ReplyInv, NEW n \in Nat, NEW m \in 0..n, Moves(n, m)
  PROVE  ReplyInv'
<1>1. ReplyCopy /\ task' = task /\ task.at = "copy" /\ task.then \in ReplyCopies
  BY DEF Moves, ReplyInv, ReplyCopy
<1>2. m = n
  BY <1>1 DEF Moves, ReplyCopies
<1>3. SourceInv' /\ Src' = Src /\ Consumed' = Consumed /\ TakenAll' /\ Consumed \in Nat
  BY <1>2, MovesSource
<1>4. srcv'.bufs = srcv.bufs /\ srcv'.idx = srcv.idx
  BY DEF Moves, Taken
<1>5. Src.kind # "pipe" /\ \A i \in 1..Len(srcv'.bufs) : srcv'.bufs[i].kind # "pipe"
  BY <1>4, SumsAt DEF ReplyInv, Src
<1>6. \A i \in 1..n : NextByte(i) = Consumed + one.copied + i
  BY <1>2, <1>5, MovesSource
<1>7. task.res \in Nat /\ task.now \in Nat /\ one.copied \in Nat /\ dstv.off \in Nat /\ dstv.size \in Nat
  BY DEF BuffersTypeOK, TaskType, OneType, DestType
<1>8. Consumed = task.now + task.res /\ dstv.off = task.now + task.res /\ one.do = dstv.off + one.copied
      /\ one.copied + n <= dstv.size - dstv.off /\ one'.copied = one.copied + n
  BY <1>1, <1>2 DEF ReplyCopy, Moves
<1>9. dstv'.kind = dstv.kind /\ dstv'.size = dstv.size /\ dstv'.off = dstv.off /\ dstv'.splice = dstv.splice
      /\ Len(dstv'.holds) = Len(dstv.holds)
      /\ (dstv.kind = "pipe" => /\ Len(pipe') = Len(pipe) + n
            /\ \A i \in 1..Len(pipe') : pipe'[i] = IF i <= Len(pipe) THEN pipe[i] ELSE NextByte(i - Len(pipe)))
      /\ (dstv.kind # "pipe" => pipe' = pipe)
  BY <1>2, <1>5 DEF Moves, Taken
<1>10. DestInv /\ DestInv'
  BY <1>1, <1>9 DEF ReplyCopy, DestInv
<1>11. Whole' /\ OneInv'
  BY <1>1, <1>3, <1>4 DEF Whole, ReplyCopy, Moves
<1>12. CASE task.then = "spliced"
  <2>1. task.now = 0 /\ dstv.kind = "pipe" /\ dstv.splice /\ InPipe(1 + task.res + one.copied)
    BY <1>1, <1>12 DEF ReplyCopy, Gets
  <2>2. Len(pipe) = 1 + task.res + one.copied /\ \A i \in 1..(1 + task.res + one.copied) : pipe[i] = i - 1
    BY <2>1 DEF InPipe
  <2>3. Len(pipe') = 1 + task.res + one.copied + n
    BY <2>1, <2>2, <1>9
  <2>4. ASSUME NEW i \in 1..Len(pipe') PROVE pipe'[i] = i - 1
    <3>1. CASE i <= Len(pipe)
      BY <3>1, <2>1, <2>2, <1>9, <1>7
    <3>2. CASE ~(i <= Len(pipe))
      <4>1. i - Len(pipe) \in 1..n
        BY <3>2, <2>2, <2>3, <1>7
      <4>2. pipe'[i] = NextByte(i - Len(pipe))
        BY <3>2, <2>1, <1>9
      <4>3. NextByte(i - Len(pipe)) = Consumed + one.copied + (i - Len(pipe))
        BY <4>1, <1>6
      <4> QED BY <4>2, <4>3, <2>1, <2>2, <1>7, <1>8, SMTT(40)
    <3> QED BY <3>1, <3>2
  <2>5. 1 + task.res + one.copied + n = 1 + task'.res + one'.copied
    BY <1>1, <1>7, <1>8
  <2>6. InPipe(1 + task.res + one.copied)'
    BY <2>3, <2>4, <2>5 DEF InPipe
  <2>7. Gets(task.then)'
    BY <2>1, <2>6, <1>1, <1>9, <1>12 DEF Gets
  <2> QED BY <1>1, <1>3, <1>5, <1>8, <1>9, <1>10, <1>11, <2>7 DEF ReplyInv, ReplyCopy
<1>13. CASE task.then \in {"extra", "message"}
  <2>1. dstv.kind = "mem" /\ Holds(task.now, task.now + task.res + one.copied)
    <3>1. CASE task.then = "extra"
      BY <3>1, <1>1 DEF ReplyCopy, Gets
    <3>2. CASE task.then = "message"
      <4>1. task.now = 0 /\ dstv.kind = "mem" /\ Holds(0, task.res + one.copied)
        BY <3>2, <1>1 DEF ReplyCopy, Gets
      <4>2. task.now + task.res + one.copied = task.res + one.copied
        BY <4>1, <1>7
      <4> QED BY <4>1, <4>2
    <3> QED BY <3>1, <3>2, <1>13
  <2>2. Len(dstv.holds) = dstv.size
    BY <2>1, <1>10 DEF DestInv
  <2>3. PICK to \in Nat : to = task.now + task.res + one.copied
    BY <1>7
  <2>4. PICK from \in Nat : from = task.now
    BY <1>7
  <2>5. one.do = to /\ to + n <= Len(dstv.holds) /\ \A i \in 1..n : NextByte(i) = to + i
    BY <2>2, <2>3, <1>6, <1>7, <1>8
  <2>6. Holds(from, to + n)'
    <3>1. Taken(n, n) /\ dstv.kind # "pipe" /\ n \in 0..n
      BY <1>2, <2>1 DEF Moves
    <3>2. Holds(from, to)
      BY <2>1, <2>3, <2>4
    <3> QED BY <3>1, <3>2, <2>5, HoldsMore
  <2>7. to + n = task'.now + task'.res + one'.copied /\ from = task'.now
    BY <2>3, <2>4, <1>1, <1>7, <1>8
  <2>8. Holds(task.now, task.now + task.res + one.copied)'
    BY <2>6, <2>7
  <2>9. pipe' = pipe
    BY <2>1, <1>9
  <2>10. CASE task.then = "extra"
    <3>1. InPipe(1 + task.now)
      BY <2>10, <1>1 DEF ReplyCopy, Gets
    <3>2. Gets(task.then)'
      BY <3>1, <2>1, <2>8, <2>9, <2>10, <1>1, <1>9 DEF Gets, InPipe
    <3> QED BY <1>1, <1>3, <1>5, <1>8, <1>9, <1>10, <1>11, <3>2 DEF ReplyInv, ReplyCopy
  <2>11. CASE task.then = "message"
    <3>1. pipe = <<>> /\ task.now = 0
      BY <2>11, <1>1 DEF ReplyCopy, Gets
    <3>2. task'.now = 0 /\ task'.now + task'.res + one'.copied = task'.res + one'.copied
      BY <3>1, <1>1, <1>7, <1>8
    <3>3. Holds(0, task.res + one.copied)'
      BY <3>2, <2>8
    <3>4. Gets(task.then)'
      BY <3>1, <3>2, <3>3, <2>1, <2>9, <2>11, <1>1, <1>9 DEF Gets
    <3> QED BY <1>1, <1>3, <1>5, <1>8, <1>9, <1>10, <1>11, <3>4 DEF ReplyInv, ReplyCopy
  <2> QED BY <2>10, <2>11, <1>13
<1> QED BY <1>1, <1>12, <1>13 DEF ReplyCopies

(***************************************************************************)
(* The source of a request is the pipe.                                    *)
(***************************************************************************)
LEMMA RequestSource ==
  ASSUME BuffersTypeOK, SourceInv, RequestInv
  PROVE  /\ Len(srcv.bufs) = 1 /\ srcv.idx \in 1..2 /\ srcv.own[1] \in Nat /\ Len(srcv.own) = 1
         /\ HasSource <=> srcv.idx = 1
         /\ srcv.idx = 1 => /\ Src.kind = "pipe" /\ Src.size = PipeLength /\ Src.eof = PipeLength
                            /\ ~Src.retry /\ ~Src.seek /\ Consumed = srcv.off
         /\ srcv.idx = 2 => Consumed = PipeLength
         /\ task.data \in Nat /\ task.res \in Nat /\ srcv.off \in Nat /\ one.copied \in Nat
         /\ PipeLength \in Nat /\ Skip \in {0, 1} /\ Start \in {0, 1}
         /\ pipe \in Seq(Int) /\ Len(pipe) \in Nat /\ dstv.off \in Nat /\ dstv.size \in Nat
         /\ srcv.bufs[1] = PipeBuf(PipeLength)
<1>1. srcv.bufs = <<PipeBuf(PipeLength)>>
  BY DEF RequestInv
<1>2. Len(srcv.bufs) = 1 /\ srcv.bufs[1] = PipeBuf(PipeLength)
  BY <1>1
<1>3. srcv.own \in Seq(Nat) /\ Len(srcv.own) = 1 /\ srcv.idx \in 1..2 /\ srcv.off \in Nat
  BY <1>2 DEF SourceInv, BuffersTypeOK, SourceType
<1>4. srcv.own[1] \in Nat
  BY <1>3
<1>5. HasSource <=> srcv.idx = 1
  BY <1>2, <1>3 DEF HasSource
<1>6. task.data \in Nat /\ task.res \in Nat /\ one.copied \in Nat /\ dstv.off \in Nat /\ dstv.size \in Nat
  BY DEF BuffersTypeOK, TaskType, OneType, DestType
<1>7. PipeLength \in Nat /\ Skip \in {0, 1} /\ Start \in {0, 1}
  BY <1>6 DEF PipeLength, Skip, Start
<1>8. pipe \in Seq(Int) /\ Len(pipe) \in Nat
  <2>1. pipe \in Seq(Int)
    BY DEF BuffersTypeOK
  <2> QED BY <2>1
<1>9. ASSUME srcv.idx = 1
      PROVE  /\ Src.kind = "pipe" /\ Src.size = PipeLength /\ Src.eof = PipeLength /\ ~Src.retry /\ ~Src.seek
             /\ Consumed = srcv.off
  <2>1. Src = PipeBuf(PipeLength)
    BY <1>2, <1>9 DEF Src
  <2>2. Sums(srcv.bufs)[srcv.idx - 1] = 0
    BY <1>9, SumsAt
  <2> QED BY <2>1, <2>2, <1>3 DEF PipeBuf, Consumed
<1>10. ASSUME srcv.idx = 2 PROVE Consumed = PipeLength
  <2>1. SumsUpTo(srcv.bufs, Len(srcv.bufs), Sums(srcv.bufs))
    BY SumsAre DEF BuffersTypeOK, SourceType
  <2>2. Sums(srcv.bufs)[0] = 0 /\ \A i \in 1..1 : Sums(srcv.bufs)[i] = Sums(srcv.bufs)[i - 1] + srcv.bufs[i].size
    BY <2>1, <1>2 DEF SumsUpTo
  <2>3. Sums(srcv.bufs)[1] = PipeLength
    BY <2>2, <1>2, <1>7 DEF PipeBuf
  <2>4. srcv.off = 0
    BY <1>10, <1>5 DEF SourceInv
  <2> QED BY <2>3, <2>4, <1>7, <1>10 DEF Consumed
<1> QED BY <1>2, <1>3, <1>4, <1>5, <1>6, <1>7, <1>8, <1>9, <1>10

LEMMA MovesRequest ==
  ASSUME BuffersTypeOK, SourceInv, HasSource, RequestInv, NEW n \in Nat, NEW m \in 0..n, Moves(n, m)
  PROVE  RequestInv'
<1>1. RequestCopy /\ task' = task /\ task.at = "copy" /\ task.then \in RequestPlaces
  BY DEF Moves, RequestInv
<1>2. srcv.idx = 1 /\ Src.kind = "pipe" /\ Src.size = PipeLength /\ Consumed = srcv.off
      /\ srcv.own[1] \in Nat /\ srcv.off \in Nat /\ one.copied \in Nat /\ task.res \in Nat /\ task.data \in Nat
      /\ PipeLength \in Nat /\ Skip \in {0, 1} /\ Start \in {0, 1} /\ Len(pipe) \in Nat
      /\ dstv.off \in Nat /\ dstv.size \in Nat
  BY RequestSource
<1>3. SourceInv' /\ Src' = Src /\ Consumed' = Consumed /\ (m = n => TakenAll')
  BY MovesSource
<1>4. srcv'.bufs = srcv.bufs /\ srcv'.idx = srcv.idx /\ srcv'.off = srcv.off
  BY DEF Moves, Taken
<1>5. srcv'.own[1] = srcv.own[1] + n /\ srcv.own[1] = srcv.off + one.copied
  <2>1. srcv'.own[srcv'.idx] = srcv.own[srcv.idx] + n
    BY MovesSource
  <2>2. srcv.own[srcv.idx] = srcv.off + one.copied
    BY DEF Moves, TakenAll
  <2> QED BY <2>1, <2>2, <1>2, <1>4
<1>6. one'.copied = one.copied + m /\ one.copied + n <= PipeLength - srcv.off /\ n <= Len(pipe)
      /\ one.do = dstv.off + one.copied /\ one.copied + m <= dstv.size - dstv.off
  BY <1>2 DEF Moves
<1>7. PipeLength' = PipeLength /\ Skip' = Skip /\ Start' = Start
  BY <1>1 DEF PipeLength, Skip, Start
<1>8. Left'
  <2>1. Len(pipe) = PipeLength - srcv.own[1] /\ \A i \in 1..Len(pipe) : pipe[i] = srcv.own[1] + i - Skip
    BY DEF RequestInv, Left
  <2>2. Len(pipe') = Len(pipe) - n /\ \A i \in 1..Len(pipe') : pipe'[i] = pipe[n + i]
    BY <1>2 DEF Moves, Taken
  <2>3. ASSUME NEW i \in 1..Len(pipe') PROVE pipe'[i] = srcv'.own[1] + i - Skip
    <3>1. n + i \in 1..Len(pipe)
      BY <2>2, <1>2, <1>6
    <3>2. pipe'[i] = srcv.own[1] + (n + i) - Skip
      BY <3>1, <2>1, <2>2
    <3> QED BY <3>2, <1>2, <1>5
  <2>4. srcv'.own[1] <= PipeLength /\ Len(pipe') = PipeLength - srcv'.own[1]
    <3>1. PICK k \in Nat, p \in Nat, l \in Nat : k = srcv.own[1] /\ p = Len(pipe) /\ l = PipeLength
      BY <1>2
    <3>2. srcv'.own[1] = k + n /\ Len(pipe') = p - n /\ p = l - k /\ n <= p
      BY <3>1, <2>1, <2>2, <1>5, <1>6
    <3> QED BY <3>1, <3>2, SMTT(40)
  <2> QED BY <2>3, <2>4, <1>7 DEF Left
<1>9. srcv'.own[1] >= srcv'.off + one'.copied
  BY <1>2, <1>4, <1>5, <1>6, SMTT(40)
<1>10. ~Lost' => TakenAll'
  <2>1. m < n => Lost'
    BY <1>1 DEF Moves, Lost
  <2> QED BY <2>1, <1>3
<1>11. dstv'.kind = dstv.kind /\ dstv'.size = dstv.size /\ dstv'.off = dstv.off /\ Len(dstv'.holds) = Len(dstv.holds)
  BY DEF Moves, Taken
<1>12. DestInv /\ DestInv'
  BY <1>1, <1>11 DEF RequestCopy, DestInv
<1>13. OneInv' /\ dstv.off = task.res /\ dstv.kind # "pipe"
  BY <1>1 DEF RequestCopy, Moves
<1>14. ASSUME task.then \in {"rest", "written"} PROVE Holds(0, task.res + one.copied)'
  <2>1. Holds(0, task.res + one.copied) /\ Len(dstv.holds) = dstv.size
    BY <1>1, <1>12, <1>14 DEF RequestCopy, DestInv
  <2>2. PICK to \in Nat : to = task.res + one.copied
    BY <1>2
  <2>3. one.do = to /\ to + m <= Len(dstv.holds)
    <3>1. one.do = to
      BY <2>2, <1>6, <1>13, <1>2
    <3>2. m \in Nat /\ to + m <= dstv.size
      BY <2>2, <1>6, <1>13, <1>2, SMTT(40)
    <3> QED BY <3>1, <3>2, <2>1
  <2>4. Len(pipe) = PipeLength - srcv.own[1] /\ \A i \in 1..Len(pipe) : pipe[i] = srcv.own[1] + i - Skip
    BY DEF RequestInv, Left
  <2>5. srcv.off = task.res + Start
    BY <1>2 DEF RequestInv
  <2>6. Start = Skip
    BY <1>14 DEF Start, Skip
  <2>7. ASSUME NEW i \in 1..m PROVE NextByte(i) = to + i
    <3>1. NextByte(i) = pipe[i] /\ i \in 1..Len(pipe)
      BY <1>2, <1>6 DEF NextByte
    <3>2. pipe[i] = srcv.own[1] + i - Skip
      BY <3>1, <2>4
    <3>3. srcv.own[1] = task.res + Start + one.copied
      BY <2>5, <1>2, <1>5
    <3>4. srcv.own[1] + i - Skip = to + i
      <4>1. PICK a \in Nat, b \in Nat, c \in Nat : a = task.res /\ b = Skip /\ c = one.copied
        BY <1>2
      <4>2. srcv.own[1] = a + b + c /\ to = a + c /\ i \in Int
        BY <3>3, <4>1, <2>2, <2>6
      <4> QED BY <4>1, <4>2
    <3> QED BY <3>1, <3>2, <3>4
  <2>8. Holds(0, to + m)'
    <3>1. Taken(n, m) /\ dstv.kind # "pipe" /\ Holds(0, to)
      BY <2>1, <2>2, <1>13 DEF Moves
    <3> QED BY <3>1, <2>3, <2>7, HoldsMore
  <2>9. to + m = task'.res + one'.copied
    <3>1. PICK r \in Nat, c \in Nat : r = task.res /\ c = one.copied
      BY <1>2
    <3>2. to = r + c /\ task'.res = r /\ one'.copied = c + m
      BY <3>1, <2>2, <1>1, <1>6
    <3> QED BY <3>2
  <2> QED BY <2>8, <2>9
<1>15. RequestCopy'
  <2>1. task.then # "written" => dstv.kind = "mem"
    BY <1>1 DEF RequestCopy
  <2>2. task.then = "rest" => dstv.size = task.data
    BY <1>1 DEF RequestCopy
  <2> QED BY <2>1, <2>2, <1>1, <1>11, <1>12, <1>13, <1>14 DEF RequestCopy
<1>16. srcv'.bufs = <<PipeBuf(PipeLength)>>' /\ Consumed' = task'.res + Start'
  BY <1>1, <1>3, <1>4, <1>7 DEF RequestInv
<1>17. task.then = "small" => task.data = 0
  BY DEF RequestInv
<1> QED BY <1>1, <1>2, <1>4, <1>8, <1>9, <1>10, <1>15, <1>16, <1>17 DEF RequestInv, RequestPlaces

LEMMA MovesInv ==
  ASSUME BuffersInv, HasSource, NEW n \in Nat, NEW m \in 0..n, Moves(n, m)
  PROVE  BuffersInv'
<1>1. BuffersTypeOK' /\ task' = task /\ device' = device /\ task.at = "copy"
  BY DEF BuffersInv, BuffersTypeOK, Moves, Taken
<1>2. SourceInv'
  BY MovesSource DEF BuffersInv
<1>3. AnswerExact'
  BY <1>1 DEF BuffersInv, AnswerExact
<1>4. task.job = "reply" => ReplyInv'
  BY MovesReply DEF BuffersInv
<1>5. task.job \in {"write", "other"} => RequestInv'
  BY MovesRequest DEF BuffersInv
<1>6. task.at = "idle" <=> task.job = "none"
  BY DEF BuffersInv
<1> QED BY <1>1, <1>2, <1>3, <1>4, <1>5, <1>6 DEF BuffersInv

(***************************************************************************)
(* A call of fuse_buf_copy_one is part of a copy.                          *)
(***************************************************************************)
LEMMA OneCalls ==
  ASSUME BuffersInv, task.at = "copy"
  PROVE  /\ OneInv /\ DestInv
         /\ ~(one.how \in Over /\ one.len > 0) => TakenAll
         /\ (task.job = "reply" /\ ReplyInv /\ ReplyCopy) \/ (task.job \in {"write", "other"} /\ RequestInv /\ RequestCopy)
         /\ one \in OneType /\ srcv.off \in Nat /\ dstv.off \in Nat /\ dstv.size \in Nat
         /\ one.len \in Nat /\ one.copied \in Nat /\ one.so \in Nat /\ one.do \in Nat
         /\ HasSource => Src.size \in Nat /\ Src \in BufType
<1>1. (task.job = "reply" /\ ReplyInv /\ ReplyCopy) \/ (task.job \in {"write", "other"} /\ RequestInv /\ RequestCopy)
  <2>1. task.job \in {"none", "reply", "write", "other"}
    BY DEF BuffersInv, BuffersTypeOK, TaskType
  <2>2. task.job # "none"
    BY DEF BuffersInv
  <2>3. CASE task.job = "reply"
    BY <2>3 DEF BuffersInv, ReplyInv
  <2>4. CASE task.job \in {"write", "other"}
    BY <2>4 DEF BuffersInv, RequestInv
  <2> QED BY <2>1, <2>2, <2>3, <2>4
<1>2. OneInv /\ DestInv
  BY <1>1 DEF ReplyCopy, RequestCopy
<1>3. ~(one.how \in Over /\ one.len > 0) => TakenAll
  <2>1. ReplyInv /\ ReplyCopy => TakenAll
    BY DEF ReplyCopy, Whole
  <2>2. RequestInv => (~(one.how \in Over /\ one.len > 0) => TakenAll)
    BY DEF RequestInv, Lost
  <2> QED BY <1>1, <2>1, <2>2
<1>4. /\ one \in OneType /\ srcv.off \in Nat /\ dstv.off \in Nat /\ dstv.size \in Nat
      /\ one.len \in Nat /\ one.copied \in Nat /\ one.so \in Nat /\ one.do \in Nat
  BY DEF BuffersInv, BuffersTypeOK, SourceType, DestType, OneType
<1>5. HasSource => Src.size \in Nat /\ Src \in BufType
  BY SumsAt DEF BuffersInv
<1> QED BY <1>1, <1>2, <1>3, <1>4, <1>5

LEMMA OneInCopy ==
  ASSUME BuffersInv, one.how # "none"
  PROVE  task.at = "copy" /\ HasSource
<1>1. task.at = "copy"
  BY DEF BuffersInv, NoOne
<1> QED BY <1>1, OneCalls DEF OneInv

(***************************************************************************)
(* The call goes on, or is over, after it has moved m bytes.               *)
(***************************************************************************)
LEMMA OneGoesOn ==
  ASSUME BuffersInv, one.how \in Loops, NEW n \in Nat, NEW m \in 0..n, Taken(n, m), m <= one.len, NEW h,
         h \in {one.how, "end"} \/ (h \in Errors /\ m = 0 /\ one.copied = 0),
         one' = [how |-> h, len |-> one.len - m, copied |-> one.copied + m, so |-> one.so + m, do |-> one.do + m]
  PROVE  /\ one' \in OneType /\ one'.copied = one.copied + m /\ OneInv'
<1>1. task.at = "copy" /\ HasSource
  BY OneInCopy DEF Loops, LoopCalls
<1>2. OneInv /\ one \in OneType /\ srcv.off \in Nat /\ dstv.off \in Nat /\ dstv.size \in Nat /\ Src.size \in Nat
      /\ one.len \in Nat /\ one.copied \in Nat /\ one.so \in Nat /\ one.do \in Nat
  BY <1>1, OneCalls
<1>3. h \in Loops \cup Over
  BY DEF Over
<1>4. one' \in OneType /\ one'.copied = one.copied + m /\ one'.len = one.len - m /\ one'.how = h
      /\ one'.so = one.so + m /\ one'.do = one.do + m
  BY <1>2, <1>3 DEF OneType
<1>5. srcv'.bufs = srcv.bufs /\ srcv'.idx = srcv.idx /\ srcv'.off = srcv.off
      /\ dstv'.kind = dstv.kind /\ dstv'.size = dstv.size /\ dstv'.off = dstv.off
  BY DEF Taken
<1>6. Src' = Src /\ HasSource'
  BY <1>1, <1>5 DEF Src, HasSource
<1>7. /\ one.so = srcv.off + one.copied /\ one.do = dstv.off + one.copied
      /\ one.copied + one.len <= Src.size - srcv.off /\ one.copied + one.len <= dstv.size - dstv.off
  BY <1>2 DEF OneInv, Loops, LoopCalls
<1>8. h \notin {"none", "memory"}
  BY <1>3 DEF Loops, LoopCalls, Over, Errors
<1>9. one'.copied + one'.len <= Src.size - srcv.off /\ one'.copied + one'.len <= dstv.size - dstv.off
  <2>1. one'.copied + one'.len = one.copied + one.len
    BY <1>2, <1>4
  <2> QED BY <2>1, <1>7
<1>10. one'.so = srcv.off + one'.copied /\ one'.do = dstv.off + one'.copied
  BY <1>2, <1>4, <1>7
<1>11. h \in Errors => one'.copied = 0
  BY <1>2, <1>4 DEF Loops, LoopCalls, Errors
<1>12. /\ h = "write" => Src.kind = "mem" /\ dstv.kind # "mem"
       /\ h = "read" => Src.kind # "mem" /\ dstv.kind = "mem"
       /\ h = "splice" => Src.kind # "mem" /\ dstv.kind # "mem"
       /\ h = "fd_to_fd" => Src.kind # "mem" /\ dstv.kind = "file"
  <2>1. h \in Loops => h = one.how
    BY DEF Loops, LoopCalls, Errors
  <2> QED BY <2>1, <1>2 DEF OneInv, Loops, LoopCalls
<1>13. OneInv'
  BY <1>4, <1>5, <1>6, <1>8, <1>9, <1>10, <1>11, <1>12 DEF OneInv
<1> QED BY <1>4, <1>13

(***************************************************************************)
(* The steps of fuse_buf_copy_one.                                         *)
(***************************************************************************)
LEMMA CopyMemoryInv == BuffersInv /\ CopyMemory => BuffersInv'
<1> SUFFICES ASSUME BuffersInv, CopyMemory PROVE BuffersInv'
  OBVIOUS
<1>1. task.at = "copy" /\ HasSource /\ one.how = "memory" /\ one.len > 0
  BY OneInCopy DEF CopyMemory
<1>2. OneInv /\ one \in OneType /\ srcv.off \in Nat /\ dstv.off \in Nat /\ dstv.size \in Nat /\ Src.size \in Nat
      /\ one.len \in Nat /\ one.copied \in Nat /\ one.so \in Nat /\ one.do \in Nat
  BY <1>1, OneCalls
<1>3. TakenAll
  BY <1>1, OneCalls DEF Over, Errors
<1>4. Src.kind = "mem" /\ dstv.kind = "mem" /\ one.copied = 0 /\ one.so = srcv.off /\ one.do = dstv.off
      /\ one.copied + one.len <= Src.size - srcv.off /\ one.copied + one.len <= dstv.size - dstv.off
  BY <1>1, <1>2 DEF OneInv
<1> DEFINE n == one.len
<1>5. Taken(n, n)
  <2>1. Takes(n, n) /\ n \in Nat /\ n \in 0..n /\ (Src.kind = "pipe" => n <= Len(pipe))
    BY <1>2, <1>4 DEF CopyMemory
  <2> HIDE DEF n
  <2> QED BY <2>1, <1>1, BytesTaken DEF BuffersInv
<1>6. one' = [one EXCEPT !.copied = one.len, !.len = 0] /\ UNCHANGED <<task, device>>
  BY DEF CopyMemory
<1>7. one' \in OneType /\ one'.copied = one.len /\ one'.len = 0 /\ one'.how = "memory"
  BY <1>1, <1>2, <1>6 DEF OneType
<1>8. srcv'.bufs = srcv.bufs /\ srcv'.idx = srcv.idx /\ srcv'.off = srcv.off
      /\ dstv'.kind = dstv.kind /\ dstv'.size = dstv.size /\ dstv'.off = dstv.off
  BY <1>5 DEF Taken
<1>9. Src' = Src /\ HasSource'
  BY <1>1, <1>8 DEF Src, HasSource
<1>10. one'.copied + one'.len <= Src.size - srcv.off /\ one'.copied + one'.len <= dstv.size - dstv.off
  BY <1>2, <1>4, <1>7
<1>11. OneInv'
  BY <1>4, <1>7, <1>8, <1>9, <1>10 DEF OneInv, Loops, LoopCalls, Errors
<1>12. one'.copied = one.copied + n /\ one.do = dstv.off + one.copied /\ one.so = srcv.off + one.copied
       /\ n \in Nat /\ n \in 0..n /\ ~(n < n)
  BY <1>2, <1>4, <1>7
<1>13. Moves(n, n)
  BY <1>1, <1>3, <1>4, <1>5, <1>6, <1>7, <1>11, <1>12 DEF Moves
<1> HIDE DEF n
<1> QED BY <1>1, <1>12, <1>13, MovesInv

LEMMA TransferInv == ASSUME NEW n, BuffersInv, Transfer(n) PROVE BuffersInv'
<1>1. one.how \in LoopCalls /\ n \in 1..one.len /\ n <= Available /\ Takes(n, n)
      /\ one' = [GoOn(n) EXCEPT !.how = IF Retries THEN one.how ELSE "end"] /\ UNCHANGED <<task, device>>
  BY DEF Transfer, GoOn
<1>2. task.at = "copy" /\ HasSource
  BY <1>1, OneInCopy DEF LoopCalls
<1>3. OneInv /\ one \in OneType /\ one.len \in Nat /\ one.copied \in Nat /\ srcv.off \in Nat /\ dstv.off \in Nat
      /\ dstv.size \in Nat /\ Src.size \in Nat
  BY <1>2, OneCalls
<1>4. TakenAll
  BY <1>1, <1>2, OneCalls DEF LoopCalls, Over, Errors
<1>5. n \in Nat /\ n \in 0..n /\ n <= one.len /\ ~(n < n)
  BY <1>1, <1>3
<1>6. Src.kind = "pipe" => n <= Len(pipe)
  BY <1>1 DEF Available
<1>7. Taken(n, n)
  BY <1>1, <1>2, <1>5, <1>6, BytesTaken DEF BuffersInv
<1>8. PICK h : h = IF Retries THEN one.how ELSE "end"
  OBVIOUS
<1>9. one' = [how |-> h, len |-> one.len - n, copied |-> one.copied + n, so |-> one.so + n, do |-> one.do + n]
  BY <1>1, <1>3, <1>8 DEF OneType, GoOn
<1>10. one' \in OneType /\ one'.copied = one.copied + n /\ OneInv'
  BY <1>1, <1>5, <1>7, <1>8, <1>9, OneGoesOn DEF Loops
<1>11. one.copied + one.len <= Src.size - srcv.off /\ one.copied + one.len <= dstv.size - dstv.off
       /\ one.do = dstv.off + one.copied /\ one.so = srcv.off + one.copied
  BY <1>1, <1>3 DEF OneInv, Loops, LoopCalls
<1>12. one.copied + n <= Src.size - srcv.off /\ one.copied + n <= dstv.size - dstv.off
  BY <1>3, <1>5, <1>11
<1>13. Moves(n, n)
  BY <1>1, <1>2, <1>4, <1>5, <1>6, <1>7, <1>10, <1>11, <1>12 DEF Moves, LoopCalls
<1> QED BY <1>2, <1>5, <1>13, MovesInv

(***************************************************************************)
(* Only a write to a file is copied by reading and writing.                *)
(***************************************************************************)
LEMMA FdToFdWrites == BuffersInv /\ one.how = "fd_to_fd" => task.then = "written"
<1> SUFFICES ASSUME BuffersInv, one.how = "fd_to_fd" PROVE task.then = "written"
  OBVIOUS
<1>1. task.at = "copy"
  BY OneInCopy
<1>2. dstv.kind = "file"
  BY <1>1, OneCalls DEF OneInv
<1>3. ~ReplyCopy
  BY <1>2 DEF ReplyCopy, ReplyCopies, Gets
<1>4. RequestCopy
  BY <1>1, <1>3, OneCalls
<1> QED BY <1>2, <1>4 DEF RequestCopy

(***************************************************************************)
(* A round of fuse_buf_fd_to_fd that is not all written is the last.       *)
(***************************************************************************)
LEMMA FdToFdMoves ==
  ASSUME BuffersInv, one.how = "fd_to_fd", NEW n \in Nat, NEW m \in 0..n, n <= one.len, n <= Available,
         Takes(n, m), UNCHANGED <<task, device>>, NEW h,
         h \in {"fd_to_fd", "end"} \/ (h = "EIO" /\ m = 0 /\ one.copied = 0),
         m < n => h # "fd_to_fd",
         one' = [how |-> h, len |-> one.len - m, copied |-> one.copied + m, so |-> one.so + m, do |-> one.do + m]
  PROVE  BuffersInv'
<1>1. task.at = "copy" /\ HasSource
  BY OneInCopy
<1>2. OneInv /\ one \in OneType /\ one.len \in Nat /\ one.copied \in Nat /\ srcv.off \in Nat /\ dstv.off \in Nat
      /\ dstv.size \in Nat /\ Src.size \in Nat
  BY <1>1, OneCalls
<1>3. TakenAll
  BY <1>1, OneCalls DEF Over, Errors
<1>4. Src.kind = "pipe" => n <= Len(pipe)
  BY DEF Available
<1>5. Taken(n, m)
  BY <1>1, <1>4, BytesTaken DEF BuffersInv
<1>6. m \in Nat /\ m <= n /\ m <= one.len
  BY <1>2
<1>7. one' \in OneType /\ one'.copied = one.copied + m /\ OneInv'
  BY <1>5, <1>6, OneGoesOn DEF Loops, Errors
<1>8. one.copied + one.len <= Src.size - srcv.off /\ one.copied + one.len <= dstv.size - dstv.off
      /\ one.do = dstv.off + one.copied /\ one.so = srcv.off + one.copied
  BY <1>2 DEF OneInv, Loops, LoopCalls
<1>9. one.copied + n <= Src.size - srcv.off /\ one.copied + m <= dstv.size - dstv.off
  <2>1. PICK c \in Nat, l \in Nat, a \in Int, b \in Int :
             c = one.copied /\ l = one.len /\ a = Src.size - srcv.off /\ b = dstv.size - dstv.off
    BY <1>2
  <2>2. c + l <= a /\ c + l <= b /\ n <= l /\ m <= l
    BY <2>1, <1>6, <1>8
  <2>3. c + n <= a /\ c + m <= b
    BY <2>2
  <2> QED BY <2>1, <2>3
<1>10. m < n => task.then = "written" /\ one'.how \in Over /\ one'.len > 0
  BY <1>2, <1>6, FdToFdWrites DEF Over, Errors
<1>11. Moves(n, m)
  BY <1>1, <1>3, <1>4, <1>5, <1>7, <1>8, <1>9, <1>10 DEF Moves
<1> QED BY <1>1, <1>11, MovesInv

LEMMA FdToFdInv == ASSUME NEW n, NEW m, BuffersInv, FdToFd(n, m) PROVE BuffersInv'
<1>1. one.how = "fd_to_fd" /\ n \in 1..one.len /\ n <= TmpSize /\ n <= Available /\ m \in 0..n /\ Takes(n, m)
      /\ one' = [GoOn(m) EXCEPT !.how = IF m < one.len /\ m < TmpSize THEN "end" ELSE "fd_to_fd"]
      /\ UNCHANGED <<task, device>>
  BY DEF FdToFd, GoOn
<1>2. one \in OneType /\ one.len \in Nat
  BY DEF BuffersInv, BuffersTypeOK, OneType
<1>3. n \in Nat /\ n <= one.len /\ m \in Nat /\ TmpSize \in Nat
  BY <1>1, <1>2, BuffersAssumption
<1>4. PICK h : h = IF m < one.len /\ m < TmpSize THEN "end" ELSE "fd_to_fd"
  OBVIOUS
<1>5. m < n => h # "fd_to_fd"
  BY <1>1, <1>2, <1>3, <1>4
<1>6. one' = [how |-> h, len |-> one.len - m, copied |-> one.copied + m, so |-> one.so + m, do |-> one.do + m]
  BY <1>1, <1>2, <1>4 DEF OneType, GoOn
<1> QED BY <1>1, <1>3, <1>4, <1>5, <1>6, FdToFdMoves

LEMMA FdToFdFailsInv == ASSUME NEW n, BuffersInv, FdToFdFails(n) PROVE BuffersInv'
<1>1. one.how = "fd_to_fd" /\ n \in 0..one.len /\ n <= Available /\ one.len > 0 /\ Takes(n, 0)
      /\ one' = [one EXCEPT !.how = IF one.copied > 0 THEN "end" ELSE "EIO"]
      /\ UNCHANGED <<task, device>>
  BY DEF FdToFdFails
<1>2. one \in OneType /\ one.len \in Nat /\ one.copied \in Nat /\ one.so \in Nat /\ one.do \in Nat
  BY DEF BuffersInv, BuffersTypeOK, OneType
<1>3. n \in Nat /\ n <= one.len /\ 0 \in 0..n
  BY <1>1, <1>2
<1>4. PICK h : h = IF one.copied > 0 THEN "end" ELSE "EIO"
  OBVIOUS
<1>5. h \in {"fd_to_fd", "end"} \/ (h = "EIO" /\ one.copied = 0)
  BY <1>2, <1>4
<1>6. one' = [how |-> h, len |-> one.len - 0, copied |-> one.copied + 0, so |-> one.so + 0, do |-> one.do + 0]
  BY <1>1, <1>2, <1>4 DEF OneType
<1>7. h # "fd_to_fd"
  BY <1>4
<1> QED BY <1>1, <1>3, <1>5, <1>6, <1>7, FdToFdMoves

(***************************************************************************)
(* The call begins, goes on without bytes, or is over.                     *)
(***************************************************************************)
LEMMA OneChanges ==
  ASSUME BuffersInv, task.at = "copy", TakenAll, one' \in OneType, one'.copied = one.copied, OneInv',
         UNCHANGED <<task, srcv, dstv, pipe, device>>
  PROVE  BuffersInv'
<1>1. BuffersTypeOK' /\ SourceInv' /\ AnswerExact'
  BY DEF BuffersInv, BuffersTypeOK, SourceInv, AnswerExact, HasSource, Src
<1>2. TakenAll' /\ Consumed' = Consumed /\ (Whole => Whole') /\ DestInv' = DestInv
  BY DEF TakenAll, HasSource, Consumed, Whole, DestInv
<1>3. ASSUME ReplyInv, ReplyCopy PROVE ReplyInv'
  <2>1. Gets(task.then)'
    <3>1. Gets(task.then) /\ task.then \in ReplyCopies
      BY <1>3 DEF ReplyCopy
    <3> QED BY <3>1 DEF Gets, ReplyCopies, InPipe, Holds
  <2>2. ReplyCopy'
    BY <1>2, <1>3, <2>1 DEF ReplyCopy
  <2> QED BY <1>3, <2>2 DEF ReplyInv
<1>4. ASSUME RequestInv, RequestCopy PROVE RequestInv'
  <2>1. RequestCopy'
    BY <1>2, <1>4 DEF RequestCopy, Holds
  <2>2. PipeLength' = PipeLength /\ Start' = Start /\ Left'
    BY <1>4 DEF RequestInv, Left, PipeLength, Start, Skip
  <2> QED BY <1>2, <1>4, <2>1, <2>2 DEF RequestInv
<1>5. task.job = "reply" => ReplyInv'
  BY <1>3, OneCalls
<1>6. task.job \in {"write", "other"} => RequestInv'
  BY <1>4, OneCalls
<1> QED BY <1>1, <1>5, <1>6 DEF BuffersInv

LEMMA CopyNextInv == BuffersInv /\ CopyNext => BuffersInv'
<1> SUFFICES ASSUME BuffersInv, CopyNext PROVE BuffersInv'
  OBVIOUS
<1> DEFINE a == Src.size - srcv.off
           b == dstv.size - dstv.off
           l == IF a < b THEN a ELSE b
<1>1. task.at = "copy" /\ one.how = "none" /\ HasSource /\ UNCHANGED <<task, srcv, dstv, pipe, device>>
      /\ one' = [how |-> How, len |-> l, copied |-> 0, so |-> srcv.off, do |-> dstv.off]
  BY DEF CopyNext, HasSource
<1>2. OneInv /\ DestInv /\ srcv.off \in Nat /\ dstv.off \in Nat /\ dstv.size \in Nat /\ Src.size \in Nat
      /\ Src \in BufType
  BY <1>1, OneCalls
<1>3. TakenAll
  BY <1>1, OneCalls DEF Over, Errors
<1>4. one = NoOne /\ one.copied = 0
  BY <1>1, <1>2 DEF OneInv, NoOne
<1>5. a \in Nat /\ b \in Nat
  <2>1. srcv.off <= Src.size
    BY <1>1 DEF BuffersInv, SourceInv
  <2>2. dstv.off <= dstv.size
    BY <1>2 DEF DestInv
  <2> QED BY <2>1, <2>2, <1>2
<1>6. l \in Nat /\ l <= a /\ l <= b
  <2> HIDE DEF a, b
  <2> QED BY <1>5
<1> HIDE DEF a, b, l
<1>7. How \in {"memory"} \cup LoopCalls \cup {"fd_to_fd"}
  BY DEF How, LoopCalls
<1>8. /\ How = "memory" => Src.kind = "mem" /\ dstv.kind = "mem"
      /\ How = "write" => Src.kind = "mem" /\ dstv.kind # "mem"
      /\ How = "read" => Src.kind # "mem" /\ dstv.kind = "mem"
      /\ How = "splice" => Src.kind # "mem" /\ dstv.kind # "mem"
  BY DEF How
<1>9. How = "fd_to_fd" => Src.kind # "mem" /\ dstv.kind = "file"
  <2>1. SUFFICES ASSUME How = "fd_to_fd" PROVE Src.kind # "mem" /\ dstv.kind = "file"
    OBVIOUS
  <2>2. Src.kind # "mem" /\ dstv.kind # "mem" /\ ~dstv.splice
    BY <2>1 DEF How
  <2>3. dstv.kind \in {"mem", "pipe", "file"}
    BY DEF BuffersInv, BuffersTypeOK, DestType
  <2>4. ReplyCopy => dstv.kind # "pipe"
    BY <2>2 DEF ReplyCopy, ReplyCopies, Gets
  <2>5. RequestCopy => dstv.kind # "pipe"
    BY DEF RequestCopy
  <2> QED BY <1>1, <2>2, <2>3, <2>4, <2>5, OneCalls
<1>10. one' \in OneType
  BY <1>1, <1>2, <1>6, <1>7 DEF OneType, Loops
<1>11. OneInv'
  <2>1. one'.how = How /\ one'.len = l /\ one'.copied = 0 /\ one'.so = srcv.off /\ one'.do = dstv.off
    BY <1>1
  <2>2. Src' = Src /\ HasSource' /\ srcv' = srcv /\ dstv' = dstv
    BY <1>1 DEF Src, HasSource
  <2>3. How # "none" /\ How \notin Errors
    BY <1>7 DEF LoopCalls, Errors
  <2>4. 0 + l = l /\ srcv.off + 0 = srcv.off /\ dstv.off + 0 = dstv.off
    BY <1>2, <1>6
  <2> QED BY <1>6, <1>8, <1>9, <2>1, <2>2, <2>3, <2>4 DEF OneInv, a, b
<1> QED BY <1>1, <1>3, <1>4, <1>10, <1>11, OneChanges

LEMMA OneStops ==
  ASSUME BuffersInv, one.how \in Loops, UNCHANGED <<task, srcv, dstv, pipe, device>>, NEW h,
         one' = [one EXCEPT !.how = h],
         \/ h = "end"
         \/ h \in Errors /\ one.copied = 0
         \/ h = "fd_to_fd" /\ one.how = "splice" /\ dstv.kind # "pipe"
  PROVE  BuffersInv'
<1>1. task.at = "copy" /\ HasSource
  BY OneInCopy DEF Loops, LoopCalls
<1>2. OneInv /\ one \in OneType
  BY <1>1, OneCalls
<1>3. TakenAll
  BY <1>1, OneCalls DEF Over, Errors, Loops, LoopCalls
<1>4. h \in Over \cup {"fd_to_fd"}
  BY DEF Over
<1>5. one' \in OneType /\ one'.how = h /\ one'.len = one.len /\ one'.copied = one.copied
      /\ one'.so = one.so /\ one'.do = one.do
  BY <1>2, <1>4 DEF OneType, Loops
<1>6. h = "fd_to_fd" => Src.kind # "mem" /\ dstv.kind = "file"
  <2>1. dstv.kind \in {"mem", "pipe", "file"}
    BY DEF BuffersInv, BuffersTypeOK, DestType
  <2>2. one.how = "splice" => Src.kind # "mem" /\ dstv.kind # "mem"
    BY <1>2 DEF OneInv
  <2> QED BY <2>1, <2>2 DEF Errors
<1>7. HasSource' /\ Src' = Src /\ srcv' = srcv /\ dstv' = dstv
  BY <1>1 DEF HasSource, Src
<1>8. OneInv'
  <2>1. h \notin {"none", "memory", "write", "read", "splice"}
    BY <1>4 DEF Over, Errors
  <2>2. /\ one.so = srcv.off + one.copied /\ one.do = dstv.off + one.copied
        /\ one.copied + one.len <= Src.size - srcv.off /\ one.copied + one.len <= dstv.size - dstv.off
    BY <1>2 DEF OneInv, Loops, LoopCalls
  <2>3. h \in Errors => one.copied = 0
    BY DEF Errors
  <2> QED BY <1>5, <1>6, <1>7, <2>1, <2>2, <2>3 DEF OneInv
<1> QED BY <1>1, <1>3, <1>5, <1>8, OneChanges

LEMMA TransfersNoneInv == BuffersInv /\ TransfersNone => BuffersInv'
<1> SUFFICES ASSUME BuffersInv, TransfersNone PROVE BuffersInv'
  OBVIOUS
<1>1. one.how \in Loops /\ one' = [one EXCEPT !.how = "end"] /\ UNCHANGED <<task, srcv, dstv, pipe, device>>
  BY DEF TransfersNone, Loops
<1> QED BY <1>1, OneStops

LEMMA TransferFailsInv == ASSUME NEW err \in Errors, BuffersInv, TransferFails(err) PROVE BuffersInv'
<1>1. PICK h : h = IF one.copied > 0 THEN "end"
                   ELSE IF err = "EINVAL" /\ dstv.kind # "pipe" THEN "fd_to_fd" ELSE err
  OBVIOUS
<1>2. one.how \in LoopCalls /\ one' = [one EXCEPT !.how = h] /\ UNCHANGED <<task, srcv, dstv, pipe, device>>
      /\ MayFail(err)
  BY <1>1 DEF TransferFails
<1>3. err = "EINVAL" => one.how = "splice"
  BY <1>2 DEF MayFail
<1>4. one.copied \in Nat
  BY DEF BuffersInv, BuffersTypeOK, OneType
<1>5. \/ h = "end"
      \/ h \in Errors /\ one.copied = 0
      \/ h = "fd_to_fd" /\ one.how = "splice" /\ dstv.kind # "pipe"
  BY <1>1, <1>3, <1>4
<1> QED BY <1>2, <1>5, OneStops DEF Loops

(***************************************************************************)
(* A copy ends without a byte more.                                        *)
(***************************************************************************)
LEMMA CopyOver ==
  ASSUME BuffersInv, task.at = "copy", one.copied = 0, NEW e \in Errors \cup {"ok"}, e # "ok" => task.res = 0,
         task' = [task EXCEPT !.at = task.then, !.err = e], one' = NoOne,
         UNCHANGED <<srcv, dstv, pipe, device>>
  PROVE  BuffersInv'
<1>1. task \in TaskType /\ task.res \in Nat /\ task.now \in Nat /\ task.data \in Nat
      /\ task.then \in {"none"} \cup ReplyCopies \cup RequestPlaces
  BY DEF BuffersInv, BuffersTypeOK, TaskType
<1>2. task' \in TaskType /\ task'.at = task.then /\ task'.err = e /\ task'.job = task.job /\ task'.then = task.then
      /\ task'.data = task.data /\ task'.res = task.res /\ task'.now = task.now
  <2>1. task.then # "none"
    BY OneCalls DEF ReplyCopy, RequestInv, ReplyCopies, RequestPlaces
  <2> QED BY <1>1, <2>1 DEF TaskType, ReplyCopies, ReplyPlaces
<1>3. one' \in OneType /\ one'.copied = 0
  BY DEF OneType, NoOne
<1>4. BuffersTypeOK' /\ SourceInv' /\ AnswerExact'
  BY <1>2, <1>3 DEF BuffersInv, BuffersTypeOK, SourceInv, AnswerExact, HasSource, Src
<1>5. (TakenAll => TakenAll') /\ Consumed' = Consumed
  BY <1>3 DEF TakenAll, HasSource, Consumed
<1>6. task.res + one.copied = task.res /\ 1 + task.res + one.copied = 1 + task.res
      /\ task.now + task.res + one.copied = task.now + task.res
  BY <1>1
<1>7. ASSUME ReplyInv, ReplyCopy PROVE ReplyInv' /\ task.then \in ReplyCopies
  <2>1. Whole' /\ Consumed' = task.now + task.res /\ task.then \in ReplyCopies
    BY <1>2, <1>5, <1>7 DEF ReplyCopy, Whole
  <2>2. CASE task.then = "spliced"
    <3>1. task.now = 0 /\ InPipe(1 + task.res)
      BY <1>6, <1>7, <2>2 DEF ReplyCopy, Gets
    <3>2. Consumed' = task'.res
      BY <3>1, <2>1, <1>1, <1>2
    <3>3. Spliced'
      BY <3>1, <3>2, <2>1, <1>2 DEF Spliced, InPipe
    <3> QED BY <3>3, <2>1, <2>2, <1>2, <1>7 DEF ReplyInv, ReplyPlaces
  <2>3. CASE task.then = "extra"
    <3>1. Holds(task.now, task.now + task.res) /\ InPipe(1 + task.now)
      BY <1>6, <1>7, <2>3 DEF ReplyCopy, Gets
    <3>2. Extra'
      BY <3>1, <1>2 DEF Extra, Holds, InPipe
    <3> QED BY <3>2, <2>1, <2>3, <1>2, <1>7 DEF ReplyInv, ReplyPlaces
  <2>4. CASE task.then = "message"
    <3>1. Holds(0, task.res) /\ pipe = <<>>
      BY <1>6, <1>7, <2>4 DEF ReplyCopy, Gets
    <3>2. InMessage'
      BY <3>1, <1>2 DEF InMessage, Holds
    <3> QED BY <3>2, <2>1, <2>4, <1>2, <1>7 DEF ReplyInv, ReplyPlaces
  <2> QED BY <2>1, <2>2, <2>3, <2>4 DEF ReplyCopies
<1>8. ASSUME RequestInv, RequestCopy PROVE RequestInv' /\ task.then \in RequestPlaces
  <2>1. PipeLength' = PipeLength /\ Start' = Start /\ Skip' = Skip
    BY <1>2 DEF PipeLength, Start, Skip
  <2>2. Left' /\ task.then \in RequestPlaces
    BY <2>1, <1>8 DEF RequestInv, Left
  <2>3. ~Lost' => TakenAll'
    BY <1>2, <1>5, <1>8 DEF RequestInv, Lost
  <2>4. task.then \in {"rest", "written"} => Holds(0, task.res)'
    BY <1>2, <1>6, <1>8 DEF RequestCopy, Holds
  <2>5. task.then = "rest" => Len(dstv.holds) = task.data
    BY <1>8 DEF RequestCopy, DestInv
  <2>6. srcv'.bufs = <<PipeBuf(PipeLength)>>' /\ Consumed' = task'.res + Start'
    BY <1>2, <1>5, <1>8, <2>1 DEF RequestInv
  <2>7. (srcv'.idx = 1 => srcv'.own[1] >= srcv'.off + one'.copied) /\ (srcv'.idx = 2 => srcv'.own[1] = PipeLength')
    BY <1>3, <1>8, <2>1 DEF RequestInv
  <2>8. task'.then = "small" => task'.data = 0
    BY <1>2, <1>8 DEF RequestInv
  <2> QED BY <1>2, <2>2, <2>3, <2>4, <2>5, <2>6, <2>7, <2>8 DEF RequestInv, RequestPlaces
<1>9. task.job = "reply" => ReplyInv'
  BY <1>7, OneCalls
<1>10. task.job \in {"write", "other"} => RequestInv'
  BY <1>8, OneCalls
<1>11. task.then \notin {"idle", "copy"} /\ task.job # "none"
  BY <1>7, <1>8, OneCalls DEF ReplyCopies, RequestPlaces
<1> QED BY <1>2, <1>4, <1>9, <1>10, <1>11 DEF BuffersInv

LEMMA CopyEndsInv == BuffersInv /\ CopyEnds => BuffersInv'
<1> SUFFICES ASSUME BuffersInv, CopyEnds PROVE BuffersInv'
  OBVIOUS
<1>1. task.at = "copy" /\ one.how = "none" /\ task' = [task EXCEPT !.at = task.then]
      /\ UNCHANGED <<srcv, dstv, one, pipe, device>>
  BY DEF CopyEnds
<1>2. one = NoOne /\ one.copied = 0
  BY <1>1, OneCalls DEF OneInv, NoOne
<1>3. task.err = "ok" /\ task \in TaskType
  BY <1>1 DEF BuffersInv, BuffersTypeOK
<1>4. PICK e \in Errors \cup {"ok"} : e = task.err
  BY <1>3
<1>5. task' = [task EXCEPT !.at = task.then, !.err = e]
  BY <1>1, <1>3, <1>4 DEF TaskType
<1>6. one' = NoOne /\ UNCHANGED <<srcv, dstv, pipe, device>>
  BY <1>1, <1>2
<1>7. task.at = "copy" /\ (e # "ok" => task.res = 0)
  BY <1>1, <1>3, <1>4
<1> QED BY <1>2, <1>5, <1>6, <1>7, CopyOver

LEMMA OneFailsInv == BuffersInv /\ OneFails => BuffersInv'
<1> SUFFICES ASSUME BuffersInv, OneFails PROVE BuffersInv'
  OBVIOUS
<1>1. one.how \in Errors /\ one' = NoOne /\ UNCHANGED <<srcv, dstv, pipe, device>>
      /\ task' = [task EXCEPT !.at = task.then, !.err = IF task.res = 0 THEN one.how ELSE "ok"]
  BY DEF OneFails
<1>2. task.at = "copy"
  BY <1>1, OneInCopy DEF Errors
<1>3. one.copied = 0
  BY <1>1, <1>2, OneCalls DEF OneInv
<1>4. PICK e \in Errors \cup {"ok"} : e = IF task.res = 0 THEN one.how ELSE "ok"
  BY <1>1
<1> QED BY <1>1, <1>2, <1>3, <1>4, CopyOver

(***************************************************************************)
(* fuse_bufvec_advance: the source goes on by what was copied.             *)
(***************************************************************************)
LEMMA Advances ==
  ASSUME BuffersTypeOK, SourceInv, HasSource, one.copied <= Src.size - srcv.off, srcv' = Advance(one.copied),
         one' = NoOne
  PROVE  /\ srcv' \in SourceType /\ srcv'.bufs = srcv.bufs /\ srcv'.own = srcv.own
         /\ SourceInv' /\ (TakenAll => TakenAll') /\ Consumed' = Consumed + one.copied /\ Consumed \in Nat
         /\ \/ srcv'.idx = srcv.idx /\ srcv'.off = srcv.off + one.copied
            \/ srcv'.idx = srcv.idx + 1 /\ srcv.off + one.copied = Src.size
<1> DEFINE n == one.copied
           sums == Sums(srcv.bufs)
<1>1. srcv \in SourceType /\ srcv.idx \in 1..Len(srcv.bufs) /\ srcv.off \in Nat /\ n \in Nat /\ Src.size \in Nat
      /\ Len(srcv.bufs) \in Nat /\ Len(srcv.own) = Len(srcv.bufs) /\ one'.copied = 0
  <2>1. srcv \in SourceType /\ srcv.bufs \in Seq(BufType) /\ srcv.off \in Nat /\ n \in Nat
    BY DEF BuffersTypeOK, SourceType, OneType
  <2>2. Len(srcv.bufs) \in Nat
    BY <2>1
  <2> QED BY <2>1, <2>2, SumsAt DEF SourceInv, NoOne
<1>2. \A i \in 1..Len(srcv.bufs) : i > srcv.idx => srcv.own[i] = 0
  BY DEF SourceInv
<1>3. sums[srcv.idx - 1] \in Nat /\ sums[srcv.idx] = sums[srcv.idx - 1] + Src.size
  BY SumsAt
<1>4. Consumed = sums[srcv.idx - 1] + srcv.off /\ Consumed \in Nat
  BY <1>1, <1>3 DEF Consumed
<1>5. CASE srcv.off + n < Src.size
  <2>1. srcv' = [srcv EXCEPT !.off = srcv.off + n]
    BY <1>5 DEF Advance
  <2>2. srcv' \in SourceType /\ srcv'.bufs = srcv.bufs /\ srcv'.own = srcv.own /\ srcv'.idx = srcv.idx
        /\ srcv'.off = srcv.off + n
    <3>1. srcv.off + n \in Nat
      BY <1>1
    <3> HIDE DEF n
    <3> QED BY <1>1, <2>1, <3>1 DEF SourceType
  <2>3. Src' = Src /\ HasSource'
    BY <2>2 DEF Src, HasSource
  <2>4. SourceInv'
    BY <1>1, <1>2, <1>5, <2>2, <2>3 DEF SourceInv, HasSource
  <2>5. TakenAll => TakenAll'
    BY <1>1, <2>2, <2>3 DEF TakenAll
  <2>6. Consumed' = sums[srcv.idx - 1] + (srcv.off + n)
    BY <2>2 DEF Consumed
  <2>7. Consumed' = Consumed + n
    BY <1>1, <1>3, <1>4, <2>6
  <2> QED BY <1>4, <2>2, <2>4, <2>5, <2>7
<1>6. CASE ~(srcv.off + n < Src.size)
  <2>1. srcv' = [srcv EXCEPT !.idx = srcv.idx + 1, !.off = 0]
    BY <1>6 DEF Advance
  <2>2. srcv' \in SourceType /\ srcv'.bufs = srcv.bufs /\ srcv'.own = srcv.own /\ srcv'.idx = srcv.idx + 1
        /\ srcv'.off = 0
    <3>1. PICK k \in Nat : k = srcv.idx + 1
      BY <1>1
    <3>2. srcv' = [srcv EXCEPT !.idx = k, !.off = 0] /\ srcv \in SourceType
      BY <1>1, <2>1, <3>1
    <3>3. srcv' = [bufs |-> srcv.bufs, idx |-> k, off |-> 0, own |-> srcv.own]
      BY <3>2 DEF SourceType
    <3>4. srcv' \in SourceType
      <4>1. srcv.bufs \in Seq(BufType) /\ srcv.own \in Seq(Nat)
        BY <3>2 DEF SourceType
      <4> QED BY <3>3, <4>1 DEF SourceType
    <3> QED BY <3>1, <3>3, <3>4
  <2>3. srcv.off + n = Src.size
    BY <1>1, <1>6
  <2>4. SourceInv'
    <3>1. srcv'.idx \in 1..(Len(srcv'.bufs) + 1) /\ Len(srcv'.own) = Len(srcv'.bufs)
      BY <1>1, <2>2
    <3>2. HasSource' => Src'.size \in Nat
      <4>1. \A i \in 1..Len(srcv'.bufs) : srcv'.bufs[i].size \in Nat
        BY <2>2, SizesAreNat DEF SourceType
      <4> QED BY <3>1, <4>1, <2>2, <1>1 DEF HasSource, Src
    <3>3. \A i \in 1..Len(srcv'.bufs) : i > srcv'.idx => srcv'.own[i] = 0
      BY <1>1, <1>2, <2>2
    <3> QED BY <2>2, <3>1, <3>2, <3>3 DEF SourceInv
  <2>5. TakenAll'
    <3>1. HasSource' => srcv'.idx \in 1..Len(srcv.bufs) /\ srcv'.idx > srcv.idx
      BY <1>1, <2>2 DEF HasSource
    <3> QED BY <1>1, <1>2, <2>2, <3>1 DEF TakenAll
  <2>6. Consumed' = sums[(srcv.idx + 1) - 1] + 0 /\ (srcv.idx + 1) - 1 = srcv.idx
    BY <1>1, <2>2 DEF Consumed
  <2>7. Consumed' = Consumed + n
    <3> HIDE DEF sums
    <3>1. Consumed' = sums[srcv.idx - 1] + Src.size
      BY <1>1, <1>3, <2>6
    <3> QED BY <3>1, <1>1, <1>3, <1>4, <2>3
  <2> QED BY <1>4, <2>2, <2>3, <2>4, <2>5, <2>7
<1> QED BY <1>5, <1>6

(***************************************************************************)
(* fuse_buf_copy_one returns.                                              *)
(***************************************************************************)
Returns(at, to) ==
  /\ task' = [task EXCEPT !.res = @ + one.copied, !.at = at] /\ at \in {"copy", task.then}
  /\ at = "copy" => one.how \notin Over \/ one.len = 0
  /\ at = "copy" => to = dstv.off + one.copied
  /\ dstv'.holds = dstv.holds /\ dstv'.kind = dstv.kind /\ dstv'.size = dstv.size /\ dstv'.splice = dstv.splice
  /\ dstv'.off = to /\ to \in Nat /\ to <= dstv.size /\ dstv' \in DestType
  /\ srcv' = Advance(one.copied) /\ one' = NoOne
  /\ UNCHANGED <<pipe, device>>

LEMMA ReturnsType ==
  ASSUME BuffersInv, task.at = "copy", NEW at, NEW to, Returns(at, to)
  PROVE  /\ task' \in TaskType /\ task'.at = at /\ task'.res = task.res + one.copied /\ task'.then = task.then
         /\ task'.job = task.job /\ task'.data = task.data /\ task'.now = task.now /\ task'.err = "ok"
         /\ one' \in OneType /\ one'.copied = 0 /\ one'.how = "none" /\ OneInv'
         /\ task.res \in Nat /\ task.now \in Nat /\ task.data \in Nat /\ one.copied \in Nat
<1>1. task \in TaskType /\ task.res \in Nat /\ task.now \in Nat /\ task.data \in Nat /\ one.copied \in Nat
      /\ task.err = "ok"
  BY DEF BuffersInv, BuffersTypeOK, TaskType, OneType
<1>2. task.then \in ReplyCopies \cup RequestPlaces
  BY OneCalls DEF ReplyCopy, RequestInv
<1>3. at \in {"copy"} \cup ReplyCopies \cup RequestPlaces
  BY <1>2 DEF Returns
<1>4. one' = NoOne /\ task' = [task EXCEPT !.res = task.res + one.copied, !.at = at]
  BY DEF Returns
<1>5. one' \in OneType /\ one'.copied = 0 /\ one'.how = "none" /\ OneInv'
  BY <1>4 DEF NoOne, OneType, OneInv, Loops, LoopCalls, Errors
<1>6. task.res + one.copied \in Nat
  BY <1>1
<1>7. at \in {"idle", "copy"} \cup ReplyPlaces \cup RequestPlaces
  BY <1>3 DEF ReplyCopies, ReplyPlaces
<1>8. /\ task' \in TaskType /\ task'.at = at /\ task'.res = task.res + one.copied /\ task'.then = task.then
      /\ task'.job = task.job /\ task'.data = task.data /\ task'.now = task.now /\ task'.err = "ok"
  BY <1>1, <1>4, <1>6, <1>7 DEF TaskType
<1> QED BY <1>1, <1>5, <1>8

LEMMA ReturnsReply ==
  ASSUME BuffersInv, task.at = "copy", ReplyInv, ReplyCopy, NEW at, NEW to, Returns(at, to), HasSource,
         one.copied <= Src.size - srcv.off
  PROVE  ReplyInv'
<1>1. /\ task'.at = at /\ task'.res = task.res + one.copied /\ task'.then = task.then /\ task'.now = task.now
      /\ task'.data = task.data /\ task'.err = "ok" /\ one'.copied = 0 /\ OneInv'
      /\ task.res \in Nat /\ task.now \in Nat /\ one.copied \in Nat
  BY ReturnsType
<1>2. srcv'.bufs = srcv.bufs /\ (TakenAll => TakenAll') /\ Consumed' = Consumed + one.copied /\ Consumed \in Nat
  BY Advances DEF Returns, BuffersInv
<1>3. task.then \in ReplyCopies /\ Consumed = task.now + task.res /\ dstv.off = task.now + task.res /\ Whole
      /\ Gets(task.then) /\ DestInv
  BY DEF ReplyCopy
<1>4. Whole' /\ Consumed' = task'.now + task'.res
  BY <1>1, <1>2, <1>3 DEF Whole
<1>5. dstv'.holds = dstv.holds /\ dstv'.kind = dstv.kind /\ dstv'.size = dstv.size /\ dstv'.splice = dstv.splice
      /\ dstv'.off = to /\ to <= dstv.size /\ pipe' = pipe
  BY DEF Returns
<1>6. DestInv'
  BY <1>3, <1>5 DEF DestInv
<1>7. task'.res + one'.copied = task.res + one.copied /\ 1 + task'.res + one'.copied = 1 + task.res + one.copied
      /\ task'.now + task'.res + one'.copied = task.now + task.res + one.copied
      /\ task'.now + task'.res = task.now + task.res + one.copied /\ 1 + task'.res = 1 + task.res + one.copied
  BY <1>1
<1>8. Gets(task.then)'
  BY <1>1, <1>3, <1>5, <1>7 DEF Gets, ReplyCopies, InPipe, Holds
<1>9. \A i \in 1..Len(srcv'.bufs) : srcv'.bufs[i].kind # "pipe"
  BY <1>2 DEF ReplyInv
<1>10. CASE at = "copy"
  <2>1. dstv'.off = task'.now + task'.res
    <3>1. to = dstv.off + one.copied
      BY <1>10 DEF Returns
    <3> QED BY <3>1, <1>1, <1>3, <1>5, <1>7
  <2>2. ReplyCopy'
    BY <1>1, <1>3, <1>4, <1>6, <1>8, <2>1 DEF ReplyCopy
  <2> QED BY <1>1, <1>9, <1>10, <2>2 DEF ReplyInv
<1>11. CASE at = task.then /\ task.then = "spliced"
  <2>1. task.now = 0 /\ InPipe(1 + task.res + one.copied)
    BY <1>3, <1>11 DEF Gets
  <2>2. Consumed' = task'.res
    BY <2>1, <1>1, <1>4
  <2>3. InPipe(1 + task.res)'
    BY <2>1, <1>5, <1>7 DEF InPipe
  <2>4. Spliced'
    BY <2>1, <2>2, <2>3, <1>1, <1>4 DEF Spliced
  <2> QED BY <2>4, <1>1, <1>9, <1>11 DEF ReplyInv, ReplyPlaces
<1>12. CASE at = task.then /\ task.then = "extra"
  <2>1. Holds(task.now, task.now + task.res + one.copied) /\ InPipe(1 + task.now)
    BY <1>3, <1>12 DEF Gets
  <2>2. Extra'
    BY <2>1, <1>1, <1>5, <1>7 DEF Extra, Holds, InPipe
  <2> QED BY <2>2, <1>1, <1>9, <1>12 DEF ReplyInv, ReplyPlaces
<1>13. CASE at = task.then /\ task.then = "message"
  <2>1. Holds(0, task.res + one.copied) /\ pipe = <<>>
    BY <1>3, <1>13 DEF Gets
  <2>2. InMessage'
    BY <2>1, <1>1, <1>5 DEF InMessage, Holds
  <2> QED BY <2>2, <1>1, <1>9, <1>13 DEF ReplyInv, ReplyPlaces
<1> QED BY <1>3, <1>10, <1>11, <1>12, <1>13 DEF Returns, ReplyCopies

LEMMA ReturnsRequest ==
  ASSUME BuffersInv, task.at = "copy", RequestInv, RequestCopy, NEW at, NEW to, Returns(at, to), HasSource,
         one.copied <= Src.size - srcv.off
  PROVE  RequestInv'
<1>1. /\ task'.at = at /\ task'.res = task.res + one.copied /\ task'.then = task.then /\ task'.now = task.now
      /\ task'.data = task.data /\ one'.copied = 0 /\ OneInv' /\ one'.how = "none"
      /\ task.res \in Nat /\ task.data \in Nat /\ one.copied \in Nat
  BY ReturnsType
<1>2. /\ srcv'.bufs = srcv.bufs /\ srcv'.own = srcv.own /\ (TakenAll => TakenAll')
      /\ Consumed' = Consumed + one.copied /\ Consumed \in Nat
      /\ \/ srcv'.idx = srcv.idx /\ srcv'.off = srcv.off + one.copied
         \/ srcv'.idx = srcv.idx + 1 /\ srcv.off + one.copied = Src.size
  BY Advances DEF Returns, BuffersInv
<1>3. /\ srcv.idx = 1 /\ Src.size = PipeLength /\ srcv.own[1] \in Nat /\ srcv.off \in Nat /\ PipeLength \in Nat
      /\ Start \in {0, 1}
  BY RequestSource DEF BuffersInv
<1>4. PipeLength' = PipeLength /\ Start' = Start /\ Skip' = Skip
  BY <1>1 DEF PipeLength, Start, Skip
<1>5. Left' /\ task.then \in RequestPlaces /\ srcv.own[1] <= PipeLength /\ srcv.own[1] >= srcv.off + one.copied
  <2>1. pipe' = pipe
    BY DEF Returns
  <2> QED BY <2>1, <1>2, <1>3, <1>4 DEF RequestInv, Left
<1>6. (srcv'.idx = 1 => srcv'.own[1] >= srcv'.off + one'.copied) /\ (srcv'.idx = 2 => srcv'.own[1] = PipeLength')
  <2>1. CASE srcv'.idx = srcv.idx /\ srcv'.off = srcv.off + one.copied
    <3>1. srcv'.off + one'.copied = srcv.off + one.copied /\ srcv'.idx = 1
      BY <2>1, <1>1, <1>3
    <3> QED BY <3>1, <1>2, <1>5
  <2>2. CASE srcv'.idx = srcv.idx + 1 /\ srcv.off + one.copied = Src.size
    <3>1. srcv'.idx = 2 /\ srcv.own[1] >= PipeLength
      BY <2>2, <1>3, <1>5
    <3>2. srcv.own[1] = PipeLength
      BY <3>1, <1>3, <1>5
    <3> QED BY <3>1, <3>2, <1>2, <1>4
  <2> QED BY <2>1, <2>2, <1>2
<1>7. ~Lost' => TakenAll'
  <2>1. SUFFICES ASSUME ~Lost' PROVE TakenAll
    BY <1>2
  <2>2. ~Lost
    <3>1. CASE task.then = "written"
      <4>1. at = "copy"
        BY <2>1, <3>1, <1>1 DEF Lost, Returns
      <4>2. ~(one.how \in Over /\ one.len > 0)
        BY <4>1 DEF Returns, BuffersInv, BuffersTypeOK, OneType
      <4> QED BY <4>2 DEF Lost
    <3>2. CASE task.then # "written"
      BY <3>2 DEF Lost
    <3> QED BY <3>1, <3>2
  <2> QED BY <2>2 DEF RequestInv
<1>8. Consumed' = task'.res + Start'
  BY <1>1, <1>2, <1>3, <1>4 DEF RequestInv
<1>9. dstv'.holds = dstv.holds /\ dstv'.kind = dstv.kind /\ dstv'.size = dstv.size
      /\ dstv'.off = to /\ to <= dstv.size
  BY DEF Returns
<1>10. task.then \in {"rest", "written"} => Holds(0, task.res)'
  <2>1. task'.res = task.res + one.copied
    BY <1>1
  <2> QED BY <2>1, <1>9 DEF RequestCopy, Holds
<1>11. task.then = "rest" => Len(dstv'.holds) = task'.data
  BY <1>1, <1>9 DEF RequestCopy, DestInv
<1>12. task.then = "small" => task.data = 0
  BY DEF RequestInv
<1>13. at = "copy" => RequestCopy'
  <2>1. SUFFICES ASSUME at = "copy" PROVE RequestCopy'
    OBVIOUS
  <2>2. to = dstv.off + one.copied
    BY <2>1 DEF Returns
  <2>3. DestInv'
    BY <1>9 DEF RequestCopy, DestInv
  <2>4. dstv'.off = task'.res
    BY <2>2, <1>1, <1>9 DEF RequestCopy
  <2>5. task.then \in {"rest", "written"} => Holds(0, task.res + one.copied)'
    <3>1. task'.res + one'.copied = task'.res
      BY <1>1
    <3> QED BY <3>1, <1>10
  <2> QED BY <2>3, <2>4, <2>5, <1>1, <1>9 DEF RequestCopy
<1>14. at \in {"copy", task.then}
  BY DEF Returns
<1>15. srcv'.bufs = <<PipeBuf(PipeLength)>>'
  BY <1>2, <1>4 DEF RequestInv
<1> QED BY <1>1, <1>5, <1>6, <1>7, <1>8, <1>10, <1>11, <1>12, <1>13, <1>14, <1>15 DEF RequestInv, RequestPlaces

LEMMA OneReturnsInv == BuffersInv /\ OneReturns => BuffersInv'
<1> SUFFICES ASSUME BuffersInv, OneReturns PROVE BuffersInv'
  OBVIOUS
<1> DEFINE n == one.copied
           last == srcv.idx = Len(srcv.bufs) /\ srcv.off + n = Src.size
           full == dstv.off + n = dstv.size
<1>1. one.how # "none" /\ (one.how = "end" \/ one.len = 0)
  BY DEF OneReturns
<1>2. task.at = "copy" /\ HasSource
  BY <1>1, OneInCopy
<1>3. OneInv /\ dstv.off \in Nat /\ dstv.size \in Nat /\ n \in Nat /\ one.len \in Nat /\ Src.size \in Nat
      /\ srcv.off \in Nat
  BY <1>2, OneCalls
<1>4. one.copied <= Src.size - srcv.off /\ dstv.off + n <= dstv.size /\ dstv.off <= dstv.size
  <2>1. n + one.len <= Src.size - srcv.off /\ n + one.len <= dstv.size - dstv.off
    BY <1>1, <1>3 DEF OneInv
  <2> QED BY <2>1, <1>3
<1>5. PICK at : at = IF last \/ full \/ one.len > 0 THEN task.then ELSE "copy"
  OBVIOUS
<1>6. PICK to \in Nat : to = IF last THEN dstv.off ELSE dstv.off + n
  BY <1>3
<1>7. /\ srcv' = Advance(n) /\ one' = NoOne /\ UNCHANGED <<pipe, device>>
      /\ dstv' = IF last THEN dstv ELSE [dstv EXCEPT !.off = dstv.off + n, !.full = full]
      /\ task' = [task EXCEPT !.res = task.res + n, !.at = at]
  BY <1>2, <1>5 DEF OneReturns
<1>8. /\ dstv'.holds = dstv.holds /\ dstv'.kind = dstv.kind /\ dstv'.size = dstv.size /\ dstv'.splice = dstv.splice
      /\ dstv'.off = to /\ dstv' \in DestType
  <2>1. dstv \in DestType
    BY DEF BuffersInv, BuffersTypeOK
  <2>2. dstv.off + n \in Nat /\ full \in BOOLEAN
    BY <1>3
  <2> HIDE DEF last, full, n
  <2> QED BY <2>1, <2>2, <1>6, <1>7 DEF DestType
<1>9. to <= dstv.size /\ (at = "copy" => to = dstv.off + one.copied /\ one.len = 0) /\ at \in {"copy", task.then}
  <2>1. task.then # "copy"
    BY <1>2, OneCalls DEF ReplyCopy, ReplyCopies, RequestInv, RequestPlaces
  <2> QED BY <2>1, <1>3, <1>4, <1>5, <1>6
<1>10. Returns(at, to)
  BY <1>7, <1>8, <1>9 DEF Returns
<1>11. /\ task' \in TaskType /\ task'.at = at /\ task'.job = task.job /\ task'.err = "ok" /\ one' \in OneType
       /\ one' = NoOne
  BY <1>2, <1>7, <1>10, ReturnsType
<1>12. srcv' \in SourceType /\ SourceInv'
  BY <1>2, <1>4, <1>7, Advances DEF BuffersInv
<1>13. BuffersTypeOK' /\ AnswerExact'
  BY <1>7, <1>8, <1>11, <1>12 DEF BuffersInv, BuffersTypeOK, AnswerExact
<1>14. task.job = "reply" => ReplyInv'
  BY <1>2, <1>4, <1>10, OneCalls, ReturnsReply
<1>15. task.job \in {"write", "other"} => RequestInv'
  BY <1>2, <1>4, <1>10, OneCalls, ReturnsRequest
<1>16. at # "idle" /\ task.job # "none"
  BY <1>2, <1>9, OneCalls DEF ReplyCopy, ReplyCopies, RequestInv, RequestPlaces
<1> QED BY <1>11, <1>12, <1>13, <1>14, <1>15, <1>16 DEF BuffersInv
-----------------------------------------------------------------------------
(***************************************************************************)
(* What answers and requests begin with.                                   *)
(***************************************************************************)
LEMMA NewSource ==
  ASSUME NEW bufs, bufs \in Seq(BufType)
  PROVE  /\ Source(bufs) \in SourceType /\ Source(bufs).bufs = bufs /\ Source(bufs).idx = 1 /\ Source(bufs).off = 0
         /\ Len(Source(bufs).own) = Len(bufs) /\ \A i \in 1..Len(bufs) : Source(bufs).own[i] = 0
<1> DEFINE own == [i \in DOMAIN bufs |-> 0]
<1>1. own \in Seq(Nat) /\ Len(own) = Len(bufs) /\ \A i \in 1..Len(bufs) : own[i] = 0
  OBVIOUS
<1> HIDE DEF own
<1>2. Source(bufs) = [bufs |-> bufs, idx |-> 1, off |-> 0, own |-> own]
  BY DEF Source, own
<1> QED BY <1>1, <1>2 DEF SourceType

LEMMA SourceBegins ==
  ASSUME NEW bufs, bufs \in Seq(BufType), srcv' = Source(bufs), one' = NoOne
  PROVE  /\ srcv' \in SourceType /\ SourceInv' /\ TakenAll' /\ Consumed' = 0 /\ srcv'.bufs = bufs /\ srcv'.idx = 1
         /\ srcv'.off = 0 /\ \A i \in 1..Len(bufs) : srcv'.own[i] = 0
<1>1. /\ srcv' \in SourceType /\ srcv'.bufs = bufs /\ srcv'.idx = 1 /\ srcv'.off = 0
      /\ Len(srcv'.own) = Len(bufs) /\ \A i \in 1..Len(bufs) : srcv'.own[i] = 0
  BY NewSource
<1>2. Len(bufs) \in Nat /\ \A i \in 1..Len(bufs) : bufs[i].size \in Nat
  BY SizesAreNat
<1>3. SourceInv'
  BY <1>1, <1>2 DEF SourceInv, HasSource, Src
<1>4. TakenAll'
  <2>1. one'.copied = 0
    BY DEF NoOne
  <2> QED BY <2>1, <1>1, <1>2 DEF TakenAll, HasSource
<1>5. Consumed' = 0
  <2>1. Sums(bufs)[0] = 0
    BY SumsAre DEF SumsUpTo
  <2> QED BY <1>1, <2>1 DEF Consumed
<1> QED BY <1>1, <1>3, <1>4, <1>5

LEMMA NewMemory ==
  ASSUME NEW n \in Nat
  PROVE  /\ Memory(n) \in DestType /\ Memory(n).kind = "mem" /\ Memory(n).size = n /\ Memory(n).off = 0
         /\ Len(Memory(n).holds) = n /\ Memory(n).splice
<1> DEFINE holds == [i \in 1..n |-> Blank]
<1>1. holds \in Seq(Int) /\ Len(holds) = n
  BY DEF Blank
<1> HIDE DEF holds
<1>2. Memory(n) = [kind |-> "mem", size |-> n, off |-> 0, full |-> FALSE, retry |-> FALSE, splice |-> TRUE,
                   holds |-> holds]
  BY DEF Memory, holds
<1> QED BY <1>1, <1>2 DEF DestType

(***************************************************************************)
(* A request that ends leaves nothing behind.                              *)
(***************************************************************************)
LEMMA EndsInv ==
  ASSUME NEW answer, Ends(answer), pipe' = <<>>, answer \in [len : Nat, bytes : Seq(Int)],
         answer.len = IF answer = NoAnswer THEN 0 ELSE 1 + Len(answer.bytes),
         \A i \in 1..Len(answer.bytes) : answer.bytes[i] = i
  PROVE  BuffersInv'
<1>1. task' = NoWork /\ srcv' = Source(<<>>) /\ dstv' = Memory(0) /\ one' = NoOne /\ device' = answer
  BY DEF Ends, Emptied
<1>2. srcv' \in SourceType /\ SourceInv'
  <2>1. <<>> \in Seq(BufType)
    OBVIOUS
  <2> QED BY <2>1, <1>1, SourceBegins
<1>3. dstv' \in DestType
  BY <1>1, NewMemory
<1>4. task' \in TaskType /\ one' \in OneType /\ task'.job = "none" /\ task'.at = "idle"
  BY <1>1 DEF NoWork, TaskType, NoOne, OneType
<1>5. pipe' \in Seq(Int)
  OBVIOUS
<1>6. AnswerExact'
  <2>1. DOMAIN answer.bytes = 1..Len(answer.bytes)
    OBVIOUS
  <2> QED BY <1>1, <2>1 DEF AnswerExact
<1> QED BY <1>1, <1>2, <1>3, <1>4, <1>5, <1>6 DEF BuffersInv, BuffersTypeOK

LEMMA ToldInv == ASSUME Ends(Told), pipe' = <<>> PROVE BuffersInv'
<1>1. Told \in [len : Nat, bytes : Seq(Int)] /\ Told # NoAnswer /\ Told.len = 1 /\ Told.bytes = <<>>
  BY DEF Told, NoAnswer
<1>2. Len(<<>>) = 0
  OBVIOUS
<1> QED BY <1>1, <1>2, EndsInv

(***************************************************************************)
(* The first bytes of what is held, or of the pipe, are an answer.         *)
(***************************************************************************)
LEMMA BytesInv ==
  ASSUME NEW n \in Nat, NEW bytes \in Seq(Int), Len(bytes) = n, \A i \in 1..n : bytes[i] = i,
         Ends([len |-> 1 + n, bytes |-> bytes]), pipe' = <<>>
  PROVE  BuffersInv'
<1> DEFINE answer == [len |-> 1 + n, bytes |-> bytes]
<1>1. answer \in [len : Nat, bytes : Seq(Int)] /\ answer # NoAnswer /\ answer.len = 1 + n /\ answer.bytes = bytes
  BY DEF NoAnswer
<1> HIDE DEF answer
<1>2. Ends(answer)
  BY DEF answer
<1> QED BY <1>1, <1>2, EndsInv

LEMMA HeldInv ==
  ASSUME BuffersTypeOK, NEW n \in Nat, Holds(0, n), Ends([len |-> 1 + n, bytes |-> SubSeq(dstv.holds, 1, n)]),
         pipe' = <<>>
  PROVE  BuffersInv'
<1>1. dstv.holds \in Seq(Int)
  BY DEF BuffersTypeOK, DestType
<1>2. n <= Len(dstv.holds) /\ \A i \in 1..n : dstv.holds[i] = i
  BY DEF Holds
<1> DEFINE bytes == SubSeq(dstv.holds, 1, n)
<1>3. bytes \in Seq(Int) /\ Len(bytes) = n /\ \A i \in 1..n : bytes[i] = dstv.holds[i]
  BY <1>1, <1>2, SubSeqProperties
<1> HIDE DEF bytes
<1>4. Ends([len |-> 1 + n, bytes |-> bytes])
  BY DEF bytes
<1> QED BY <1>2, <1>3, <1>4, BytesInv

(***************************************************************************)
(* Which places are those of answers and which of requests.                *)
(***************************************************************************)
LEMMA ReplyPlace == BuffersInv /\ task.at \in ReplyPlaces => task.job = "reply" /\ ReplyInv
  BY DEF BuffersInv, BuffersTypeOK, TaskType, ReplyPlaces, RequestInv, RequestPlaces

LEMMA RequestPlace == BuffersInv /\ task.at \in RequestPlaces
                      => task.job \in {"write", "other"} /\ RequestInv /\ task.then = task.at
  BY DEF BuffersInv, BuffersTypeOK, TaskType, ReplyPlaces, ReplyInv, RequestInv, RequestPlaces

(***************************************************************************)
(* A step between copies: the source and the answer before stay.           *)
(***************************************************************************)
LEMMA PlacesInv ==
  ASSUME BuffersInv, task' \in TaskType, task'.job = "reply", ReplyInv', UNCHANGED <<srcv, device>>,
         dstv' \in DestType, one' = NoOne, pipe' \in Seq(Int), task'.at \in {"copy"} \cup ReplyPlaces,
         task'.at = "copy" => task'.err = "ok"
  PROVE  BuffersInv'
<1>1. NoOne \in OneType
  BY DEF NoOne, OneType
<1>2. BuffersTypeOK' /\ SourceInv' /\ AnswerExact'
  BY <1>1 DEF BuffersInv, BuffersTypeOK, SourceInv, HasSource, Src, AnswerExact
<1> QED BY <1>2 DEF BuffersInv, ReplyPlaces
-----------------------------------------------------------------------------
(***************************************************************************)
(* The steps of an answer.                                                 *)
(***************************************************************************)
LEMMA ReplyBufs ==
  ASSUME NEW bufs \in Replies
  PROVE  bufs \in Seq(BufType) /\ \A i \in 1..Len(bufs) : bufs[i].kind # "pipe"
<1>1. bufs \in Seq(Buffer)
  BY BuffersAssumption
<1>2. \A i \in 1..Len(bufs) : bufs[i] \in Buffer
  BY <1>1
<1>3. \A i \in 1..Len(bufs) : bufs[i] \in BufType /\ bufs[i].kind # "pipe"
  BY <1>2 DEF Buffer, BufType
<1> QED BY <1>1, <1>3

LEMMA BufSizeIsNat == ASSUME NEW bufs, bufs \in Seq(BufType) PROVE BufSize(bufs) \in Nat
<1>1. Len(bufs) \in Nat
  OBVIOUS
<1> QED BY <1>1, SumsAre DEF SumsUpTo, BufSize

LEMMA ReplyDataInv == ASSUME NEW bufs \in Replies, BuffersInv, ReplyData(bufs) PROVE BuffersInv'
<1>1. bufs \in Seq(BufType) /\ BufSize(bufs) \in Nat /\ \A i \in 1..Len(bufs) : bufs[i].kind # "pipe"
  BY ReplyBufs, BufSizeIsNat
<1>2. /\ task' = [job |-> "reply", at |-> "choose", then |-> "none", data |-> BufSize(bufs), res |-> 0,
                  err |-> "ok", now |-> 0]
      /\ srcv' = Source(bufs) /\ device' = NoAnswer /\ UNCHANGED <<dstv, one, pipe>> /\ task.at = "idle"
  BY DEF ReplyData, NoWork
<1>3. pipe' = <<>> /\ one = NoOne /\ one' = NoOne
  BY <1>2 DEF BuffersInv
<1>4. srcv' \in SourceType /\ SourceInv' /\ TakenAll' /\ Consumed' = 0 /\ srcv'.bufs = bufs
  BY <1>1, <1>2, <1>3, SourceBegins
<1>5. BuffersTypeOK' /\ AnswerExact'
  <2>1. task' \in TaskType
    BY <1>1, <1>2 DEF TaskType, ReplyPlaces
  <2>2. NoAnswer \in [len : Nat, bytes : Seq(Int)] /\ NoAnswer.len = 0 /\ DOMAIN NoAnswer.bytes = {}
    BY DEF NoAnswer
  <2> QED BY <1>2, <1>4, <2>1, <2>2 DEF BuffersInv, BuffersTypeOK, AnswerExact
<1>6. NotBegun'
  BY <1>2, <1>3, <1>4 DEF NotBegun, Whole
<1>7. ReplyInv'
  BY <1>1, <1>2, <1>4, <1>6 DEF ReplyInv, ReplyPlaces
<1> QED BY <1>2, <1>3, <1>4, <1>5, <1>7 DEF BuffersInv

LEMMA SendFallbackInv == BuffersInv /\ SendFallback => BuffersInv'
<1> SUFFICES ASSUME BuffersInv, SendFallback PROVE BuffersInv'
  OBVIOUS
<1>1. task.at = "choose" /\ task' = [task EXCEPT !.at = "fallback"] /\ UNCHANGED <<srcv, dstv, one, pipe, device>>
  BY DEF SendFallback
<1>2. task.job = "reply" /\ ReplyInv /\ NotBegun /\ one = NoOne
  BY <1>1, ReplyPlace DEF ReplyPlaces, ReplyInv, BuffersInv
<1>3. /\ task' \in TaskType /\ task'.job = "reply" /\ task'.at = "fallback" /\ task'.data = task.data
      /\ task'.now = task.now
  BY <1>1, <1>2 DEF BuffersInv, BuffersTypeOK, TaskType, ReplyPlaces
<1>4. NotBegun'
  BY <1>1, <1>2, <1>3 DEF NotBegun, Whole, TakenAll, Consumed, HasSource
<1>5. ReplyInv'
  BY <1>1, <1>2, <1>3, <1>4 DEF ReplyInv, ReplyPlaces
<1> QED BY <1>1, <1>2, <1>3, <1>5, PlacesInv DEF BuffersInv, BuffersTypeOK, ReplyPlaces

(***************************************************************************)
(* An answer is copied from what is left of its source.                    *)
(***************************************************************************)
LEMMA ReplyCopied ==
  ASSUME BuffersInv, ReplyInv, task.job = "reply", Whole, one = NoOne, UNCHANGED <<srcv, one, device>>,
         task' \in TaskType, task'.at = "copy", task'.job = "reply", task'.then \in ReplyCopies,
         task'.data = task.data, task'.err = "ok", Consumed = task'.now + task'.res,
         dstv' \in DestType, dstv'.off = task'.now + task'.res, DestInv', Gets(task.then)', pipe' \in Seq(Int)
  PROVE  BuffersInv'
<1>1. Whole' /\ Consumed' = Consumed
  BY DEF Whole, TakenAll, Consumed, HasSource
<1>2. OneInv'
  BY DEF OneInv, NoOne, Loops, LoopCalls, Errors
<1>3. ReplyCopy'
  BY <1>1, <1>2 DEF ReplyCopy
<1>4. ReplyInv'
  BY <1>3 DEF ReplyInv
<1> QED BY <1>4, PlacesInv

LEMMA VmSpliceInv == BuffersInv /\ VmSplice => BuffersInv'
<1> SUFFICES ASSUME BuffersInv, VmSplice PROVE BuffersInv'
  OBVIOUS
<1>1. /\ task.at = "choose" /\ pipe' = Append(pipe, Header) /\ UNCHANGED <<srcv, one, device>>
      /\ dstv' = IntoPipe(task.data)
      /\ task' = [task EXCEPT !.at = "copy", !.then = "spliced", !.res = 0, !.err = "ok"]
  BY DEF VmSplice, CopyTo
<1>2. task.job = "reply" /\ ReplyInv /\ NotBegun /\ one = NoOne /\ task \in TaskType /\ task.data \in Nat
  BY <1>1, ReplyPlace DEF ReplyPlaces, ReplyInv, BuffersInv, BuffersTypeOK, TaskType
<1>3. /\ task' \in TaskType /\ task'.job = "reply" /\ task'.at = "copy" /\ task'.then = "spliced"
      /\ task'.data = task.data /\ task'.now = task.now /\ task'.res = 0 /\ task'.err = "ok"
  BY <1>1, <1>2 DEF TaskType, ReplyCopies
<1>4. Whole /\ Consumed = 0 /\ task.now = 0 /\ pipe = <<>>
  BY <1>2 DEF NotBegun
<1>5. dstv' \in DestType /\ dstv'.kind = "pipe" /\ dstv'.off = 0 /\ dstv'.size = task.data /\ dstv'.splice
  <2>1. dstv' = [Memory(task.data) EXCEPT !.kind = "pipe", !.holds = <<>>]
    BY <1>1 DEF IntoPipe
  <2>2. /\ Memory(task.data) \in DestType /\ Memory(task.data).size = task.data /\ Memory(task.data).off = 0
        /\ Memory(task.data).splice
    BY <1>2, NewMemory
  <2>3. <<>> \in Seq(Int)
    OBVIOUS
  <2> QED BY <2>1, <2>2, <2>3 DEF DestType
<1>6. pipe' \in Seq(Int) /\ Len(pipe') = 1 /\ pipe'[1] = 0
  BY <1>1, <1>4 DEF Header
<1>7. InPipe(1 + task.res + one.copied)'
  <2>1. 1 + task'.res + one'.copied = 1
    BY <1>1, <1>2, <1>3 DEF NoOne
  <2> QED BY <1>6, <2>1 DEF InPipe
<1>8. Gets(task.then)'
  BY <1>3, <1>4, <1>5, <1>7 DEF Gets
<1>9. DestInv' /\ dstv'.off = task'.now + task'.res /\ Consumed = task'.now + task'.res
  BY <1>2, <1>3, <1>4, <1>5 DEF DestInv
<1> QED BY <1>1, <1>2, <1>3, <1>4, <1>5, <1>6, <1>8, <1>9, ReplyCopied DEF ReplyCopies

LEMMA SpliceCannotInv == BuffersInv /\ SpliceCannot => BuffersInv'
<1> SUFFICES ASSUME BuffersInv, SpliceCannot PROVE BuffersInv'
  OBVIOUS
<1>1. /\ task.at = "spliced" /\ task.err # "ok" /\ pipe' = <<>> /\ task' = [task EXCEPT !.at = "fallback"]
      /\ UNCHANGED <<srcv, dstv, one, device>>
  BY DEF SpliceCannot, ClearPipe
<1>2. task.job = "reply" /\ ReplyInv /\ Spliced /\ one = NoOne
  BY <1>1, ReplyPlace DEF ReplyPlaces, ReplyInv, BuffersInv
<1>3. /\ task' \in TaskType /\ task'.job = "reply" /\ task'.at = "fallback" /\ task'.data = task.data
      /\ task'.now = task.now
  BY <1>1, <1>2 DEF BuffersInv, BuffersTypeOK, TaskType, ReplyPlaces
<1>4. NotBegun'
  BY <1>1, <1>2, <1>3 DEF Spliced, NotBegun, Whole, TakenAll, Consumed, HasSource
<1>5. ReplyInv'
  BY <1>1, <1>2, <1>3, <1>4 DEF ReplyInv, ReplyPlaces
<1>6. pipe' \in Seq(Int) /\ dstv' \in DestType
  BY <1>1 DEF BuffersInv, BuffersTypeOK
<1> QED BY <1>1, <1>2, <1>3, <1>5, <1>6, PlacesInv DEF ReplyPlaces

LEMMA SplicedShortInv == BuffersInv /\ SplicedShort => BuffersInv'
<1> SUFFICES ASSUME BuffersInv, SplicedShort PROVE BuffersInv'
  OBVIOUS
<1>1. /\ task.at = "spliced" /\ task.err = "ok" /\ task.res < task.data /\ dstv' = Behind(task.res)
      /\ task' = [task EXCEPT !.now = task.res, !.at = "copy", !.then = "extra", !.res = 0]
      /\ UNCHANGED <<srcv, one, pipe, device>>
  BY DEF SplicedShort, Short
<1>2. /\ task.job = "reply" /\ ReplyInv /\ Spliced /\ one = NoOne /\ task \in TaskType /\ task.data \in Nat
      /\ task.res \in Nat
  BY <1>1, ReplyPlace DEF ReplyPlaces, ReplyInv, BuffersInv, BuffersTypeOK, TaskType
<1>3. /\ task' \in TaskType /\ task'.job = "reply" /\ task'.at = "copy" /\ task'.then = "extra"
      /\ task'.data = task.data /\ task'.now = task.res /\ task'.res = 0 /\ task'.err = "ok"
  BY <1>1, <1>2 DEF TaskType, ReplyCopies
<1>4. Whole /\ Consumed = task.res /\ InPipe(1 + task.res)
  BY <1>2 DEF Spliced
<1>5. /\ dstv' \in DestType /\ dstv'.kind = "mem" /\ dstv'.off = task.res /\ dstv'.size = task.data
      /\ Len(dstv'.holds) = task.data
  <2>1. dstv' = [Memory(task.data) EXCEPT !.off = task.res]
    BY <1>1 DEF Behind
  <2>2. /\ Memory(task.data) \in DestType /\ Memory(task.data).kind = "mem" /\ Memory(task.data).size = task.data
        /\ Len(Memory(task.data).holds) = task.data
    BY <1>2, NewMemory
  <2> QED BY <1>2, <2>1, <2>2 DEF DestType
<1>6. task'.now + task'.res = task.res /\ task'.now + task'.res + one'.copied = task.res
  BY <1>1, <1>2, <1>3 DEF NoOne
<1>7. Gets(task.then)'
  <2>1. InPipe(1 + task.now)'
    BY <1>1, <1>3, <1>4 DEF InPipe
  <2>2. Holds(task.now, task.now + task.res + one.copied)'
    BY <1>1, <1>2, <1>3, <1>5, <1>6 DEF Holds
  <2> QED BY <1>3, <1>5, <2>1, <2>2 DEF Gets
<1>8. DestInv' /\ pipe' \in Seq(Int)
  BY <1>1, <1>2, <1>5 DEF DestInv, BuffersInv, BuffersTypeOK
<1> QED BY <1>1, <1>2, <1>3, <1>4, <1>5, <1>6, <1>7, <1>8, ReplyCopied DEF ReplyCopies

LEMMA SplicedWellInv == BuffersInv /\ SplicedWell => BuffersInv'
<1> SUFFICES ASSUME BuffersInv, SplicedWell PROVE BuffersInv'
  OBVIOUS
<1>1. task.at = "spliced" /\ task' = [task EXCEPT !.now = task.res, !.at = "send"]
      /\ UNCHANGED <<srcv, dstv, one, pipe, device>>
  BY DEF SplicedWell
<1>2. task.job = "reply" /\ ReplyInv /\ Spliced /\ one = NoOne
  BY <1>1, ReplyPlace DEF ReplyPlaces, ReplyInv, BuffersInv
<1>3. task' \in TaskType /\ task'.job = "reply" /\ task'.at = "send" /\ task'.now = task.res
  BY <1>1, <1>2 DEF BuffersInv, BuffersTypeOK, TaskType, ReplyPlaces
<1>4. InPipe(1 + task.now)'
  BY <1>1, <1>2, <1>3 DEF Spliced, InPipe
<1>5. ReplyInv'
  BY <1>1, <1>2, <1>3, <1>4 DEF ReplyInv, ReplyPlaces
<1> QED BY <1>1, <1>2, <1>3, <1>5, PlacesInv DEF BuffersInv, BuffersTypeOK, ReplyPlaces

LEMMA NoExtraInv == BuffersInv /\ NoExtra => BuffersInv'
<1> SUFFICES ASSUME BuffersInv, NoExtra PROVE BuffersInv'
  OBVIOUS
<1>1. task.at = "extra" /\ task' = [task EXCEPT !.at = "send"] /\ UNCHANGED <<srcv, dstv, one, pipe, device>>
  BY DEF NoExtra
<1>2. task.job = "reply" /\ ReplyInv /\ Extra /\ one = NoOne
  BY <1>1, ReplyPlace DEF ReplyPlaces, ReplyInv, BuffersInv
<1>3. task' \in TaskType /\ task'.job = "reply" /\ task'.at = "send" /\ task'.now = task.now
  BY <1>1, <1>2 DEF BuffersInv, BuffersTypeOK, TaskType, ReplyPlaces
<1>4. InPipe(1 + task.now)'
  BY <1>1, <1>2, <1>3 DEF Extra, InPipe
<1>5. ReplyInv'
  BY <1>1, <1>2, <1>3, <1>4 DEF ReplyInv, ReplyPlaces
<1> QED BY <1>1, <1>2, <1>3, <1>5, PlacesInv DEF BuffersInv, BuffersTypeOK, ReplyPlaces

LEMMA ReadBackInv == BuffersInv /\ ReadBack => BuffersInv'
<1> SUFFICES ASSUME BuffersInv, ReadBack PROVE BuffersInv'
  OBVIOUS
<1> DEFINE holds == [i \in DOMAIN dstv.holds |-> IF i <= task.now THEN pipe[i + 1] ELSE dstv.holds[i]]
<1>1. /\ task.at = "extra" /\ dstv' = [dstv EXCEPT !.holds = holds] /\ pipe' = SubSeq(pipe, task.now + 2, Len(pipe))
      /\ task' = [task EXCEPT !.at = "message", !.res = task.now + task.res] /\ UNCHANGED <<srcv, one, device>>
  BY DEF ReadBack
<1>2. /\ task.job = "reply" /\ ReplyInv /\ Extra /\ one = NoOne /\ task \in TaskType /\ task.now \in Nat
      /\ task.res \in Nat
  BY <1>1, ReplyPlace DEF ReplyPlaces, ReplyInv, BuffersInv, BuffersTypeOK, TaskType
<1>3. task' \in TaskType /\ task'.job = "reply" /\ task'.at = "message" /\ task'.res = task.now + task.res
  <2>1. task.now + task.res \in Nat
    BY <1>2
  <2> QED BY <1>1, <1>2, <2>1 DEF TaskType, ReplyPlaces
<1>4. dstv \in DestType /\ dstv.holds \in Seq(Int) /\ pipe \in Seq(Int)
  BY DEF BuffersInv, BuffersTypeOK, DestType
<1>5. Len(pipe) = 1 + task.now /\ (\A i \in 1..(1 + task.now) : pipe[i] = i - 1)
      /\ task.now + task.res <= Len(dstv.holds) /\ Len(dstv.holds) \in Nat
      /\ \A i \in 1..(task.now + task.res) : i > task.now => dstv.holds[i] = i
  BY <1>2, <1>4 DEF Extra, InPipe, Holds
<1>6. /\ holds \in Seq(Int) /\ Len(holds) = Len(dstv.holds)
      /\ \A i \in 1..Len(dstv.holds) : holds[i] = IF i <= task.now THEN pipe[i + 1] ELSE dstv.holds[i]
  <2>1. DOMAIN dstv.holds = 1..Len(dstv.holds) /\ \A i \in 1..Len(dstv.holds) : dstv.holds[i] \in Int
    BY <1>4
  <2>2. \A i \in 1..Len(dstv.holds) : i <= task.now => i + 1 \in 1..(1 + task.now)
    BY <1>2, <1>5
  <2>3. \A i \in 1..Len(dstv.holds) : i <= task.now => pipe[i + 1] \in Int
    BY <1>2, <1>5, <2>2
  <2> QED BY <1>5, <2>1, <2>3
<1>7. \A i \in 1..(task.now + task.res) : holds[i] = i
  <2>1. SUFFICES ASSUME NEW i \in 1..(task.now + task.res) PROVE holds[i] = i
    OBVIOUS
  <2>2. i \in 1..Len(dstv.holds) /\ i \in Int
    BY <1>2, <1>5
  <2>3. CASE i <= task.now
    <3>1. i + 1 \in 1..(1 + task.now) /\ (i + 1) - 1 = i
      BY <2>2, <2>3, <1>2
    <3>2. pipe[i + 1] = (i + 1) - 1
      BY <3>1, <1>5
    <3> QED BY <3>1, <3>2, <2>2, <2>3, <1>6
  <2>4. CASE ~(i <= task.now)
    <3>1. i > task.now
      BY <2>2, <2>4, <1>2
    <3> QED BY <3>1, <2>2, <2>4, <1>5, <1>6
  <2> QED BY <2>3, <2>4
<1> HIDE DEF holds
<1>8. dstv' \in DestType /\ dstv'.holds = holds
  BY <1>1, <1>4, <1>6 DEF DestType
<1>9. pipe' = <<>> /\ pipe' \in Seq(Int)
  <2>1. task.now + 2 > Len(pipe)
    BY <1>2, <1>5
  <2> QED BY <2>1, <1>1, <1>2, <1>4, <1>5, SubSeqProperties
<1>10. InMessage'
  BY <1>3, <1>5, <1>6, <1>7, <1>8, <1>9 DEF InMessage, Holds
<1>11. ReplyInv'
  BY <1>1, <1>2, <1>3, <1>10 DEF ReplyInv, ReplyPlaces
<1> QED BY <1>1, <1>2, <1>3, <1>8, <1>9, <1>11, PlacesInv DEF ReplyPlaces

LEMMA FallbackMemoryInv == BuffersInv /\ FallbackMemory => BuffersInv'
<1> SUFFICES ASSUME BuffersInv, FallbackMemory PROVE BuffersInv'
  OBVIOUS
<1> DEFINE holds == [i \in 1..task.data |-> i]
<1>1. /\ task.at = "fallback" /\ dstv' = [Memory(task.data) EXCEPT !.holds = holds]
      /\ task' = [task EXCEPT !.at = "message", !.res = task.data, !.err = "ok"]
      /\ UNCHANGED <<srcv, one, pipe, device>>
  BY DEF FallbackMemory
<1>2. task.job = "reply" /\ ReplyInv /\ NotBegun /\ one = NoOne /\ task \in TaskType /\ task.data \in Nat
  BY <1>1, ReplyPlace DEF ReplyPlaces, ReplyInv, BuffersInv, BuffersTypeOK, TaskType
<1>3. task' \in TaskType /\ task'.job = "reply" /\ task'.at = "message" /\ task'.res = task.data
  BY <1>1, <1>2 DEF TaskType, ReplyPlaces
<1>4. holds \in Seq(Int) /\ Len(holds) = task.data /\ \A i \in 1..task.data : holds[i] = i
  BY <1>2
<1> HIDE DEF holds
<1>5. dstv' \in DestType /\ dstv'.holds = holds
  <2>1. Memory(task.data) \in DestType
    BY <1>2, NewMemory
  <2> QED BY <2>1, <1>1, <1>4 DEF DestType
<1>6. InMessage'
  BY <1>1, <1>2, <1>3, <1>4, <1>5 DEF InMessage, Holds, NotBegun
<1>7. ReplyInv'
  BY <1>1, <1>2, <1>3, <1>6 DEF ReplyInv, ReplyPlaces
<1> QED BY <1>1, <1>2, <1>3, <1>5, <1>7, PlacesInv DEF ReplyPlaces, BuffersInv, BuffersTypeOK

LEMMA FallbackCopyInv == BuffersInv /\ FallbackCopy => BuffersInv'
<1> SUFFICES ASSUME BuffersInv, FallbackCopy PROVE BuffersInv'
  OBVIOUS
<1>1. /\ task.at = "fallback" /\ dstv' = Memory(task.data)
      /\ task' = [task EXCEPT !.at = "copy", !.then = "message", !.res = 0, !.err = "ok"]
      /\ UNCHANGED <<srcv, one, pipe, device>>
  BY DEF FallbackCopy, CopyTo
<1>2. task.job = "reply" /\ ReplyInv /\ NotBegun /\ one = NoOne /\ task \in TaskType /\ task.data \in Nat
  BY <1>1, ReplyPlace DEF ReplyPlaces, ReplyInv, BuffersInv, BuffersTypeOK, TaskType
<1>3. /\ task' \in TaskType /\ task'.job = "reply" /\ task'.at = "copy" /\ task'.then = "message"
      /\ task'.data = task.data /\ task'.now = task.now /\ task'.res = 0 /\ task'.err = "ok"
  BY <1>1, <1>2 DEF TaskType, ReplyCopies
<1>4. Whole /\ Consumed = 0 /\ task.now = 0 /\ pipe = <<>> /\ pipe' = <<>>
  BY <1>1, <1>2 DEF NotBegun
<1>5. /\ dstv' \in DestType /\ dstv'.kind = "mem" /\ dstv'.off = 0 /\ dstv'.size = task.data
      /\ Len(dstv'.holds) = task.data
  BY <1>1, <1>2, NewMemory
<1>6. task'.res + one'.copied = 0 /\ task'.now + task'.res = 0
  BY <1>1, <1>2, <1>3, <1>4 DEF NoOne
<1>7. Gets(task.then)'
  <2>1. Holds(0, task.res + one.copied)'
    BY <1>2, <1>5, <1>6 DEF Holds
  <2> QED BY <1>3, <1>4, <1>5, <2>1 DEF Gets
<1>8. DestInv' /\ pipe' \in Seq(Int)
  BY <1>2, <1>4, <1>5 DEF DestInv
<1> QED BY <1>1, <1>2, <1>3, <1>4, <1>5, <1>6, <1>7, <1>8, ReplyCopied DEF ReplyCopies

LEMMA SpliceOutInv == BuffersInv /\ SpliceOut => BuffersInv'
<1> SUFFICES ASSUME BuffersInv, SpliceOut PROVE BuffersInv'
  OBVIOUS
<1> DEFINE bytes == SubSeq(pipe, 2, 1 + task.now)
<1>1. task.at = "send" /\ pipe' = SubSeq(pipe, 2 + task.now, Len(pipe))
      /\ Ends([len |-> 1 + task.now, bytes |-> bytes])
  BY DEF SpliceOut
<1>2. InPipe(1 + task.now) /\ task.now \in Nat /\ pipe \in Seq(Int)
  BY <1>1, ReplyPlace DEF ReplyPlaces, ReplyInv, BuffersInv, BuffersTypeOK, TaskType
<1>3. Len(pipe) = 1 + task.now /\ \A i \in 1..(1 + task.now) : pipe[i] = i - 1
  BY <1>2 DEF InPipe
<1>4. pipe' = <<>>
  <2>1. 2 + task.now > Len(pipe)
    BY <1>2, <1>3
  <2> QED BY <2>1, <1>1, <1>2, <1>3, SubSeqProperties
<1>5. bytes \in Seq(Int) /\ Len(bytes) = task.now /\ \A i \in 1..task.now : bytes[i] = pipe[2 + i - 1]
  BY <1>2, <1>3, SubSeqProperties
<1> HIDE DEF bytes
<1>6. \A i \in 1..task.now : bytes[i] = i
  <2>1. ASSUME NEW i \in 1..task.now PROVE bytes[i] = i
    <3>1. 2 + i - 1 \in 1..(1 + task.now) /\ (2 + i - 1) - 1 = i
      BY <1>2
    <3> QED BY <3>1, <1>3, <1>5
  <2> QED BY <2>1
<1> QED BY <1>1, <1>2, <1>4, <1>5, <1>6, BytesInv

LEMMA SpliceOutFailsInv == BuffersInv /\ SpliceOutFails => BuffersInv'
<1> SUFFICES ASSUME BuffersInv, SpliceOutFails PROVE BuffersInv'
  OBVIOUS
<1>1. Ends(NoAnswer) /\ pipe' = <<>>
  BY DEF SpliceOutFails, ClearPipe
<1>2. NoAnswer \in [len : Nat, bytes : Seq(Int)] /\ NoAnswer.len = 0 /\ NoAnswer.bytes = <<>> /\ Len(<<>>) = 0
  BY DEF NoAnswer
<1> QED BY <1>1, <1>2, EndsInv

LEMMA SendMessageInv == BuffersInv /\ SendMessage => BuffersInv'
<1> SUFFICES ASSUME BuffersInv, SendMessage PROVE BuffersInv'
  OBVIOUS
<1>1. /\ task.at = "message" /\ pipe' = pipe
      /\ Ends(IF task.err # "ok" THEN Told ELSE [len |-> 1 + task.res, bytes |-> SubSeq(dstv.holds, 1, task.res)])
  BY DEF SendMessage
<1>2. InMessage /\ task.res \in Nat /\ BuffersTypeOK
  BY <1>1, ReplyPlace DEF ReplyPlaces, ReplyInv, BuffersInv, BuffersTypeOK, TaskType
<1>3. pipe' = <<>> /\ Holds(0, task.res)
  BY <1>1, <1>2 DEF InMessage
<1>4. CASE task.err # "ok"
  BY <1>1, <1>3, <1>4, ToldInv
<1>5. CASE task.err = "ok"
  BY <1>1, <1>2, <1>3, <1>5, HeldInv
<1> QED BY <1>4, <1>5
-----------------------------------------------------------------------------
(***************************************************************************)
(* The steps of a request that is read with splice.                        *)
(***************************************************************************)
LEMMA RequestsInv ==
  ASSUME BuffersInv, task' \in TaskType, task'.job \in {"write", "other"}, task'.at = "copy", task'.err = "ok",
         RequestInv', SourceInv', srcv' \in SourceType, dstv' \in DestType, one' = NoOne, pipe' \in Seq(Int),
         device' = device \/ device' = NoAnswer
  PROVE  BuffersInv'
<1>1. one' \in OneType
  BY DEF NoOne, OneType
<1>2. AnswerExact' /\ device' \in [len : Nat, bytes : Seq(Int)]
  <2>1. NoAnswer \in [len : Nat, bytes : Seq(Int)] /\ NoAnswer.len = 0 /\ DOMAIN NoAnswer.bytes = {}
    BY DEF NoAnswer
  <2> QED BY <2>1 DEF AnswerExact, BuffersInv, BuffersTypeOK
<1> QED BY <1>1, <1>2 DEF BuffersInv, BuffersTypeOK

LEMMA PipeBufs == ASSUME NEW n \in Nat PROVE <<PipeBuf(n)>> \in Seq(BufType) /\ FromPipe(n) = Source(<<PipeBuf(n)>>)
<1>1. PipeBuf(n) \in BufType
  BY DEF PipeBuf, BufType
<1> QED BY <1>1 DEF FromPipe, PipeBuf

(***************************************************************************)
(* A copy from the pipe begins.                                            *)
(***************************************************************************)
LEMMA FromPipeBegins ==
  ASSUME BuffersInv, NEW n \in Nat, srcv' = FromPipe(n), one' = NoOne, task' \in TaskType,
         task'.at = "copy", task'.then \in {"small", "head", "written"}, task'.res = 0, n = PipeLength',
         pipe' \in Seq(Int), Len(pipe') = n, \A i \in 1..n : pipe'[i] = i - Skip',
         dstv' \in DestType, dstv'.off = 0, dstv'.kind # "pipe", Len(dstv'.holds) = dstv'.size,
         task'.then # "written" => dstv'.kind = "mem", task'.then = "small" => task'.data = 0
  PROVE  RequestInv' /\ SourceInv' /\ srcv' \in SourceType
<1>1. <<PipeBuf(n)>> \in Seq(BufType) /\ srcv' = Source(<<PipeBuf(n)>>) /\ Len(<<PipeBuf(n)>>) = 1
  BY PipeBufs
<1>2. /\ srcv' \in SourceType /\ SourceInv' /\ TakenAll' /\ Consumed' = 0 /\ srcv'.bufs = <<PipeBuf(n)>>
      /\ srcv'.idx = 1 /\ srcv'.off = 0 /\ \A i \in 1..1 : srcv'.own[i] = 0
  BY <1>1, SourceBegins
<1>3. one'.copied = 0 /\ one'.how = "none" /\ OneInv'
  BY DEF NoOne, OneInv, Loops, LoopCalls, Errors
<1>4. srcv'.own[1] = 0
  BY <1>2
<1>5. Skip' \in {0, 1} /\ Start' = 0
  BY DEF Skip, Start
<1>6. Left'
  <2>1. \A i \in 1..Len(pipe') : pipe'[i] = srcv'.own[1] + i - Skip'
    <3>1. ASSUME NEW i \in 1..n PROVE pipe'[i] = 0 + i - Skip'
      BY <1>5
    <3> QED BY <3>1, <1>4
  <2> QED BY <2>1, <1>4 DEF Left
<1>7. dstv'.size \in Nat /\ Len(dstv'.holds) \in Nat
  BY DEF DestType
<1>8. RequestCopy'
  <2>1. task'.res + one'.copied = 0
    BY <1>3
  <2>2. Holds(0, task.res + one.copied)'
    BY <1>7, <2>1 DEF Holds
  <2> QED BY <1>3, <1>7, <2>2 DEF RequestCopy, DestInv
<1>9. srcv'.bufs = <<PipeBuf(PipeLength)>>'
  BY <1>2
<1>10. Consumed' = task'.res + Start'
  BY <1>2, <1>5
<1>11. srcv'.own[1] >= srcv'.off + one'.copied
  BY <1>2, <1>3, <1>4
<1> QED BY <1>2, <1>6, <1>8, <1>9, <1>10, <1>11 DEF RequestInv, RequestPlaces

LEMMA ReceiveBufInv ==
  ASSUME NEW what \in {"write", "other"}, NEW k \in Sizes, BuffersInv, ReceiveBuf(what, k) PROVE BuffersInv'
<1> DEFINE bytes == [i \in 1..(k + 1) |-> IF i = 1 THEN Header ELSE i - 1]
           room == IF k = 0 THEN k + 2 ELSE 1
           then == IF k = 0 THEN "small" ELSE "head"
<1>1. k \in Nat /\ room \in Nat
  BY BuffersAssumption DEF Sizes
<1>2. /\ task.at = "idle" /\ pipe' = pipe \o bytes /\ srcv' = FromPipe(k + 1) /\ dstv' = Memory(room)
      /\ task' = [job |-> what, at |-> "copy", then |-> then, data |-> k, res |-> 0, err |-> "ok", now |-> 0]
      /\ device' = NoAnswer /\ one' = one
  BY DEF ReceiveBuf, NoWork
<1>3. pipe = <<>> /\ one' = NoOne
  BY <1>2 DEF BuffersInv
<1>4. bytes \in Seq(Int) /\ Len(bytes) = k + 1 /\ \A i \in 1..(k + 1) : bytes[i] = i - 1
  BY <1>1 DEF Header
<1>5. pipe' = bytes
  BY <1>2, <1>3, <1>4
<1>6. task' \in TaskType
  BY <1>1, <1>2 DEF TaskType, RequestPlaces
<1>7. Skip' = 1 /\ PipeLength' = k + 1
  BY <1>2 DEF Skip, PipeLength
<1>8. dstv' \in DestType /\ dstv'.kind = "mem" /\ dstv'.off = 0 /\ Len(dstv'.holds) = dstv'.size
  <2> HIDE DEF room
  <2> QED BY <1>1, <1>2, NewMemory
<1>9. RequestInv' /\ SourceInv' /\ srcv' \in SourceType
  <2>1. k + 1 \in Nat
    BY <1>1
  <2>2. task'.at = "copy" /\ task'.then \in {"small", "head"} /\ task'.res = 0 /\ (task'.then = "small" => task'.data = 0)
    BY <1>2
  <2> HIDE DEF bytes
  <2>3. pipe' \in Seq(Int) /\ Len(pipe') = k + 1 /\ \A i \in 1..(k + 1) : pipe'[i] = i - Skip'
    BY <1>4, <1>5, <1>7
  <2> QED BY <1>2, <1>3, <1>6, <1>7, <1>8, <2>1, <2>2, <2>3, FromPipeBegins
<1>10. task'.job \in {"write", "other"} /\ task'.err = "ok" /\ task'.at = "copy"
  BY <1>2
<1> QED BY <1>2, <1>3, <1>4, <1>5, <1>6, <1>8, <1>9, <1>10, RequestsInv

(***************************************************************************)
(* How much of the pipe has been read.                                     *)
(***************************************************************************)
LEMMA PipeRead ==
  ASSUME BuffersInv, RequestInv, one = NoOne, ~Lost
  PROVE  /\ srcv.own[1] = Consumed /\ Consumed = task.res + Start /\ Consumed <= PipeLength
         /\ Len(pipe) = PipeLength - Consumed /\ \A i \in 1..Len(pipe) : pipe[i] = Consumed + i - Skip
<1>1. /\ Len(srcv.bufs) = 1 /\ srcv.idx \in 1..2 /\ srcv.own[1] \in Nat
      /\ HasSource <=> srcv.idx = 1
      /\ srcv.idx = 1 => Consumed = srcv.off
      /\ srcv.idx = 2 => Consumed = PipeLength
      /\ srcv.off \in Nat
  BY RequestSource DEF BuffersInv
<1>2. srcv.own[1] = Consumed
  <2>1. CASE srcv.idx = 1
    <3>1. srcv.own[srcv.idx] = srcv.off + one.copied
      BY <2>1, <1>1 DEF RequestInv, TakenAll
    <3> QED BY <3>1, <2>1, <1>1 DEF NoOne
  <2>2. CASE srcv.idx = 2
    BY <2>2, <1>1 DEF RequestInv
  <2> QED BY <2>1, <2>2, <1>1
<1> QED BY <1>2 DEF RequestInv, Left

LEMMA PipeDrained ==
  ASSUME BuffersInv, RequestInv, one = NoOne, ~Lost, task.res + Start >= PipeLength
  PROVE  pipe = <<>>
<1>1. Consumed <= PipeLength /\ Len(pipe) = PipeLength - Consumed /\ Consumed = task.res + Start
  BY PipeRead
<1>2. PipeLength \in Nat /\ pipe \in Seq(Int) /\ task.res \in Nat /\ Start \in {0, 1} /\ Len(pipe) \in Nat
  BY RequestSource DEF BuffersInv
<1>3. Len(pipe) = 0
  BY <1>1, <1>2
<1> QED BY <1>2, <1>3

(***************************************************************************)
(* After the header the pipe has the data.                                 *)
(***************************************************************************)
LEMMA HeadRead ==
  ASSUME BuffersInv, task.at = "head", task.res = 1
  PROVE  /\ task.job \in {"write", "other"} /\ RequestInv /\ one = NoOne /\ task \in TaskType /\ task.data \in Nat
         /\ Consumed = 1 /\ srcv.own[1] = 1 /\ task.then = "head" /\ TakenAll /\ PipeLength = task.data + 1
         /\ pipe \in Seq(Int) /\ Len(pipe) = task.data /\ \A i \in 1..task.data : pipe[i] = i
<1>1. task.job \in {"write", "other"} /\ RequestInv /\ one = NoOne /\ task.then = "head"
  BY RequestPlace DEF RequestPlaces, BuffersInv
<1>2. task \in TaskType /\ task.data \in Nat /\ pipe \in Seq(Int)
  BY DEF BuffersInv, BuffersTypeOK, TaskType
<1>3. ~Lost /\ Start = 0 /\ Skip = 1 /\ PipeLength = task.data + 1
  BY <1>1 DEF Lost, Start, Skip, PipeLength
<1>4. /\ srcv.own[1] = Consumed /\ Consumed = task.res + Start
      /\ Len(pipe) = PipeLength - Consumed /\ \A i \in 1..Len(pipe) : pipe[i] = Consumed + i - Skip
  BY <1>1, <1>3, PipeRead
<1>5. Consumed = 1
  BY <1>3, <1>4
<1>6. Len(pipe) = task.data /\ \A i \in 1..task.data : pipe[i] = i
  BY <1>2, <1>3, <1>4, <1>5
<1>7. TakenAll
  BY <1>1, <1>3 DEF RequestInv
<1> QED BY <1>1, <1>2, <1>3, <1>4, <1>5, <1>6, <1>7

LEMMA CopyRestInv == BuffersInv /\ CopyRest => BuffersInv'
<1> SUFFICES ASSUME BuffersInv, CopyRest PROVE BuffersInv'
  OBVIOUS
<1>1. /\ task.at = "head" /\ task.res = 1 /\ dstv' = Memory(task.data)
      /\ task' = [task EXCEPT !.at = "copy", !.then = "rest", !.res = 0, !.err = "ok"]
      /\ UNCHANGED <<srcv, one, pipe, device>>
  BY DEF CopyRest, CopyTo
<1>2. /\ task.job \in {"write", "other"} /\ RequestInv /\ one = NoOne /\ task \in TaskType /\ task.data \in Nat
      /\ Consumed = 1 /\ task.then = "head" /\ TakenAll /\ PipeLength = task.data + 1 /\ pipe \in Seq(Int)
  BY <1>1, HeadRead
<1>3. /\ task' \in TaskType /\ task'.job = task.job /\ task'.at = "copy" /\ task'.then = "rest"
      /\ task'.data = task.data /\ task'.res = 0 /\ task'.err = "ok"
  BY <1>1, <1>2 DEF TaskType, RequestPlaces
<1>4. Skip = 1 /\ Skip' = 1 /\ Start' = 1 /\ PipeLength' = PipeLength
  BY <1>2, <1>3 DEF Skip, Start, PipeLength
<1>5. Left'
  BY <1>1, <1>2, <1>4 DEF RequestInv, Left
<1>6. TakenAll' /\ Consumed' = task'.res + Start'
  BY <1>1, <1>2, <1>3, <1>4 DEF TakenAll, HasSource, Consumed
<1>7. /\ dstv' \in DestType /\ dstv'.kind = "mem" /\ dstv'.off = 0 /\ dstv'.size = task.data
      /\ Len(dstv'.holds) = task.data
  BY <1>1, <1>2, NewMemory
<1>8. OneInv' /\ one'.copied = 0
  BY <1>1, <1>2 DEF NoOne, OneInv, Loops, LoopCalls, Errors
<1>9. RequestCopy'
  <2>1. task'.res + one'.copied = 0
    BY <1>3, <1>8
  <2>2. Holds(0, task.res + one.copied)'
    BY <1>2, <1>7, <2>1 DEF Holds
  <2> QED BY <1>2, <1>3, <1>7, <1>8, <2>2 DEF RequestCopy, DestInv
<1>10. srcv'.bufs = <<PipeBuf(PipeLength)>>' /\ (srcv'.idx = 1 => srcv'.own[1] >= srcv'.off + one'.copied)
       /\ (srcv'.idx = 2 => srcv'.own[1] = PipeLength')
  BY <1>1, <1>2, <1>4 DEF RequestInv
<1>11. RequestInv'
  BY <1>3, <1>5, <1>6, <1>9, <1>10 DEF RequestInv, RequestPlaces
<1>12. SourceInv' /\ srcv' \in SourceType
  BY <1>1 DEF BuffersInv, BuffersTypeOK, SourceInv, HasSource, Src
<1> QED BY <1>1, <1>2, <1>3, <1>7, <1>11, <1>12, RequestsInv

(***************************************************************************)
(* A write is given to the file system.                                    *)
(***************************************************************************)
LEMMA WriteBegins ==
  ASSUME BuffersInv, task.at = "head", task.res = 1, srcv' = FromPipe(task.data), CopyTo(dstv', "written"),
         dstv' \in DestType, dstv'.off = 0, dstv'.kind # "pipe", Len(dstv'.holds) = dstv'.size,
         UNCHANGED <<one, pipe, device>>
  PROVE  BuffersInv'
<1>1. task' = [task EXCEPT !.at = "copy", !.then = "written", !.res = 0, !.err = "ok"]
  BY DEF CopyTo
<1>2. /\ task.job \in {"write", "other"} /\ one = NoOne /\ task \in TaskType /\ task.data \in Nat
      /\ pipe \in Seq(Int) /\ Len(pipe) = task.data /\ \A i \in 1..task.data : pipe[i] = i
  BY HeadRead
<1>3. /\ task' \in TaskType /\ task'.job = task.job /\ task'.at = "copy" /\ task'.then = "written"
      /\ task'.data = task.data /\ task'.res = 0 /\ task'.err = "ok"
  BY <1>1, <1>2 DEF TaskType, RequestPlaces
<1>4. Skip' = 0 /\ PipeLength' = task.data
  BY <1>2, <1>3 DEF Skip, PipeLength
<1>5. \A i \in 1..task.data : pipe'[i] = i - Skip'
  BY <1>2, <1>4
<1>6. RequestInv' /\ SourceInv' /\ srcv' \in SourceType
  BY <1>2, <1>3, <1>4, <1>5, FromPipeBegins
<1> QED BY <1>2, <1>3, <1>6, RequestsInv

LEMMA DoWriteBufInv == ASSUME NEW retry \in BOOLEAN, NEW splice \in BOOLEAN, BuffersInv, DoWriteBuf(retry, splice)
                       PROVE  BuffersInv'
<1>1. /\ task.at = "head" /\ task.res = 1 /\ srcv' = FromPipe(task.data)
      /\ CopyTo(IntoFile(task.data, retry, splice), "written") /\ UNCHANGED <<one, pipe, device>>
  BY DEF DoWriteBuf
<1>2. dstv' = [Memory(task.data) EXCEPT !.kind = "file", !.retry = retry, !.splice = splice]
      /\ CopyTo(dstv', "written")
  BY <1>1 DEF CopyTo, IntoFile
<1>3. /\ Memory(task.data) \in DestType /\ Memory(task.data).size = task.data /\ Memory(task.data).off = 0
      /\ Len(Memory(task.data).holds) = task.data
  BY <1>1, HeadRead, NewMemory
<1>4. dstv' \in DestType /\ dstv'.off = 0 /\ dstv'.kind # "pipe" /\ Len(dstv'.holds) = dstv'.size
  BY <1>2, <1>3 DEF DestType
<1> QED BY <1>1, <1>2, <1>4, WriteBegins

LEMMA DoWriteInv == BuffersInv /\ DoWrite => BuffersInv'
<1> SUFFICES ASSUME BuffersInv, DoWrite PROVE BuffersInv'
  OBVIOUS
<1>1. /\ task.at = "head" /\ task.res = 1 /\ srcv' = FromPipe(task.data)
      /\ CopyTo(Memory(task.data), "written") /\ UNCHANGED <<one, pipe, device>>
  BY DEF DoWrite
<1>2. dstv' = Memory(task.data) /\ CopyTo(dstv', "written")
  BY <1>1 DEF CopyTo
<1>3. dstv' \in DestType /\ dstv'.off = 0 /\ dstv'.kind # "pipe" /\ Len(dstv'.holds) = dstv'.size
  BY <1>1, <1>2, HeadRead, NewMemory
<1> QED BY <1>1, <1>2, <1>3, WriteBegins

LEMMA SmallRequestInv == BuffersInv /\ SmallRequest => BuffersInv'
<1> SUFFICES ASSUME BuffersInv, SmallRequest PROVE BuffersInv'
  OBVIOUS
<1>1. task.at = "small"
  BY DEF SmallRequest
<1>2. RequestInv /\ task.then = "small" /\ one = NoOne /\ task.res \in Nat /\ task.data = 0
  BY <1>1, RequestPlace DEF RequestPlaces, RequestInv, BuffersInv, BuffersTypeOK, TaskType
<1>3. CASE task.err # "ok" \/ task.res < 1
  BY <1>3, ToldInv DEF SmallRequest, ClearPipe
<1>4. CASE ~(task.err # "ok" \/ task.res < 1)
  <2>1. Ends(Told) /\ pipe' = pipe
    BY <1>4 DEF SmallRequest, Told
  <2>2. ~Lost /\ Start = 0 /\ PipeLength = 1
    BY <1>1, <1>2 DEF Lost, Start, Skip, PipeLength
  <2>3. task.res + Start >= PipeLength
    BY <1>2, <1>4, <2>2
  <2>4. pipe = <<>>
    BY <1>2, <2>2, <2>3, PipeDrained
  <2> QED BY <2>1, <2>4, ToldInv
<1> QED BY <1>3, <1>4

LEMMA RestCopiedInv == BuffersInv /\ RestCopied => BuffersInv'
<1> SUFFICES ASSUME BuffersInv, RestCopied PROVE BuffersInv'
  OBVIOUS
<1>1. task.at = "rest"
  BY DEF RestCopied
<1>2. /\ RequestInv /\ task.then = "rest" /\ one = NoOne /\ task.res \in Nat /\ task.data \in Nat
      /\ Holds(0, task.res) /\ Len(dstv.holds) = task.data /\ dstv.holds \in Seq(Int)
  BY <1>1, RequestPlace DEF RequestPlaces, RequestInv, BuffersInv, BuffersTypeOK, TaskType, DestType
<1>3. CASE task.err # "ok" \/ task.res < task.data
  BY <1>3, ToldInv DEF RestCopied, ClearPipe
<1>4. CASE ~(task.err # "ok" \/ task.res < task.data)
  <2>1. Ends([len |-> 1 + task.data, bytes |-> dstv.holds]) /\ pipe' = pipe
    BY <1>4 DEF RestCopied
  <2>2. ~Lost /\ Start = 1 /\ PipeLength = task.data + 1
    BY <1>1, <1>2 DEF Lost, Start, Skip, PipeLength
  <2>3. task.res + Start >= PipeLength
    BY <1>2, <1>4, <2>2
  <2>4. pipe = <<>>
    BY <1>2, <2>2, <2>3, PipeDrained
  <2>5. \A i \in 1..task.data : dstv.holds[i] = i
    BY <1>2, <1>4 DEF Holds
  <2> QED BY <1>2, <2>1, <2>4, <2>5, BytesInv
<1> QED BY <1>3, <1>4

LEMMA WrittenInv == ASSUME NEW n, BuffersInv, Written(n) PROVE BuffersInv'
<1>1. /\ task.at = "written" /\ n \in 0..task.res
      /\ pipe' = IF Cleared THEN <<>> ELSE pipe
      /\ Ends(IF task.err # "ok" THEN Told ELSE [len |-> 1 + n, bytes |-> SubSeq(dstv.holds, 1, n)])
  BY DEF Written, ClearPipe
<1>2. RequestInv /\ task.then = "written" /\ task.res \in Nat /\ Holds(0, task.res) /\ BuffersTypeOK /\ SourceInv
      /\ dstv.holds \in Seq(Int)
  BY <1>1, RequestPlace DEF RequestPlaces, RequestInv, BuffersInv, BuffersTypeOK, TaskType, DestType
<1>3. pipe' = <<>>
  <2>1. CASE Cleared
    BY <2>1, <1>1
  <2>2. CASE ~Cleared
    <3>1. srcv.idx = 2
      <4>1. (HasSource <=> srcv.idx = 1) /\ srcv.idx \in 1..2
        BY <1>2, RequestSource
      <4> QED BY <4>1, <2>2 DEF Cleared, HasSource
    <3>2. srcv.own[1] = PipeLength /\ Len(pipe) = PipeLength - srcv.own[1]
      BY <3>1, <1>2 DEF RequestInv, Left
    <3>3. PipeLength \in Nat /\ pipe \in Seq(Int)
      BY <1>2, RequestSource
    <3>4. Len(pipe) = 0
      BY <3>2, <3>3
    <3>5. pipe = <<>>
      BY <3>3, <3>4
    <3> QED BY <3>5, <2>2, <1>1
  <2> QED BY <2>1, <2>2
<1>4. n \in Nat /\ Holds(0, n)
  <2>1. Len(dstv.holds) \in Nat
    BY <1>2
  <2> QED BY <1>1, <1>2, <2>1 DEF Holds
<1>5. CASE task.err # "ok"
  BY <1>1, <1>3, <1>5, ToldInv
<1>6. CASE task.err = "ok"
  BY <1>1, <1>2, <1>3, <1>4, <1>6, HeldInv
<1> QED BY <1>5, <1>6
-----------------------------------------------------------------------------
(***************************************************************************)
(* The bytes of every answer, write and request are exact, whatever the    *)
(* buffers and however many they are, and wherever a call broke off.       *)
(***************************************************************************)
LEMMA BuffersBegin == BuffersInit => BuffersInv
<1> SUFFICES ASSUME BuffersInit PROVE BuffersInv
  OBVIOUS
<1>1. /\ task = NoWork /\ srcv = Source(<<>>) /\ dstv = Memory(0) /\ one = NoOne /\ pipe = <<>> /\ device = NoAnswer
  BY DEF BuffersInit
<1>2. /\ srcv \in SourceType /\ srcv.bufs = <<>> /\ srcv.idx = 1 /\ srcv.off = 0 /\ Len(srcv.own) = 0
      /\ Len(<<>>) = 0
  <2>1. <<>> \in Seq(BufType) /\ Len(<<>>) = 0
    OBVIOUS
  <2> QED BY <2>1, <1>1, NewSource
<1>3. SourceInv
  BY <1>2 DEF SourceInv, HasSource
<1>4. BuffersTypeOK
  <2>1. dstv \in DestType
    BY <1>1, NewMemory
  <2>2. task \in TaskType /\ one \in OneType
    BY <1>1 DEF NoWork, TaskType, NoOne, OneType
  <2>3. pipe \in Seq(Int) /\ device \in [len : Nat, bytes : Seq(Int)]
    BY <1>1 DEF NoAnswer
  <2> QED BY <1>2, <2>1, <2>2, <2>3 DEF BuffersTypeOK
<1>5. AnswerExact
  BY <1>1 DEF AnswerExact, NoAnswer
<1> QED BY <1>1, <1>3, <1>4, <1>5 DEF BuffersInv, NoWork

LEMMA BuffersSteps == BuffersInv /\ [BuffersNext]_buffervars => BuffersInv'
<1> SUFFICES ASSUME BuffersInv, [BuffersNext]_buffervars PROVE BuffersInv'
  OBVIOUS
<1>1. CASE UNCHANGED buffervars
  <2>1. UNCHANGED <<task, srcv, dstv, one, pipe, device>>
    BY <1>1 DEF buffervars
  <2>2. BuffersTypeOK' /\ SourceInv' /\ AnswerExact'
    BY <2>1 DEF BuffersInv, BuffersTypeOK, SourceInv, HasSource, Src, AnswerExact
  <2>3. TakenAll' = TakenAll /\ Consumed' = Consumed /\ OneInv' = OneInv /\ DestInv' = DestInv
    BY <2>1 DEF TakenAll, HasSource, Consumed, OneInv, DestInv, Src
  <2>4. Whole' = Whole
    BY <2>1, <2>3 DEF Whole
  <2>5. NotBegun' = NotBegun /\ Spliced' = Spliced
    BY <2>1, <2>3, <2>4 DEF NotBegun, Spliced, InPipe
  <2>6. Extra' = Extra /\ InMessage' = InMessage /\ InPipe(1 + task.now)' = InPipe(1 + task.now)
    BY <2>1 DEF Extra, InMessage, InPipe, Holds
  <2>7. Gets(task.then)' = Gets(task.then)
    BY <2>1 DEF Gets, InPipe, Holds
  <2>8. ReplyCopy' = ReplyCopy
    BY <2>1, <2>3, <2>4, <2>7 DEF ReplyCopy
  <2>9. ReplyInv' = ReplyInv
    BY <2>1, <2>5, <2>6, <2>8 DEF ReplyInv
  <2>10. PipeLength' = PipeLength /\ Skip' = Skip /\ Start' = Start /\ Lost' = Lost
    BY <2>1 DEF PipeLength, Skip, Start, Lost
  <2>11. Left' = Left /\ RequestCopy' = RequestCopy
    BY <2>1, <2>3, <2>10 DEF Left, RequestCopy, Holds
  <2>12. RequestInv' = RequestInv
    BY <2>1, <2>3, <2>10, <2>11 DEF RequestInv, Holds
  <2> QED BY <2>1, <2>2, <2>9, <2>12 DEF BuffersInv
<1>2. CASE SpliceFails \/ Refused \/ NoMemory
  BY <1>2, ToldInv DEF SpliceFails, Refused, NoMemory, ClearPipe
<1>3. CASE CopyNext \/ CopyEnds \/ OneReturns \/ OneFails \/ CopyMemory \/ TransfersNone
  BY <1>3, CopyNextInv, CopyEndsInv, OneReturnsInv, OneFailsInv, CopyMemoryInv, TransfersNoneInv
<1>4. CASE \E n \in Sizes : Transfer(n) \/ FdToFdFails(n) \/ Written(n) \/ (\E m \in 0..n : FdToFd(n, m))
  BY <1>4, TransferInv, FdToFdFailsInv, WrittenInv, FdToFdInv
<1>5. CASE \E err \in Errors : TransferFails(err)
  BY <1>5, TransferFailsInv
<1>6. CASE \E bufs \in Replies : ReplyData(bufs)
  BY <1>6, ReplyDataInv
<1>7. CASE SendFallback \/ VmSplice \/ SpliceCannot \/ SplicedShort \/ SplicedWell
  BY <1>7, SendFallbackInv, VmSpliceInv, SpliceCannotInv, SplicedShortInv, SplicedWellInv
<1>8. CASE NoExtra \/ ReadBack \/ SpliceOut \/ SpliceOutFails \/ FallbackMemory \/ FallbackCopy \/ SendMessage
  BY <1>8, NoExtraInv, ReadBackInv, SpliceOutInv, SpliceOutFailsInv, FallbackMemoryInv, FallbackCopyInv,
     SendMessageInv
<1>9. CASE \E what \in {"write", "other"}, k \in Sizes : ReceiveBuf(what, k)
  BY <1>9, ReceiveBufInv
<1>10. CASE SmallRequest \/ CopyRest \/ RestCopied \/ DoWrite
  BY <1>10, SmallRequestInv, CopyRestInv, RestCopiedInv, DoWriteInv
<1>11. CASE \E retry, splice \in BOOLEAN : DoWriteBuf(retry, splice)
  BY <1>11, DoWriteBufInv
<1> QED BY <1>1, <1>2, <1>3, <1>4, <1>5, <1>6, <1>7, <1>8, <1>9, <1>10, <1>11 DEF BuffersNext

THEOREM BytesAreExact == BuffersSpec => []BytesExact
<1>1. BuffersInv => BytesExact
  BY DEF BuffersInv, BytesExact, PipeEmpty
<1> QED BY <1>1, BuffersBegin, BuffersSteps, PTL DEF BuffersSpec
=============================================================================
