----------------------------- MODULE FuseOpsProofs -----------------------------
(***************************************************************************)
(* Proofs about the handlers, for all file systems and any number of open  *)
(* files.                                                                  *)
(***************************************************************************)
EXTENDS FuseOpsProps, TLAPS

Opening == {"open", "opendir", "create"}
Closing == {"release", "releasedir"}

(***************************************************************************)
(* Which requests are about something new, and what the ones that close    *)
(* are about.                                                              *)
(***************************************************************************)
OnlyThese(ops) ==
  \A op \in DOMAIN ops : /\ ops[op].on = "new" <=> op \in Opening
                         /\ op = "release" => ops[op].on = "file"
                         /\ op = "releasedir" => ops[op].on = "dir"

LEMMA JoinedOnlyThese ==
  ASSUME NEW f, NEW g, OnlyThese(f), OnlyThese(g)
  PROVE  OnlyThese(Joined(f, g))
BY DEF OnlyThese, Joined

LEMMA NewOnes == OnlyThese(Opcodes)
<1>1. OnlyThese(NodeOps)
  BY DEF OnlyThese, NodeOps, About, Opening
<1>2. OnlyThese(NameOps)
  <2>1. DOMAIN NameOps = {"mkdir", "unlink", "rmdir", "symlink", "rename", "link", "create"}
    BY DEF NameOps
  <2>2. NameOps.create.on = "new"
    BY DEF NameOps, About
  <2>3. /\ NameOps.mkdir.on # "new" /\ NameOps.unlink.on # "new" /\ NameOps.rmdir.on # "new"
        /\ NameOps.symlink.on # "new" /\ NameOps.rename.on # "new" /\ NameOps.link.on # "new"
    BY DEF NameOps, About
  <2> QED
    BY <2>1, <2>2, <2>3 DEF OnlyThese, Opening
<1>3. OnlyThese(FileOps)
  BY DEF OnlyThese, FileOps, About, Opening
<1>4. OnlyThese(DirOps)
  BY DEF OnlyThese, DirOps, About, Opening
<1>5. OnlyThese(TreeOps)
  BY DEF OnlyThese, TreeOps, About, Opening
<1>6. OnlyThese(LockOps)
  BY DEF OnlyThese, LockOps, About, Opening
<1>7. OnlyThese(DeviceOps)
  BY DEF OnlyThese, DeviceOps, About, Opening
<1> QED
  BY <1>1, <1>2, <1>3, <1>4, <1>5, <1>6, <1>7, JoinedOnlyThese DEF Opcodes
-----------------------------------------------------------------------------
(***************************************************************************)
(* The inductive invariant: what is open at each place a request can be.   *)
(***************************************************************************)
Nodes == [at : {"none", "open"}, dir : BOOLEAN, named : BOOLEAN, hidden : BOOLEAN]
Places == {"idle", "sent", "path", "call", "reply", "answered"}

OpsTypeOK ==
  /\ DOMAIN conn = {"minor", "agreed", "got_init", "got_destroy"} /\ conn.got_init \in BOOLEAN
  /\ opened \in [OpenFiles -> Nodes]
  /\ held \in [OpenFiles \cup {0} -> Int]
  /\ DOMAIN current = DOMAIN IdleReq
  /\ current.at \in Places

Paired(h) == held[h] = IF opened[h].at = "open" THEN 1 ELSE 0
AllPaired == held[0] = 0 /\ \A h \in OpenFiles : Paired(h)
OthersPaired(r) == \A h \in OpenFiles : h # r.node => Paired(h)
IsNew(r) == opened[r.node].at = "none"
IsOpen(r) == opened[r.node].at = "open"

(* A request that is known, and why it was sent.                           *)
Sent(r) ==
  /\ r.op \in DOMAIN Opcodes /\ r.node \in OpenFiles
  /\ r.op \in Opening => IsNew(r)
  /\ r.op \in Closing => IsOpen(r)

(* The calls of requests that neither open nor close.                      *)
QuietCalls == (DOMAIN Opcodes \cup {"getattr", "fgetattr", "chmod", "chown", "truncate", "ftruncate", "utimens", "lock",
                                    "unlink", "rename", "flush", "mkdir", "symlink", "link"})
              \ (Opening \cup Closing)
Quiet(plan) == plan \in Seq(QuietCalls)

(* A file that mknod makes with create is open until it calls release.     *)
MknodClosed == {<<"create">>, <<"mknod", "getattr">>, <<"getattr">>}
MknodOpen == {<<"fgetattr", "release">>, <<"release">>}
Mknod(r) ==
  /\ Paired(r.node)
  /\ \/ r.plan \in MknodClosed /\ held[0] = 0
     \/ r.plan \in MknodOpen /\ held[0] = 1

Opens(r) ==
  \/ r.plan = <<r.op>> /\ r.answer # "lost" /\ held[r.node] = 0
  \/ r.plan = <<"fgetattr">> /\ r.op = "create" /\ r.answer # "lost" /\ held[r.node] = 1
  \/ r.plan = <<"release">> /\ r.op = "create" /\ r.answer # "lost" /\ r.err # "ok" /\ held[r.node] = 1
  \/ r.plan = <<IF r.op = "opendir" THEN "releasedir" ELSE "release">> /\ r.answer = "lost" /\ held[r.node] = 1

Releases(r) ==
  \/ r.plan \in {<<"flush", "lock", "release">>, <<"lock", "release">>, <<"release">>} /\ held[r.node] = 1
  \/ r.plan = <<"unlink">> /\ held[r.node] = 0

InCall(r) ==
  /\ conn.got_init /\ Sent(r) /\ OthersPaired(r)
  /\ r.answer = "lost" => r.op \in Opening
  /\ r.op = "mknod" => Mknod(r)
  /\ r.op # "mknod" => held[0] = 0
  /\ r.op \in Opening => Opens(r)
  /\ r.op = "release" => Releases(r)
  /\ r.op = "releasedir" => r.plan = <<"releasedir">> /\ held[r.node] = 1
  /\ r.op \notin Opening \cup Closing \cup {"mknod"} => Paired(r.node) /\ Quiet(r.plan) /\ r.plan # <<>>

InReply(r) ==
  /\ Sent(r) /\ OthersPaired(r) /\ held[0] = 0
  /\ r.err = "ok" => conn.got_init
  /\ r.op \in Opening => held[r.node] = IF r.err = "ok" THEN 1 ELSE 0
  /\ r.op \in Closing => held[r.node] = 0
  /\ r.op \notin Opening \cup Closing => Paired(r.node)

Before(r) ==
  /\ Sent(r) /\ AllPaired /\ r.answer = "none"
  /\ r.op \in Closing => r.other = FALSE
  /\ r.at = "path" => conn.got_init

HandlesInv ==
  /\ OpsTypeOK
  /\ \A h \in OpenFiles : opened[h].at = "open" => conn.got_init
  /\ current.at \in {"idle", "answered"} => AllPaired
  /\ current.at \in {"sent", "path"} => Before(current)
  /\ current.at = "call" => InCall(current)
  /\ current.at = "reply" => InReply(current)
-----------------------------------------------------------------------------
LEMMA InitHandles == OpsInit => HandlesInv
<1> SUFFICES ASSUME OpsInit PROVE HandlesInv
  OBVIOUS
<1>1. OpsTypeOK
  BY DEF OpsInit, OpsTypeOK, IdleReq, Nodes, Unopened, Places
<1>2. AllPaired /\ \A h \in OpenFiles : opened[h].at # "open"
  BY FuseOpsAssumption DEF OpsInit, AllPaired, Paired, Unopened
<1>3. current.at = "idle"
  BY DEF OpsInit, IdleReq
<1> QED
  BY <1>1, <1>2, <1>3 DEF HandlesInv

(***************************************************************************)
(* INIT and DESTROY leave open what is open; INIT is before all of it.     *)
(***************************************************************************)
LEMMA ConnectionSteps ==
  ASSUME HandlesInv, UNCHANGED <<opened, held, current>>, OpsTypeOK', conn.got_init => conn'.got_init
  PROVE  HandlesInv'
<1>1. current.at = current'.at
  OBVIOUS
<1>2. AllPaired => AllPaired'
  BY DEF AllPaired, Paired
<1>3. \A h \in OpenFiles : opened'[h].at = "open" => conn'.got_init
  BY DEF HandlesInv
<1>4. Before(current) => Before(current)'
  BY <1>2 DEF Before, Sent, IsNew, IsOpen
<1>5. InCall(current) => InCall(current)'
  BY DEF InCall, Sent, IsNew, IsOpen, OthersPaired, Paired, Mknod, Opens, Releases
<1>6. InReply(current) => InReply(current)'
  BY DEF InReply, Sent, IsNew, IsOpen, OthersPaired, Paired
<1> QED
  BY <1>1, <1>2, <1>3, <1>4, <1>5, <1>6 DEF HandlesInv

LEMMA InitKeeps ==
  ASSUME HandlesInv, NEW major, NEW minor, DoInit(major, minor)
  PROVE  HandlesInv'
<1>1. OpsTypeOK' /\ (conn.got_init => conn'.got_init)
  BY DEF HandlesInv, OpsTypeOK, DoInit
<1> QED
  BY <1>1, ConnectionSteps DEF DoInit

LEMMA DestroyKeeps ==
  ASSUME HandlesInv, DoDestroy
  PROVE  HandlesInv'
<1>1. OpsTypeOK' /\ (conn.got_init => conn'.got_init)
  BY DEF HandlesInv, OpsTypeOK, DoDestroy
<1> QED
  BY <1>1, ConnectionSteps DEF DoDestroy

(***************************************************************************)
(* A request that is sent fits what is open.                               *)
(***************************************************************************)
LEMMA SendKeeps ==
  ASSUME HandlesInv, NEW op \in DOMAIN Opcodes, NEW h \in OpenFiles, SendRequest(op, h)
  PROVE  HandlesInv'
<1>1. PICK fi \in MayUseHandle(op, opened[h]), bits \in MaySet(op), other \in BOOLEAN :
        /\ other => op \in {"getattr", "read"}
        /\ current' = [IdleReq EXCEPT !.at = "sent", !.op = op, !.node = h, !.fi = fi,
                                      !.bits = bits, !.other = other]
  BY DEF SendRequest
<1>2. /\ DOMAIN current' = DOMAIN IdleReq
      /\ current'.at = "sent" /\ current'.op = op /\ current'.node = h
      /\ current'.other = other /\ current'.answer = "none"
  BY <1>1 DEF IdleReq
<1>3. AllPaired' /\ UNCHANGED <<conn, opened, held>>
  BY DEF SendRequest, HandlesInv, AllPaired, Paired
<1>4. OpsTypeOK'
  BY <1>2, <1>3 DEF HandlesInv, OpsTypeOK, Places
<1>5. op \in Opening => opened[h].at = "none"
  BY NewOnes DEF SendRequest, OnlyThese, On, Fits
<1>6. op \in Closing => opened[h].at = "open"
  BY NewOnes DEF SendRequest, OnlyThese, On, Fits, Closing
<1>7. op \in Closing => other = FALSE
  BY <1>1 DEF Closing
<1>8. Before(current)'
  BY <1>2, <1>3, <1>5, <1>6, <1>7 DEF Before, Sent, IsNew, IsOpen
<1> QED
  BY <1>2, <1>3, <1>4, <1>8 DEF HandlesInv

(***************************************************************************)
(* Nothing is refused that closes a file.                                  *)
(***************************************************************************)
LEMMA DispatchKeeps ==
  ASSUME HandlesInv, Dispatch
  PROVE  HandlesInv'
<1> DEFINE err == Refusal(current)
<1>1. Before(current) /\ OpsTypeOK
  BY DEF Dispatch, HandlesInv
<1>2. current.op \in Closing => err = "ok"
  <2>1. current.op \in Closing => conn.got_init
    BY <1>1 DEF Before, Sent, IsOpen, HandlesInv
  <2>2. current.op \in Closing => current.other = FALSE /\ current.op \notin {"getlk", "setlk", "ioctl"}
    BY <1>1 DEF Before, Closing
  <2> QED
    BY <2>1, <2>2 DEF Refusal
<1>3. err = "ok" => conn.got_init
  BY DEF Refusal
<1> HIDE DEF err
<1>4. /\ DOMAIN current' = DOMAIN IdleReq
      /\ current'.at = IF err = "ok" THEN "path" ELSE "reply"
      /\ current'.err = err
      /\ current'.op = current.op /\ current'.node = current.node
      /\ current'.other = current.other /\ current'.answer = current.answer
  BY <1>1 DEF Dispatch, err, OpsTypeOK, IdleReq
<1>5. UNCHANGED <<conn, opened, held>>
  BY DEF Dispatch
<1>6. OpsTypeOK'
  BY <1>1, <1>4, <1>5 DEF OpsTypeOK, Places
<1>7. CASE err = "ok"
  <2>1. Before(current)'
    BY <1>1, <1>3, <1>4, <1>5, <1>7 DEF Before, Sent, IsNew, IsOpen, AllPaired, Paired
  <2> QED
    BY <1>4, <1>5, <1>6, <1>7, <2>1 DEF HandlesInv
<1>8. CASE err # "ok"
  <2>1. InReply(current)'
    <3>1. Sent(current)' /\ OthersPaired(current)' /\ held'[0] = 0 /\ Paired(current.node)' /\ current.node \in OpenFiles
      BY <1>1, <1>4, <1>5 DEF Before, Sent, IsNew, IsOpen, AllPaired, Paired, OthersPaired
    <3>2. current.op \notin Closing
      BY <1>2, <1>8
    <3>3. current.op \in Opening => held'[current.node] = 0
      BY <1>1, <1>5 DEF Before, Sent, IsNew, AllPaired, Paired
    <3> QED
      BY <1>4, <1>8, <3>1, <3>2, <3>3 DEF InReply
  <2> QED
    BY <1>4, <1>5, <1>6, <1>8, <2>1 DEF HandlesInv
<1> QED
  BY <1>7, <1>8
-----------------------------------------------------------------------------
(***************************************************************************)
(* What each handler is to call.                                           *)
(***************************************************************************)
LEMMA QuietOne ==
  ASSUME NEW call \in QuietCalls
  PROVE  Quiet(<<call>>)
BY DEF Quiet

LEMMA QuietTogether ==
  ASSUME NEW p, NEW q, Quiet(p), Quiet(q)
  PROVE  /\ Quiet(p \o q)
         /\ q # <<>> => p \o q # <<>>
<1> DEFINE S == QuietCalls
<1>1. p \in Seq(S) /\ q \in Seq(S)
  BY DEF Quiet
<1> HIDE DEF S
<1>2. p \o q \in Seq(S) /\ Len(p \o q) = Len(p) + Len(q)
  BY <1>1
<1>3. q # <<>> => Len(q) > 0
  BY <1>1
<1>4. Len(p) \in Nat /\ Len(q) \in Nat
  BY <1>1
<1>5. q # <<>> => p \o q # <<>>
  BY <1>2, <1>3, <1>4
<1> QED
  BY <1>2, <1>5 DEF Quiet, S

LEMMA QuietCalling ==
  ASSUME NEW cond, NEW call \in QuietCalls
  PROVE  Quiet(Calling(cond, call))
BY QuietOne DEF Calling, Quiet

LEMMA SetattrQuiet ==
  ASSUME NEW r
  PROVE  Quiet(SetattrPlan(r)) /\ SetattrPlan(r) # <<>>
<1>1. Quiet(Getattr(r)) /\ Getattr(r) # <<>>
  BY QuietOne DEF Getattr, QuietCalls, Opening, Closing
<1>2. \A c : /\ Quiet(Calling(c, "chmod")) /\ Quiet(Calling(c, "chown"))
             /\ Quiet(Calling(c, IF r.fi THEN "ftruncate" ELSE "truncate")) /\ Quiet(Calling(c, "utimens"))
  BY QuietCalling DEF QuietCalls, Opening, Closing
<1> DEFINE m == Calling("mode" \in r.bits, "chmod")
           o == Calling("owner" \in r.bits, "chown")
           z == Calling("size" \in r.bits, IF r.fi THEN "ftruncate" ELSE "truncate")
           t == Calling(SetsTimes(r), "utimens")
<1>3. Quiet(m) /\ Quiet(o) /\ Quiet(z) /\ Quiet(t)
  BY <1>2
<1>4. SetattrPlan(r) = m \o o \o z \o t \o Getattr(r)
  BY DEF SetattrPlan
<1> HIDE DEF m, o, z, t
<1>5. Quiet(m \o o)
  BY <1>3, QuietTogether
<1>6. Quiet(m \o o \o z)
  BY <1>3, <1>5, QuietTogether
<1>7. Quiet(m \o o \o z \o t)
  BY <1>3, <1>6, QuietTogether
<1> QED
  BY <1>1, <1>4, <1>7, QuietTogether

LEMMA Plans ==
  ASSUME NEW r, r.op \in DOMAIN Opcodes
  PROVE  /\ r.op \in Opening \cup {"releasedir"} => Plan(r) = <<r.op>>
         /\ r.op = "mknod" => Plan(r) = <<"create">>
         /\ r.op = "release" => Plan(r) \in {<<"flush", "lock", "release">>, <<"release">>}
         /\ r.op \notin Opening \cup Closing \cup {"mknod"} => Quiet(Plan(r)) /\ Plan(r) # <<>>
<1>1. r.op \in Opening \cup {"releasedir"} => Plan(r) = <<r.op>>
  BY DEF Plan, Opening
<1>2. r.op = "mknod" => Plan(r) = <<"create">>
  BY DEF Plan
<1>3. r.op = "release" => Plan(r) \in {<<"flush", "lock", "release">>, <<"release">>}
  <2>1. ReleasePlan(r) = <<"release">> \/ ReleasePlan(r) = <<"flush", "lock">> \o <<"release">>
    <3>1. <<>> \o <<"release">> = <<"release">>
      OBVIOUS
    <3> QED
      BY <3>1, Zenon DEF ReleasePlan, FlushPlan
  <2> QED
    BY <2>1 DEF Plan
<1>4. ASSUME r.op \notin Opening \cup Closing \cup {"mknod"}
      PROVE  Quiet(Plan(r)) /\ Plan(r) # <<>>
  <2>2. Quiet(<<r.op>>)
    BY <1>4, QuietOne DEF QuietCalls
  <2>3. \A c \in {"getattr", "fgetattr", "lock", "unlink", "rename", "flush", "mkdir", "symlink", "link"} : Quiet(<<c>>)
    BY QuietOne DEF QuietCalls, Opening, Closing
  <2>4. \A c \in {"mkdir", "symlink", "link"} : Quiet(<<c, "getattr">>)
    BY DEF Quiet, QuietCalls, Opening, Closing
  <2>5. Quiet(<<"flush", "lock">>)
    BY DEF Quiet, QuietCalls, Opening, Closing
  <2>6. Quiet(Getattr(r)) /\ Getattr(r) # <<>>
    BY <2>3 DEF Getattr
  <2>7. CASE r.op = "setattr"
    BY <2>7, SetattrQuiet DEF Plan
  <2>8. CASE r.op \in {"lookup", "getattr", "unlink", "flush", "getlk", "setlk"}
    BY <2>3, <2>5, <2>6, <2>8 DEF Plan, FlushPlan
  <2>9. CASE r.op \in {"mkdir", "symlink", "link"}
    BY <2>4, <2>9 DEF Plan
  <2>10. CASE r.op \notin {"setattr", "lookup", "getattr", "unlink", "flush", "getlk", "setlk", "mkdir", "symlink", "link"}
    <3>1. Plan(r) = <<r.op>>
      BY <1>4, <2>10 DEF Plan, Opening, Closing
    <3> QED
      BY <2>2, <3>1
  <2> QED
    BY <2>7, <2>8, <2>9, <2>10
<1> QED
  BY <1>1, <1>2, <1>3, <1>4

LEMMA TakePathKeeps ==
  ASSUME HandlesInv, TakePath
  PROVE  HandlesInv'
<1>1. PICK res \in PathResults(current) :
        LET goes == res[2] = "ok" \/ GoesOn(current)
        IN  current' = [current EXCEPT !.path = res[1], !.err = IF goes THEN "ok" ELSE res[2],
                                       !.plan = IF goes THEN Plan(current) ELSE <<>>,
                                       !.at = IF goes THEN "call" ELSE "reply"]
  BY DEF TakePath
<1>2. Before(current) /\ OpsTypeOK /\ conn.got_init
  BY DEF TakePath, HandlesInv, Before
<1>3. UNCHANGED <<conn, opened, held>>
  BY DEF TakePath
<1> DEFINE goes == res[2] = "ok" \/ GoesOn(current)
<1>4. /\ DOMAIN current' = DOMAIN IdleReq
      /\ current'.at = IF goes THEN "call" ELSE "reply"
      /\ current'.err = IF goes THEN "ok" ELSE res[2]
      /\ goes => current'.plan = Plan(current)
      /\ current'.op = current.op /\ current'.node = current.node /\ current'.answer = current.answer
  BY <1>1, <1>2 DEF OpsTypeOK, IdleReq
<1>5. OpsTypeOK'
  BY <1>2, <1>3, <1>4 DEF OpsTypeOK, Places
<1>6. Sent(current)' /\ OthersPaired(current)' /\ held'[0] = 0 /\ Paired(current.node)' /\ current.node \in OpenFiles
  BY <1>2, <1>3, <1>4 DEF Before, Sent, IsNew, IsOpen, AllPaired, Paired, OthersPaired
<1>7. /\ current.op \in Opening => held'[current.node] = 0
      /\ current.op \in Closing => held'[current.node] = 1
  BY <1>2, <1>3 DEF Before, Sent, IsNew, IsOpen, AllPaired, Paired
<1>8. CASE goes
  <2> DEFINE r == current'
  <2>1. r.plan = Plan(current) /\ r.op = current.op /\ r.answer = "none" /\ r.node = current.node
    BY <1>2, <1>4, <1>8 DEF Before
  <2>2. current.op \in DOMAIN Opcodes
    BY <1>2 DEF Before, Sent
  <2>3. r.op = "mknod" => Mknod(current)'
    BY <1>6, <2>1, <2>2, Plans DEF Mknod, MknodClosed
  <2>4. r.op \in Opening => Opens(current)'
    BY <1>7, <2>1, <2>2, Plans DEF Opens
  <2>5. r.op = "release" => Releases(current)'
    BY <1>7, <2>1, <2>2, Plans DEF Releases, Closing
  <2>6. r.op = "releasedir" => r.plan = <<"releasedir">> /\ held'[r.node] = 1
    BY <1>7, <2>1, <2>2, Plans DEF Closing
  <2>7. r.op \notin Opening \cup Closing \cup {"mknod"} => Quiet(r.plan) /\ r.plan # <<>>
    BY <2>1, <2>2, Plans
  <2>8. InCall(current)'
    BY <1>2, <1>3, <1>6, <2>1, <2>3, <2>4, <2>5, <2>6, <2>7 DEF InCall
  <2> QED
    BY <1>3, <1>4, <1>5, <1>8, <2>8 DEF HandlesInv
<1>9. CASE ~goes
  <2>1. current.op \notin Closing
    BY <1>9 DEF GoesOn, Closing
  <2>2. current'.err # "ok"
    BY <1>4, <1>9
  <2>3. InReply(current)'
    BY <1>2, <1>3, <1>4, <1>6, <1>7, <2>1, <2>2 DEF InReply
  <2> QED
    BY <1>3, <1>4, <1>5, <1>9, <2>3 DEF HandlesInv
<1> QED
  BY <1>8, <1>9
-----------------------------------------------------------------------------
(***************************************************************************)
(* A call, and what it changes for all requests.                           *)
(***************************************************************************)
TheCall == Head(current.plan)
CallMade(res) ==
  /\ current'.plan = Rest(current, TheCall, res) /\ current'.err = Error(current, TheCall, res)
  /\ current'.op = current.op /\ current'.node = current.node /\ current'.answer = current.answer
  /\ current'.at = IF current'.plan # <<>> THEN "call" ELSE IF current.answer = "lost" THEN "answered" ELSE "reply"
  /\ held' = Held(current, TheCall, res)
OpenStays ==
  /\ UNCHANGED conn /\ OpsTypeOK'
  /\ \A h \in OpenFiles : opened'[h].at = opened[h].at

LEMMA ACallIsMade ==
  ASSUME HandlesInv, CallFs
  PROVE  InCall(current) /\ OpenStays /\ \E res : CallMade(res)
<1>1. InCall(current) /\ OpsTypeOK
  BY DEF HandlesInv, CallFs
<1>2. PICK res :
        LET rest == Rest(current, TheCall, res)
            err == Error(current, TheCall, res)
        IN  /\ current' = [current EXCEPT !.err = err, !.plan = rest, !.done = Append(@, <<TheCall, res>>),
                                          !.at = IF rest # <<>> THEN "call"
                                                 ELSE IF current.answer = "lost" THEN "answered" ELSE "reply"]
            /\ held' = Held(current, TheCall, res) /\ opened' = Removed(current, TheCall, res)
  BY DEF CallFs, TheCall
<1> DEFINE rest == Rest(current, TheCall, res)
           err == Error(current, TheCall, res)
<1>3. /\ DOMAIN current' = DOMAIN IdleReq /\ current'.plan = rest /\ current'.err = err
      /\ current'.op = current.op /\ current'.node = current.node /\ current'.answer = current.answer
      /\ current'.at = IF rest # <<>> THEN "call" ELSE IF current.answer = "lost" THEN "answered" ELSE "reply"
  <2> HIDE DEF rest, err
  <2> QED
    BY <1>1, <1>2 DEF rest, err, OpsTypeOK, IdleReq
<1>4. CallMade(res)
  BY <1>2, <1>3 DEF CallMade
<1>5. current.node \in OpenFiles
  BY <1>1 DEF InCall, Sent
<1>6. opened' \in [OpenFiles -> Nodes] /\ \A h \in OpenFiles : opened'[h].at = opened[h].at
  BY <1>1, <1>2, <1>5, ZenonT(60) DEF OpsTypeOK, Removed, Nodes
<1>7. held' \in [OpenFiles \cup {0} -> Int]
  BY <1>1, <1>2, <1>5 DEF OpsTypeOK, Held
<1>8. UNCHANGED conn
  BY DEF CallFs
<1>9. current'.at \in Places
  BY <1>3 DEF Places
<1> QED
  BY <1>1, <1>3, <1>4, <1>6, <1>7, <1>8, <1>9 DEF OpsTypeOK, OpenStays

(* What is open changes where it should.                                   *)
TheHandle == IF current.op = "mknod" THEN 0 ELSE current.node

LEMMA WhatIsHeld ==
  ASSUME HandlesInv, InCall(current), NEW res, CallMade(res)
  PROVE  /\ TheCall \in Opening /\ res = "ok" => held'[TheHandle] = held[TheHandle] + 1
         /\ TheCall \in Opening /\ res # "ok" => held'[TheHandle] = held[TheHandle]
         /\ TheCall \in Closing => held'[TheHandle] = held[TheHandle] - 1
         /\ TheCall \notin Opening \cup Closing => held' = held
         /\ \A h \in OpenFiles \cup {0} : h # TheHandle => held'[h] = held[h]
<1>1. held \in [OpenFiles \cup {0} -> Int] /\ TheHandle \in OpenFiles \cup {0}
  BY DEF HandlesInv, OpsTypeOK, InCall, Sent, TheHandle
<1>2. held' = IF TheCall \in Opening /\ res = "ok" THEN [held EXCEPT ![TheHandle] = @ + 1]
              ELSE IF TheCall \in Closing THEN [held EXCEPT ![TheHandle] = @ - 1] ELSE held
  BY DEF CallMade, Held, TheHandle, Opening, Closing
<1>3. ~(TheCall \in Opening /\ TheCall \in Closing)
  BY DEF Opening, Closing
<1> QED
  BY <1>1, <1>2, <1>3

(* The other files, and the request.                                       *)
LEMMA OthersStay ==
  ASSUME HandlesInv, InCall(current), OpenStays, NEW res, CallMade(res)
  PROVE  /\ Sent(current)' /\ OthersPaired(current)'
         /\ current.op # "mknod" => held'[0] = 0
         /\ current.op = "mknod" => Paired(current.node)'
<1>1. current.node \in OpenFiles /\ 0 \notin OpenFiles /\ current'.node = current.node /\ current'.op = current.op
  BY FuseOpsAssumption DEF InCall, Sent, CallMade
<1>2. Sent(current)'
  BY <1>1 DEF InCall, Sent, IsNew, IsOpen, OpenStays
<1>3. \A h \in OpenFiles : h # current.node => held'[h] = held[h]
  BY <1>1, WhatIsHeld DEF TheHandle
<1>4. OthersPaired(current)'
  BY <1>1, <1>3 DEF InCall, OthersPaired, Paired, OpenStays
<1>5. current.op # "mknod" => held'[0] = 0
  BY <1>1, WhatIsHeld DEF InCall, TheHandle
<1>6. current.op = "mknod" => held'[current.node] = held[current.node] /\ Paired(current.node)
  BY <1>1, WhatIsHeld DEF InCall, TheHandle, Mknod
<1>7. current.op = "mknod" => Paired(current.node)'
  BY <1>1, <1>6 DEF Paired, OpenStays
<1> QED
  BY <1>2, <1>4, <1>5, <1>7

(* What is left is one of three things.                                    *)
LEMMA WhereItGoes ==
  ASSUME HandlesInv, InCall(current), OpenStays, NEW res, CallMade(res),
         current'.plan # <<>> => InCall(current)',
         current'.plan = <<>> /\ current.answer # "lost" => InReply(current)',
         current'.plan = <<>> /\ current.answer = "lost" => AllPaired'
  PROVE  HandlesInv'
<1>1. \A h \in OpenFiles : opened'[h].at = "open" => conn'.got_init
  BY DEF HandlesInv, OpenStays
<1>2. OpsTypeOK'
  BY DEF OpenStays
<1>3. current'.at = "call" <=> current'.plan # <<>>
  BY DEF CallMade
<1>4. current'.at = "reply" <=> current'.plan = <<>> /\ current.answer # "lost"
  BY DEF CallMade
<1>5. current'.at = "answered" <=> current'.plan = <<>> /\ current.answer = "lost"
  BY DEF CallMade
<1>6. current'.at \in {"call", "reply", "answered"}
  BY DEF CallMade
<1> QED
  BY <1>1, <1>2, <1>3, <1>4, <1>5, <1>6 DEF HandlesInv

LEMMA QuietKeeps ==
  ASSUME HandlesInv, InCall(current), OpenStays, NEW res, CallMade(res),
         current.op \notin Opening \cup Closing \cup {"mknod"}
  PROVE  HandlesInv'
<1>1. /\ Quiet(current.plan) /\ current.plan # <<>> /\ Paired(current.node)
      /\ current.node \in OpenFiles /\ conn.got_init /\ current.answer # "lost"
  BY DEF InCall, Sent
<1>2. TheCall \in QuietCalls /\ Quiet(Tail(current.plan))
  BY <1>1 DEF Quiet, TheCall
<1>3. held' = held
  BY <1>2, WhatIsHeld DEF QuietCalls
<1>4. current'.plan = <<>> \/ current'.plan = Tail(current.plan)
  BY DEF CallMade, Rest, Opening, Closing
<1>5. Paired(current.node)'
  <2>1. current'.node = current.node
    BY DEF CallMade
  <2> QED
    BY <1>1, <1>3, <2>1 DEF Paired, OpenStays
<1>6. /\ Sent(current)' /\ OthersPaired(current)' /\ held'[0] = 0
      /\ conn'.got_init /\ current'.op = current.op /\ current'.answer # "lost"
  BY <1>1, OthersStay DEF CallMade, OpenStays
<1>7. current'.plan # <<>> => InCall(current)'
  BY <1>2, <1>4, <1>5, <1>6 DEF InCall, Opening, Closing
<1>8. current'.plan = <<>> => InReply(current)'
  BY <1>5, <1>6 DEF InReply
<1> QED
  BY <1>1, <1>7, <1>8, WhereItGoes

LEMMA MknodKeeps ==
  ASSUME HandlesInv, InCall(current), OpenStays, NEW res, CallMade(res), current.op = "mknod"
  PROVE  HandlesInv'
<1>1. /\ current'.op = "mknod" /\ current'.answer # "lost" /\ current.answer # "lost" /\ conn'.got_init
      /\ current.op \notin Opening \cup Closing
  BY DEF InCall, CallMade, OpenStays, Opening, Closing
<1>2. Sent(current)' /\ OthersPaired(current)' /\ Paired(current.node)'
  BY OthersStay
<1>3. held \in [OpenFiles \cup {0} -> Int]
  BY DEF HandlesInv, OpsTypeOK
<1>4. /\ TheCall \in Opening /\ res = "ok" => held'[0] = held[0] + 1
      /\ TheCall \in Opening /\ res # "ok" => held'[0] = held[0]
      /\ TheCall \in Closing => held'[0] = held[0] - 1
      /\ TheCall \notin Opening \cup Closing => held'[0] = held[0]
  BY WhatIsHeld DEF TheHandle
<1>5. current'.plan = Rest(current, TheCall, res)
  BY DEF CallMade
<1>6. \/ current'.plan \in MknodClosed \cup {<<>>} /\ held'[0] = 0
      \/ current'.plan \in MknodOpen /\ held'[0] = 1
  <2>1. CASE current.plan = <<"create">> /\ held[0] = 0
    <3>1. TheCall = "create"
      BY <2>1 DEF TheCall
    <3>2. current'.plan = IF res = "ok" THEN <<"fgetattr", "release">>
                          ELSE IF res = "ENOSYS" THEN <<"mknod", "getattr">> ELSE <<>>
      BY <1>5, <3>1 DEF Rest
    <3> QED
      BY <1>4, <2>1, <3>1, <3>2 DEF MknodClosed, MknodOpen, Opening
  <2>2. CASE current.plan = <<"mknod", "getattr">> /\ held[0] = 0
    <3>1. TheCall = "mknod" /\ Tail(current.plan) = <<"getattr">>
      BY <2>2 DEF TheCall
    <3>2. current'.plan = <<>> \/ current'.plan = Tail(current.plan)
      BY <1>5, <3>1 DEF Rest
    <3> QED
      BY <1>4, <2>2, <3>1, <3>2 DEF MknodClosed, Opening, Closing
  <2>3. CASE current.plan = <<"getattr">> /\ held[0] = 0
    <3>1. TheCall = "getattr" /\ Tail(current.plan) = <<>>
      BY <2>3 DEF TheCall
    <3>2. current'.plan = <<>>
      BY <1>5, <3>1 DEF Rest
    <3> QED
      BY <1>4, <2>3, <3>1, <3>2 DEF Opening, Closing
  <2>4. CASE current.plan = <<"fgetattr", "release">> /\ held[0] = 1
    <3>1. TheCall = "fgetattr"
      BY <2>4 DEF TheCall
    <3>2. current'.plan = <<"release">>
      BY <1>5, <3>1 DEF Rest
    <3> QED
      BY <1>4, <2>4, <3>1, <3>2 DEF MknodOpen, Opening, Closing
  <2>5. CASE current.plan = <<"release">> /\ held[0] = 1
    <3>1. TheCall = "release"
      BY <2>5 DEF TheCall
    <3>2. current'.plan \in {<<>>, <<"mknod", "getattr">>}
      BY <1>5, <3>1 DEF Rest
    <3> QED
      BY <1>4, <2>5, <3>1, <3>2 DEF MknodClosed, Closing
  <2> QED
    BY <2>1, <2>2, <2>3, <2>4, <2>5 DEF InCall, Mknod, MknodClosed, MknodOpen
<1>7. current'.plan # <<>> => InCall(current)'
  BY <1>1, <1>2, <1>6 DEF InCall, Mknod, Opening, Closing
<1>8. current'.plan = <<>> => InReply(current)'
  <2>1. <<>> \notin MknodOpen
    BY DEF MknodOpen
  <2> QED
    BY <1>1, <1>2, <1>6, <2>1 DEF InReply, Opening, Closing
<1> QED
  BY <1>1, <1>7, <1>8, WhereItGoes

LEMMA OpeningKeeps ==
  ASSUME HandlesInv, InCall(current), OpenStays, NEW res, CallMade(res), current.op \in Opening
  PROVE  HandlesInv'
<1> DEFINE n == current.node
<1>1. /\ current'.op = current.op /\ current'.answer = current.answer /\ current'.node = n
      /\ conn'.got_init /\ n \in OpenFiles /\ IsNew(current) /\ Opens(current)
  BY DEF InCall, Sent, CallMade, OpenStays
<1>2. /\ Sent(current)' /\ OthersPaired(current)' /\ held'[0] = 0
  BY OthersStay DEF Opening
<1>3. held[n] \in Int
  BY <1>1 DEF HandlesInv, OpsTypeOK
<1>4. /\ TheCall \in Opening /\ res = "ok" => held'[n] = held[n] + 1
      /\ TheCall \in Opening /\ res # "ok" => held'[n] = held[n]
      /\ TheCall \in Closing => held'[n] = held[n] - 1
      /\ TheCall \notin Opening \cup Closing => held'[n] = held[n]
  BY WhatIsHeld DEF TheHandle, Opening
<1>5. /\ current'.plan = Rest(current, TheCall, res)
      /\ current'.err = Error(current, TheCall, res)
  BY DEF CallMade
<1> HIDE DEF n
<1>6. CASE current.plan = <<current.op>> /\ current.answer # "lost" /\ held[n] = 0
  <2>1. TheCall = current.op /\ TheCall \in Opening /\ Tail(current.plan) = <<>>
    BY <1>6 DEF TheCall
  <2>2. current'.err = IF res = "odd" THEN "EIO" ELSE res
    BY <1>5, <2>1 DEF Error, Opening
  <2>3. current'.plan = IF current.op = "create" /\ res = "ok" THEN <<"fgetattr">> ELSE <<>>
    BY <1>5, <2>1 DEF Rest, Opening
  <2>4. held'[n] = IF current'.err = "ok" THEN 1 ELSE 0
    BY <1>4, <1>6, <2>1, <2>2
  <2>5. current'.plan # <<>> => InCall(current)'
    <3>1. ASSUME current'.plan # <<>> PROVE Opens(current)'
      BY <1>1, <1>6, <2>2, <2>3, <2>4, <3>1 DEF Opens
    <3> QED
      BY <1>1, <1>2, <3>1 DEF InCall, Opening, Closing
  <2>6. current'.plan = <<>> => InReply(current)'
    BY <1>1, <1>2, <2>4 DEF InReply, Opening, Closing
  <2> QED
    BY <1>6, <2>5, <2>6, WhereItGoes
<1>7. CASE current.plan = <<"fgetattr">> /\ current.op = "create" /\ current.answer # "lost" /\ held[n] = 1
  <2>1. TheCall = "fgetattr"
    BY <1>7 DEF TheCall
  <2>2. current'.plan = IF current'.err = "ok" THEN <<>> ELSE <<"release">>
    BY <1>5, <1>7, <2>1 DEF Rest
  <2>3. held'[n] = 1
    BY <1>4, <1>7, <2>1 DEF Opening, Closing
  <2>4. current'.plan # <<>> => InCall(current)'
    <3>1. ASSUME current'.plan # <<>> PROVE Opens(current)'
      BY <1>1, <1>7, <2>2, <2>3, <3>1 DEF Opens
    <3> QED
      BY <1>1, <1>2, <3>1 DEF InCall, Opening, Closing
  <2>5. current'.plan = <<>> => current'.err = "ok"
    BY <2>2
  <2>6. current'.plan = <<>> => InReply(current)'
    BY <1>1, <1>2, <1>7, <2>3, <2>5 DEF InReply, Opening, Closing
  <2> QED
    BY <1>7, <2>4, <2>6, WhereItGoes
<1>8. CASE /\ current.plan = <<"release">> /\ current.op = "create" /\ current.answer # "lost"
           /\ current.err # "ok" /\ held[n] = 1
  <2>1. TheCall = "release" /\ Tail(current.plan) = <<>>
    BY <1>8 DEF TheCall
  <2>2. current'.plan = <<>> /\ current'.err = current.err
    <3>1. current'.err = current.err
      BY <1>5, <2>1 DEF Error
    <3>2. current'.plan = <<>>
      BY <1>5, <1>8, <2>1 DEF Rest
    <3> QED
      BY <3>1, <3>2
  <2>3. held'[n] = 0
    BY <1>3, <1>4, <1>8, <2>1 DEF Opening, Closing
  <2>4. InReply(current)'
    BY <1>1, <1>2, <1>8, <2>2, <2>3 DEF InReply, Opening, Closing
  <2> QED
    BY <1>8, <2>2, <2>4, WhereItGoes
<1>9. CASE /\ current.plan = <<IF current.op = "opendir" THEN "releasedir" ELSE "release">>
           /\ current.answer = "lost" /\ held[n] = 1
  <2>1. TheCall = (IF current.op = "opendir" THEN "releasedir" ELSE "release") /\ Tail(current.plan) = <<>>
    BY <1>9 DEF TheCall
  <2>2. current'.plan = <<>>
    BY <1>5, <2>1 DEF Rest, Opening
  <2>3. held'[n] = 0
    BY <1>3, <1>4, <1>9, <2>1 DEF Opening, Closing
  <2>4. AllPaired'
    <3>1. Paired(n)'
      BY <1>1, <2>3 DEF Paired, IsNew, OpenStays, n
    <3> QED
      BY <1>1, <1>2, <3>1 DEF AllPaired, OthersPaired, n
  <2> QED
    BY <1>9, <2>2, <2>4, WhereItGoes
<1> QED
  BY <1>1, <1>6, <1>7, <1>8, <1>9 DEF Opens, n

LEMMA ClosingKeeps ==
  ASSUME HandlesInv, InCall(current), OpenStays, NEW res, CallMade(res), current.op \in Closing
  PROVE  HandlesInv'
<1> DEFINE n == current.node
<1>1. /\ current'.op = current.op /\ current'.answer = current.answer /\ current'.node = n
      /\ conn'.got_init /\ n \in OpenFiles /\ current.answer # "lost"
  BY DEF InCall, Sent, CallMade, OpenStays, Opening, Closing
<1>2. /\ Sent(current)' /\ OthersPaired(current)' /\ held'[0] = 0
  BY OthersStay DEF Closing
<1>3. held[n] \in Int
  BY <1>1 DEF HandlesInv, OpsTypeOK
<1>4. /\ TheCall \in Closing => held'[n] = held[n] - 1
      /\ TheCall \notin Opening \cup Closing => held'[n] = held[n]
  BY WhatIsHeld DEF TheHandle, Closing
<1>5. current'.plan = Rest(current, TheCall, res)
  BY DEF CallMade
<1>6. ASSUME current'.plan = <<>>, held'[n] = 0
      PROVE  HandlesInv'
  <2>1. InReply(current)'
    BY <1>1, <1>2, <1>6 DEF InReply, Opening, Closing
  <2> QED
    BY <1>1, <1>6, <2>1, WhereItGoes
<1>7. ASSUME current.op = "release", Releases(current)'
      PROVE  HandlesInv'
  <2>1. current'.plan # <<>>
    BY <1>7 DEF Releases
  <2>2. InCall(current)'
    BY <1>1, <1>2, <1>7 DEF InCall, Opening, Closing
  <2> QED
    BY <2>1, <2>2, WhereItGoes
<1> HIDE DEF n
<1>8. CASE current.op = "releasedir"
  <2>1. current.plan = <<"releasedir">> /\ held[n] = 1
    BY <1>8 DEF InCall, n
  <2>2. TheCall = "releasedir" /\ Tail(current.plan) = <<>>
    BY <2>1 DEF TheCall
  <2>3. current'.plan = <<>>
    BY <1>5, <1>8, <2>2 DEF Rest
  <2> QED
    BY <1>4, <1>6, <2>1, <2>2, <2>3 DEF Closing
<1>9. CASE current.op = "release"
  <2>0. Releases(current)
    BY <1>9 DEF InCall
  <2>1. CASE current.plan \in {<<"flush", "lock", "release">>, <<"lock", "release">>} /\ held[n] = 1
    <3>1. /\ TheCall \in {"flush", "lock"}
          /\ Tail(current.plan) \in {<<"lock", "release">>, <<"release">>}
      <4>1. CASE current.plan = <<"flush", "lock", "release">>
        BY <4>1 DEF TheCall
      <4>2. CASE current.plan = <<"lock", "release">>
        BY <4>2 DEF TheCall
      <4> QED
        BY <2>1, <4>1, <4>2
    <3>2. current'.plan = Tail(current.plan)
      BY <1>5, <1>9, <3>1 DEF Rest
    <3>3. held'[n] = 1
      BY <1>4, <2>1, <3>1 DEF Opening, Closing
    <3>4. Releases(current)'
      BY <1>1, <3>1, <3>2, <3>3 DEF Releases
    <3> QED
      BY <1>7, <1>9, <3>4
  <2>2. CASE current.plan = <<"release">> /\ held[n] = 1
    <3>1. TheCall = "release"
      BY <2>2 DEF TheCall
    <3>2. current'.plan = <<>> \/ current'.plan = <<"unlink">>
      <4>1. \A c : Calling(c, "unlink") \in {<<>>, <<"unlink">>}
        BY DEF Calling
      <4>2. current'.plan = Calling(RemovesHidden(current), "unlink")
        BY <1>5, <1>9, <3>1 DEF Rest
      <4> QED
        BY <4>1, <4>2
    <3>3. held'[n] = 0
      BY <1>3, <1>4, <2>2, <3>1 DEF Closing
    <3>4. current'.plan = <<"unlink">> => Releases(current)'
      BY <1>1, <3>3 DEF Releases
    <3> QED
      BY <1>6, <1>7, <1>9, <3>2, <3>3, <3>4
  <2>3. CASE current.plan = <<"unlink">> /\ held[n] = 0
    <3>1. TheCall = "unlink" /\ Tail(current.plan) = <<>>
      BY <2>3 DEF TheCall
    <3>2. current'.plan = <<>>
      BY <1>5, <1>9, <3>1 DEF Rest
    <3> QED
      BY <1>4, <1>6, <2>3, <3>1, <3>2 DEF Opening, Closing
  <2> QED
    BY <2>0, <2>1, <2>2, <2>3 DEF Releases, n
<1> QED
  BY <1>8, <1>9 DEF Closing

LEMMA CallKeeps ==
  ASSUME HandlesInv, CallFs
  PROVE  HandlesInv'
<1>1. InCall(current) /\ OpenStays
  BY ACallIsMade
<1>2. PICK res : CallMade(res)
  BY ACallIsMade
<1>3. CASE current.op \in Opening
  BY <1>1, <1>2, <1>3, OpeningKeeps
<1>4. CASE current.op \in Closing
  BY <1>1, <1>2, <1>4, ClosingKeeps
<1>5. CASE current.op = "mknod"
  BY <1>1, <1>2, <1>5, MknodKeeps
<1>6. CASE current.op \notin Opening \cup Closing \cup {"mknod"}
  BY <1>1, <1>2, <1>6, QuietKeeps
<1> QED
  BY <1>3, <1>4, <1>5, <1>6
-----------------------------------------------------------------------------
(***************************************************************************)
(* The answer.                                                             *)
(***************************************************************************)
LEMMA ReplyKeeps ==
  ASSUME HandlesInv, ReplySent
  PROVE  HandlesInv'
<1> DEFINE r == current
<1>0. PICK n \in OpenFiles : n = current.node
  BY DEF ReplySent, HandlesInv, InReply, Sent
<1>1. InReply(r) /\ OpsTypeOK /\ n = current.node /\ r.op \in DOMAIN Opcodes
  BY <1>0 DEF ReplySent, HandlesInv, InReply, Sent
<1>2. DOMAIN current' = DOMAIN IdleReq /\ current'.at = "answered"
  BY <1>1 DEF ReplySent, OpsTypeOK, IdleReq
<1>3. UNCHANGED <<conn, held>> /\ opened' = Kept(r)
  BY DEF ReplySent
<1>4. On(r.op) = "new" <=> r.op \in Opening
  BY <1>1, NewOnes DEF OnlyThese, On
<1>5. PICK dir \in BOOLEAN : dir = (r.op = "opendir")
  BY Zenon
<1> DEFINE new == [at |-> "open", dir |-> dir, named |-> TRUE, hidden |-> FALSE]
<1>6. /\ r.op \in Opening /\ r.err = "ok" => opened' = [opened EXCEPT ![n] = new]
      /\ r.op \in Closing => opened' = [opened EXCEPT ![n] = Unopened]
      /\ ~(r.op \in Opening /\ r.err = "ok") /\ r.op \notin Closing => opened' = opened
  <2>1. ~(r.op \in Opening /\ r.op \in Closing)
    BY DEF Opening, Closing
  <2>2. opened' = IF r.op \in Opening /\ r.err = "ok" THEN [opened EXCEPT ![n] = new]
                  ELSE IF r.op \in Closing THEN [opened EXCEPT ![n] = Unopened] ELSE opened
    BY <1>1, <1>3, <1>4, <1>5, <2>1, Zenon DEF Kept, Closing
  <2> QED
    BY <2>1, <2>2
<1>12. opened' \in [OpenFiles -> Nodes]
  <2>1. new \in Nodes /\ Unopened \in Nodes
    BY <1>5 DEF Nodes, Unopened
  <2> HIDE DEF new
  <2> QED
    BY <1>1, <1>6, <2>1 DEF OpsTypeOK
<1>7. \A h \in OpenFiles : h # n => opened'[h] = opened[h]
  BY <1>1, <1>6 DEF OpsTypeOK
<1>8. Paired(n)'
  <2>1. CASE r.op \in Opening /\ r.err = "ok"
    BY <1>1, <1>3, <1>6, <2>1 DEF OpsTypeOK, Paired, InReply
  <2>2. CASE r.op \in Opening /\ r.err # "ok"
    BY <1>1, <1>3, <1>6, <2>2 DEF Paired, InReply, Sent, IsNew, Opening, Closing
  <2>3. CASE r.op \in Closing
    BY <1>1, <1>3, <1>6, <2>3 DEF OpsTypeOK, Paired, InReply, Unopened
  <2>4. CASE r.op \notin Opening \cup Closing
    BY <1>1, <1>3, <1>6, <2>4 DEF Paired, InReply
  <2> QED
    BY <2>1, <2>2, <2>3, <2>4
<1>9. AllPaired'
  <2>1. \A h \in OpenFiles : h # n => Paired(h)'
    BY <1>1, <1>3, <1>7 DEF InReply, OthersPaired, Paired
  <2> QED
    BY <1>1, <1>3, <1>8, <2>1 DEF AllPaired, InReply
<1>10. \A h \in OpenFiles : opened'[h].at = "open" => conn'.got_init
  <2>1. r.op \in Opening /\ r.err = "ok" => conn.got_init
    BY <1>1 DEF InReply
  <2>2. \A h \in OpenFiles : opened'[h].at = "open" => opened[h].at = "open" \/ (r.op \in Opening /\ r.err = "ok")
    BY <1>1, <1>6 DEF OpsTypeOK, Unopened
  <2> QED
    BY <1>3, <2>1, <2>2 DEF HandlesInv
<1>11. OpsTypeOK'
  BY <1>1, <1>2, <1>3, <1>12 DEF OpsTypeOK, Places
<1> QED
  BY <1>2, <1>9, <1>10, <1>11 DEF HandlesInv

LEMMA LostReplyKeeps ==
  ASSUME HandlesInv, ReplyNotSent
  PROVE  HandlesInv'
<1>1. InReply(current) /\ OpsTypeOK /\ current.node \in OpenFiles
  BY DEF ReplyNotSent, HandlesInv, InReply, Sent
<1>2. current.op \in Opening /\ current.err = "ok"
  BY <1>1, NewOnes DEF ReplyNotSent, InReply, Sent, OnlyThese, On
<1>3. UNCHANGED <<conn, opened, held>>
  BY DEF ReplyNotSent
<1>4. /\ DOMAIN current' = DOMAIN IdleReq /\ current'.at = "call"
      /\ current'.op = current.op /\ current'.node = current.node
      /\ current'.answer = "lost"
      /\ current'.plan = <<IF current.op = "opendir" THEN "releasedir" ELSE "release">>
  BY <1>1 DEF ReplyNotSent, CancelOpen, OpsTypeOK, IdleReq
<1>5. Opens(current)'
  BY <1>1, <1>2, <1>3, <1>4 DEF Opens, InReply
<1>6. Sent(current)' /\ OthersPaired(current)' /\ held'[0] = 0 /\ conn'.got_init
  BY <1>1, <1>2, <1>3, <1>4 DEF InReply, Sent, IsNew, IsOpen, OthersPaired, Paired
<1>7. InCall(current)'
  BY <1>2, <1>4, <1>5, <1>6 DEF InCall, Opening, Closing
<1>8. OpsTypeOK'
  BY <1>1, <1>3, <1>4 DEF OpsTypeOK, Places
<1> QED
  BY <1>3, <1>4, <1>7, <1>8 DEF HandlesInv
-----------------------------------------------------------------------------
LEMMA StepsKeepHandles == HandlesInv /\ [OpsNext]_opsvars => HandlesInv'
<1> SUFFICES ASSUME HandlesInv, [OpsNext]_opsvars PROVE HandlesInv'
  OBVIOUS
<1>1. ASSUME UNCHANGED opsvars PROVE HandlesInv'
  <2>1. OpsTypeOK'
    BY <1>1 DEF HandlesInv, OpsTypeOK, opsvars
  <2> QED
    BY <1>1, <2>1, ConnectionSteps DEF opsvars
<1>2. ASSUME NEW major \in 6..8, NEW minor \in Minors, DoInit(major, minor) PROVE HandlesInv'
  BY <1>2, InitKeeps
<1>3. ASSUME DoDestroy PROVE HandlesInv'
  BY <1>3, DestroyKeeps
<1>4. ASSUME NEW op \in DOMAIN Opcodes, NEW h \in OpenFiles, SendRequest(op, h) PROVE HandlesInv'
  BY <1>4, SendKeeps
<1>5. ASSUME Dispatch PROVE HandlesInv'
  BY <1>5, DispatchKeeps
<1>6. ASSUME TakePath PROVE HandlesInv'
  BY <1>6, TakePathKeeps
<1>7. ASSUME CallFs PROVE HandlesInv'
  BY <1>7, CallKeeps
<1>8. ASSUME ReplySent PROVE HandlesInv'
  BY <1>8, ReplyKeeps
<1>9. ASSUME ReplyNotSent PROVE HandlesInv'
  BY <1>9, LostReplyKeeps
<1> QED
  BY <1>1, <1>2, <1>3, <1>4, <1>5, <1>6, <1>7, <1>8, <1>9 DEF OpsNext

LEMMA HandlesInvStates == HandlesInv => HandlesPaired
BY DEF HandlesInv, HandlesPaired, AllPaired, Before, Paired

(***************************************************************************)
(* Each file and directory that the kernel has open is open once in the    *)
(* file system, and no other is: between requests, until a request reaches *)
(* the file system, whichever calls of fuse_lib_mknod, fuse_lib_create,    *)
(* fuse_lib_open, fuse_lib_opendir, fuse_lib_release and                   *)
(* fuse_lib_releasedir failed, and whichever answers were lost.            *)
(***************************************************************************)
THEOREM OpensAreClosed == OpsSpec => []HandlesPaired
<1>1. OpsInit => HandlesInv
  BY InitHandles
<1>2. HandlesInv /\ [OpsNext]_opsvars => HandlesInv'
  BY StepsKeepHandles
<1>3. HandlesInv => HandlesPaired
  BY HandlesInvStates
<1> QED
  BY <1>1, <1>2, <1>3, PTL DEF OpsSpec
-----------------------------------------------------------------------------
(***************************************************************************)
(* The inductive invariant for the answers: what was done so far, and what *)
(* is left, when the request is answered.                                  *)
(***************************************************************************)
CallNames == {"chmod", "getattr", "fgetattr", "rename", "unlink", "rmdir", "symlink", "link", "release", "opendir", "open",
              "read", "write", "fsync", "fsyncdir", "flush", "statfs", "releasedir", "readdir", "create", "lock", "flock",
              "chown", "truncate", "ftruncate", "utimens", "access", "readlink", "mknod", "mkdir", "setxattr", "getxattr",
              "listxattr", "bmap", "removexattr", "ioctl", "poll", "fallocate"}
Outcomes == {"ok", "EIO", "ENOSYS", "odd"}
Refusals == {"EIO", "EACCES", "ENOSYS", "ENOTTY", "ENOMEM", "ENOENT"}
Known(plan) == plan \in Seq(CallNames)

(* A call that was made with success, or is still to be made.              *)
Listed(plan, call) == \E i \in DOMAIN plan : plan[i] = call
AllWell(r) == r.err = "ok" /\ \A i \in DOMAIN r.done : r.done[i][2] = "ok"
LastIs(r, call, res) == Len(r.done) > 0 /\ r.done[Len(r.done)] = <<call, res>>

(* The failure that is reported.                                           *)
After == {"lock", "release", "unlink"}
Blamed(r, err) ==
  \E i \in DOMAIN r.done : /\ r.done[i][2] \in {err, "odd"}
                           /\ \A j \in DOMAIN r.done : j > i => r.done[j][1] \in After

Alone == {"ioctl", "getlk", "setlk", "flock"}
Special == {"mknod", "create", "flush", "release", "releasedir"}
InStraight(r) ==
  /\ AllWell(r)
  /\ \A call \in CallNames : Listed(Plan(r), call) => Did(r, call) \/ Listed(r.plan, call)
  /\ \A call \in Closing : ~Listed(r.plan, call)
  /\ r.op \in Alone => r.plan = Plan(r)
InMknod(r) ==
  \/ r.plan = <<"create">>
  \/ r.plan = <<"fgetattr", "release">> /\ Did(r, "create")
  \/ r.plan = <<"release">> /\ Did(r, "create") /\ LastIs(r, "fgetattr", r.err)
  \/ r.plan = <<"mknod", "getattr">>
  \/ r.plan = <<"getattr">> /\ Did(r, "mknod")
InCreate(r) ==
  \/ r.plan = <<"create">>
  \/ r.plan = <<"fgetattr">> /\ Did(r, "create")
  \/ r.plan = <<"release">> /\ r.err \in Refusals /\ Blamed(r, r.err)
InFlush(r) ==
  \/ r.plan = <<"flush", "lock">>
  \/ r.plan = <<"lock">> /\ LastIs(r, "flush", r.err)
InRelease(r) ==
  /\ r.err \in {"ok", "ENOSYS"} \/ (r.err \in Refusals /\ Blamed(r, r.err))
  /\ \/ r.plan \in {<<"flush", "lock", "release">>, <<"lock", "release">>, <<"release">>}
     \/ r.plan = <<"unlink">> /\ "release" \in Tried(r)

Answering(r) ==
  /\ r.op \notin Special => InStraight(r)
  /\ r.op = "mknod" => InMknod(r)
  /\ r.op = "create" => InCreate(r)
  /\ r.op = "flush" => InFlush(r)
  /\ r.op = "release" => InRelease(r)
  /\ r.op = "releasedir" => r.plan = <<"releasedir">> /\ r.err = "ok"

Just(answer) ==
  /\ answer = Kind(current.op) => WasDone(current)
  /\ answer # Kind(current.op) => \/ current.done = <<>> /\ answer \in Refusals
                                  \/ Blamed(current, answer)
  /\ current.op \in {"getlk", "setlk", "flock"} /\ answer = "ENOSYS" => called.op # "none"

LocksAgreed ==
  /\ "posix_locks" \in conn.agreed => "lock" \in fs.ops
  /\ "flock_locks" \in conn.agreed => "flock" \in fs.ops
LockAsked(op) ==
  /\ op \in {"getlk", "setlk"} => "lock" \in fs.ops
  /\ op = "flock" => "flock" \in fs.ops

AnswersInv ==
  /\ LocksAgreed
  /\ current.done \in Seq(CallNames \X Outcomes)
  /\ current.at \in {"sent", "path", "call", "reply"} => LockAsked(current.op)
  /\ current.at \in {"sent", "path"} => current.done = <<>>
  /\ current.at = "call" => Known(current.plan) /\ current.plan # <<>> /\ (current.answer # "lost" => Answering(current))
  /\ current.at = "reply" => Just(Answer(current))
  /\ AnswersTrue
-----------------------------------------------------------------------------
(***************************************************************************)
(* The tables: which calls there are, and that no answer to a success is   *)
(* an error.                                                               *)
(***************************************************************************)
Sound(f) ==
  \A c \in DOMAIN f : /\ c \in CallNames /\ f[c].absent \in {"ok", "ENOSYS"}
                      /\ c \in {"lock", "flock"} => f[c].by = <<c>>

LEMMA JoinedSound ==
  ASSUME NEW f, NEW g, Sound(f), Sound(g)
  PROVE  Sound(Joined(f, g))
BY DEF Sound, Joined

LEMMA CallsSound == Sound(Calls)
<1>1. Sound(ModeCalls)
  BY DEF Sound, ModeCalls, Only, By, CallNames
<1>2. Sound(AttrCalls)
  BY DEF Sound, AttrCalls, Only, By, CallNames
<1>3. Sound(OpenCalls)
  BY DEF Sound, OpenCalls, Only, By, CallNames
<1>4. Sound(DataCalls)
  BY DEF Sound, DataCalls, Only, By, CallNames
<1>5. Sound(SyncCalls)
  BY DEF Sound, SyncCalls, Only, By, CallNames
<1>6. Sound(ListCalls)
  BY DEF Sound, ListCalls, Only, By, CallNames
<1>7. Sound(ChangeCalls)
  BY DEF Sound, ChangeCalls, Only, By, CallNames
<1>8. Sound(ExtraCalls)
  BY DEF Sound, ExtraCalls, Only, By, CallNames
<1> QED
  BY <1>1, <1>2, <1>3, <1>4, <1>5, <1>6, <1>7, <1>8, JoinedSound DEF Calls

LEMMA CallsAre ==
  /\ \A c \in CallNames : Calls[c].absent \in {"ok", "ENOSYS"}
  /\ Servers("lock") = <<"lock">> /\ Servers("flock") = <<"flock">>
<1>1. \A f, g : DOMAIN Joined(f, g) = DOMAIN f \cup DOMAIN g
  BY DEF Joined
<1>2. /\ DOMAIN ModeCalls \subseteq DOMAIN Calls /\ DOMAIN AttrCalls \subseteq DOMAIN Calls
      /\ DOMAIN OpenCalls \subseteq DOMAIN Calls /\ DOMAIN DataCalls \subseteq DOMAIN Calls
      /\ DOMAIN SyncCalls \subseteq DOMAIN Calls /\ DOMAIN ListCalls \subseteq DOMAIN Calls
      /\ DOMAIN ChangeCalls \subseteq DOMAIN Calls /\ DOMAIN ExtraCalls \subseteq DOMAIN Calls
  <2> HIDE DEF Joined, ModeCalls, AttrCalls, OpenCalls, DataCalls, SyncCalls, ListCalls, ChangeCalls, ExtraCalls
  <2> DEFINE c1 == Joined(ChangeCalls, ExtraCalls)
             c2 == Joined(ListCalls, c1)
             c3 == Joined(SyncCalls, c2)
             c4 == Joined(DataCalls, c3)
             c5 == Joined(OpenCalls, c4)
             c6 == Joined(AttrCalls, c5)
  <2>1. DOMAIN c1 = DOMAIN ChangeCalls \cup DOMAIN ExtraCalls
    BY <1>1
  <2>2. DOMAIN c2 = DOMAIN ListCalls \cup DOMAIN c1
    BY <1>1, Zenon
  <2>3. DOMAIN c3 = DOMAIN SyncCalls \cup DOMAIN c2
    BY <1>1, Zenon
  <2>4. DOMAIN c4 = DOMAIN DataCalls \cup DOMAIN c3
    BY <1>1, Zenon
  <2>5. DOMAIN c5 = DOMAIN OpenCalls \cup DOMAIN c4
    BY <1>1, Zenon
  <2>6. DOMAIN c6 = DOMAIN AttrCalls \cup DOMAIN c5
    BY <1>1, Zenon
  <2>7. DOMAIN Calls = DOMAIN ModeCalls \cup DOMAIN c6
    BY <1>1, Zenon DEF Calls
  <2> HIDE DEF c1, c2, c3, c4, c5, c6
  <2> QED
    BY <2>1, <2>2, <2>3, <2>4, <2>5, <2>6, <2>7
<1>3. CallNames \subseteq DOMAIN Calls
  <2>1. CallNames \subseteq DOMAIN ModeCalls \cup DOMAIN AttrCalls \cup DOMAIN OpenCalls \cup DOMAIN DataCalls
                           \cup DOMAIN SyncCalls \cup DOMAIN ListCalls \cup DOMAIN ChangeCalls \cup DOMAIN ExtraCalls
    BY DEF CallNames, ModeCalls, AttrCalls, OpenCalls, DataCalls, SyncCalls, ListCalls, ChangeCalls, ExtraCalls
  <2> QED
    BY <1>2, <2>1
<1>4. "lock" \in CallNames /\ "flock" \in CallNames
  BY DEF CallNames
<1> QED
  BY <1>3, <1>4, CallsSound DEF Sound, Servers

NoCallOfIts == {"lookup", "setattr", "getlk", "setlk"}
Answered(ops) ==
  \A op \in DOMAIN ops : /\ op \in CallNames \cup NoCallOfIts
                         /\ ops[op].answer \notin Refusals \cup {"ok", "lost", "odd"}

LEMMA JoinedAnswered ==
  ASSUME NEW f, NEW g, Answered(f), Answered(g)
  PROVE  Answered(Joined(f, g))
BY DEF Answered, Joined

LEMMA OpcodesAnswered == Answered(Opcodes)
<1>1. Answered(NodeOps)
  BY DEF Answered, NodeOps, About, CallNames, NoCallOfIts, Refusals
<1>2. Answered(NameOps)
  <2>1. DOMAIN NameOps = {"mkdir", "unlink", "rmdir", "symlink", "rename", "link", "create"}
    BY DEF NameOps
  <2>2. \A op \in DOMAIN NameOps : NameOps[op].answer \in {"entry", "none", "create"}
    <3>1. /\ NameOps.mkdir.answer = "entry" /\ NameOps.unlink.answer = "none" /\ NameOps.rmdir.answer = "none"
          /\ NameOps.symlink.answer = "entry" /\ NameOps.rename.answer = "none" /\ NameOps.link.answer = "entry"
          /\ NameOps.create.answer = "create"
      BY DEF NameOps, About
    <3> QED
      BY <2>1, <3>1
  <2> QED
    BY <2>1, <2>2 DEF Answered, CallNames, Refusals
<1>3. Answered(FileOps)
  BY DEF Answered, FileOps, About, CallNames, NoCallOfIts, Refusals
<1>4. Answered(DirOps)
  BY DEF Answered, DirOps, About, CallNames, NoCallOfIts, Refusals
<1>5. Answered(TreeOps)
  BY DEF Answered, TreeOps, About, CallNames, NoCallOfIts, Refusals
<1>6. Answered(LockOps)
  BY DEF Answered, LockOps, About, CallNames, NoCallOfIts, Refusals
<1>7. Answered(DeviceOps)
  BY DEF Answered, DeviceOps, About, CallNames, NoCallOfIts, Refusals
<1> QED
  BY <1>1, <1>2, <1>3, <1>4, <1>5, <1>6, <1>7, JoinedAnswered DEF Opcodes
-----------------------------------------------------------------------------
(***************************************************************************)
(* The plans, once more: which calls they list.                            *)
(***************************************************************************)
LEMMA KnownOne ==
  ASSUME NEW c \in CallNames
  PROVE  Known(<<c>>) /\ \A x : Listed(<<c>>, x) <=> x = c
BY DEF Known, Listed

LEMMA KnownTwo ==
  ASSUME NEW c \in CallNames, NEW d \in CallNames
  PROVE  Known(<<c, d>>) /\ \A x : Listed(<<c, d>>, x) <=> x \in {c, d}
<1>1. DOMAIN <<c, d>> = 1..2 /\ <<c, d>>[1] = c /\ <<c, d>>[2] = d
  OBVIOUS
<1> QED
  BY <1>1 DEF Known, Listed

LEMMA KnownTogether ==
  ASSUME NEW p, NEW q, Known(p), Known(q)
  PROVE  /\ Known(p \o q)
         /\ \A c : Listed(p \o q, c) <=> Listed(p, c) \/ Listed(q, c)
<1> DEFINE S == CallNames
<1>1. p \in Seq(S) /\ q \in Seq(S)
  BY DEF Known
<1> HIDE DEF S
<1>2. /\ p \o q \in Seq(S) /\ Len(p) \in Nat /\ Len(q) \in Nat /\ DOMAIN (p \o q) = 1..(Len(p) + Len(q))
      /\ DOMAIN p = 1..Len(p) /\ DOMAIN q = 1..Len(q)
      /\ \A i \in 1..Len(p) : (p \o q)[i] = p[i]
      /\ \A i \in 1..Len(q) : (p \o q)[Len(p) + i] = q[i]
  BY <1>1
<1>3. ASSUME NEW c, Listed(p \o q, c) PROVE Listed(p, c) \/ Listed(q, c)
  <2>1. PICK i \in 1..(Len(p) + Len(q)) : (p \o q)[i] = c
    BY <1>2, <1>3 DEF Listed
  <2>2. CASE i <= Len(p)
    BY <1>2, <2>1, <2>2 DEF Listed
  <2>3. CASE i > Len(p)
    <3>1. i - Len(p) \in 1..Len(q) /\ Len(p) + (i - Len(p)) = i
      BY <1>2, <2>3
    <3> QED
      BY <1>2, <2>1, <3>1 DEF Listed
  <2> QED
    BY <1>2, <2>2, <2>3
<1>4. ASSUME NEW c, Listed(p, c) PROVE Listed(p \o q, c)
  BY <1>2, <1>4 DEF Listed
<1>5. ASSUME NEW c, Listed(q, c) PROVE Listed(p \o q, c)
  <2>1. PICK i \in 1..Len(q) : q[i] = c
    BY <1>2, <1>5 DEF Listed
  <2>2. Len(p) + i \in 1..(Len(p) + Len(q))
    BY <1>2
  <2> QED
    BY <1>2, <2>1, <2>2 DEF Listed
<1> QED
  BY <1>2, <1>3, <1>4, <1>5 DEF Known, S

LEMMA KnownCalling ==
  ASSUME NEW cond \in BOOLEAN, NEW c \in CallNames
  PROVE  Known(Calling(cond, c)) /\ \A x : Listed(Calling(cond, c), x) <=> cond /\ x = c
<1>1. Known(<<>>) /\ \A x : ~Listed(<<>>, x)
  BY DEF Known, Listed
<1> QED
  BY <1>1, KnownOne DEF Calling

LEMMA SetattrCalls ==
  ASSUME NEW r
  PROVE  /\ Known(SetattrPlan(r))
         /\ \A c \in Closing : ~Listed(SetattrPlan(r), c)
         /\ "mode" \in r.bits => Listed(SetattrPlan(r), "chmod")
         /\ "owner" \in r.bits => Listed(SetattrPlan(r), "chown")
         /\ "size" \in r.bits => Listed(SetattrPlan(r), "truncate") \/ Listed(SetattrPlan(r), "ftruncate")
         /\ {"atime", "mtime"} \subseteq r.bits => Listed(SetattrPlan(r), "utimens")
         /\ Listed(SetattrPlan(r), "getattr") \/ Listed(SetattrPlan(r), "fgetattr")
<1> DEFINE size == IF r.fi THEN "ftruncate" ELSE "truncate"
           m == Calling("mode" \in r.bits, "chmod")
           o == Calling("owner" \in r.bits, "chown")
           z == Calling("size" \in r.bits, size)
           t == Calling(SetsTimes(r), "utimens")
           g == Getattr(r)
<1>1. SetattrPlan(r) = m \o o \o z \o t \o g
  BY DEF SetattrPlan
<1>2. size \in {"ftruncate", "truncate"} /\ size \in CallNames
  BY DEF CallNames
<1>3. Known(m) /\ \A x : Listed(m, x) <=> "mode" \in r.bits /\ x = "chmod"
  <2>1. ("mode" \in r.bits) \in BOOLEAN /\ "chmod" \in CallNames
    BY DEF CallNames
  <2> QED
    BY <2>1, KnownCalling
<1>4. Known(o) /\ \A x : Listed(o, x) <=> "owner" \in r.bits /\ x = "chown"
  <2>1. ("owner" \in r.bits) \in BOOLEAN /\ "chown" \in CallNames
    BY DEF CallNames
  <2> QED
    BY <2>1, KnownCalling
<1>5. Known(z) /\ \A x : Listed(z, x) <=> "size" \in r.bits /\ x = size
  <2> HIDE DEF size
  <2>1. ("size" \in r.bits) \in BOOLEAN
    OBVIOUS
  <2> QED
    BY <1>2, <2>1, KnownCalling
<1>6. Known(t) /\ \A x : Listed(t, x) <=> SetsTimes(r) /\ x = "utimens"
  <2>1. SetsTimes(r) \in BOOLEAN /\ "utimens" \in CallNames
    BY DEF SetsTimes, CallNames
  <2> QED
    BY <2>1, KnownCalling
<1>7. {"atime", "mtime"} \subseteq r.bits => SetsTimes(r)
  BY DEF SetsTimes
<1>8. PICK get \in {"getattr", "fgetattr"} : g = <<get>>
  BY DEF Getattr
<1>9. Known(g) /\ \A x : Listed(g, x) <=> x = get
  BY <1>8, KnownOne DEF CallNames
<1> HIDE DEF m, o, z, t, g, size
<1> DEFINE p2 == m \o o
           p3 == p2 \o z
           p4 == p3 \o t
           p5 == p4 \o g
<1>10. Known(p2) /\ \A x : Listed(p2, x) <=> Listed(m, x) \/ Listed(o, x)
  BY <1>3, <1>4, KnownTogether
<1> HIDE DEF p2
<1>11. Known(p3) /\ \A x : Listed(p3, x) <=> Listed(p2, x) \/ Listed(z, x)
  BY <1>5, <1>10, KnownTogether
<1> HIDE DEF p3
<1>12. Known(p4) /\ \A x : Listed(p4, x) <=> Listed(p3, x) \/ Listed(t, x)
  BY <1>6, <1>11, KnownTogether
<1> HIDE DEF p4
<1>13. Known(p5) /\ \A x : Listed(p5, x) <=> Listed(p4, x) \/ Listed(g, x)
  BY <1>9, <1>12, KnownTogether
<1>14. SetattrPlan(r) = p5
  BY <1>1 DEF p2, p3, p4, p5
<1> HIDE DEF p5
<1>15. \A x : Listed(p5, x) <=> \/ "mode" \in r.bits /\ x = "chmod"
                                \/ "owner" \in r.bits /\ x = "chown"
                                \/ "size" \in r.bits /\ x = size
                                \/ SetsTimes(r) /\ x = "utimens"
                                \/ x = get
  BY <1>3, <1>4, <1>5, <1>6, <1>9, <1>10, <1>11, <1>12, <1>13
<1> QED
  BY <1>2, <1>7, <1>8, <1>13, <1>14, <1>15 DEF Closing

(* All the other requests: a call of their own name, mostly.               *)
Simple(op) == op \notin Special \cup {"setattr", "lookup", "getattr", "mkdir", "symlink", "link", "unlink", "getlk", "setlk"}

LEMMA PlanCalls ==
  ASSUME NEW r, r.op \in DOMAIN Opcodes
  PROVE  /\ Known(Plan(r)) /\ Plan(r) # <<>>
         /\ r.op \notin Special => \A c \in Closing : ~Listed(Plan(r), c)
         /\ Simple(r.op) => Plan(r) = <<r.op>> /\ r.op \in CallNames
         /\ r.op = "lookup" => Plan(r) = <<"getattr">>
         /\ r.op = "getattr" => Plan(r) \in {<<"getattr">>, <<"fgetattr">>}
         /\ r.op = "setattr" => Plan(r) = SetattrPlan(r)
         /\ r.op \in {"mkdir", "symlink", "link"} => Plan(r) = <<r.op, "getattr">>
         /\ r.op = "unlink" => Plan(r) \in {<<"unlink">>, <<"rename">>}
         /\ r.op \in {"getlk", "setlk"} => Plan(r) = <<"lock">>
<1>1. CASE r.op = "setattr"
  BY <1>1, SetattrCalls, SetattrQuiet DEF Plan, Simple
<1>2. CASE r.op \in {"mkdir", "symlink", "link"}
  <2>1. Plan(r) = <<r.op, "getattr">>
    BY <1>2 DEF Plan
  <2>2. r.op \in CallNames /\ "getattr" \in CallNames
    BY <1>2 DEF CallNames
  <2> QED
    BY <1>2, <2>1, <2>2, KnownTwo DEF Closing, Simple
<1>3. CASE r.op \in {"lookup", "getattr", "unlink", "getlk", "setlk"}
  <2>1. PICK c \in {"getattr", "fgetattr", "unlink", "rename", "lock"} : Plan(r) = <<c>>
    BY <1>3 DEF Plan, Getattr
  <2>2. c \in CallNames
    BY <2>1 DEF CallNames
  <2>3. /\ r.op = "lookup" => Plan(r) = <<"getattr">>
        /\ r.op = "getattr" => Plan(r) \in {<<"getattr">>, <<"fgetattr">>}
        /\ r.op = "unlink" => Plan(r) \in {<<"unlink">>, <<"rename">>}
        /\ r.op \in {"getlk", "setlk"} => Plan(r) = <<"lock">>
    BY DEF Plan, Getattr
  <2> QED
    BY <1>3, <2>1, <2>2, <2>3, KnownOne DEF Closing, Simple
<1>4. CASE r.op \in Special
  <2>1. CASE r.op \in {"mknod", "create", "releasedir"}
    <3>1. PICK c \in {"create", "releasedir"} : Plan(r) = <<c>>
      BY <2>1 DEF Plan
    <3>2. c \in CallNames
      BY <3>1 DEF CallNames
    <3> QED
      BY <1>4, <2>1, <3>1, <3>2, KnownOne DEF Special, Simple
  <2>2. CASE r.op = "flush"
    <3>1. Plan(r) = <<"flush", "lock">>
      BY <2>2 DEF Plan, FlushPlan
    <3>2. "flush" \in CallNames /\ "lock" \in CallNames
      BY DEF CallNames
    <3> QED
      BY <1>4, <2>2, <3>1, <3>2, KnownTwo DEF Special, Simple
  <2>3. CASE r.op = "release"
    <3>1. Plan(r) \in {<<"flush", "lock", "release">>, <<"release">>}
      BY <2>3, Plans
    <3>2. Known(<<"flush", "lock", "release">>) /\ Known(<<"release">>)
      BY DEF Known, CallNames
    <3> QED
      BY <1>4, <2>3, <3>1, <3>2 DEF Special, Simple
  <2> QED
    BY <1>4, <2>1, <2>2, <2>3 DEF Special
<1>5. CASE Simple(r.op)
  <2>1. Plan(r) = <<r.op>>
    BY <1>5 DEF Simple, Special, Plan
  <2>2. r.op \in CallNames
    BY <1>5, OpcodesAnswered DEF Answered, Simple, NoCallOfIts
  <2>3. r.op \notin Closing
    BY <1>5 DEF Simple, Special, Closing
  <2> QED
    BY <1>5, <2>1, <2>2, <2>3, KnownOne DEF Simple
<1> QED
  BY <1>1, <1>2, <1>3, <1>4, <1>5 DEF Simple

(* What all calls together stand for.                                      *)
LEMMA StraightDone ==
  ASSUME NEW r, r.op \in DOMAIN Opcodes, r.op \notin Special,
         \A call \in CallNames : Listed(Plan(r), call) => Did(r, call)
  PROVE  WasDone(r)
<1>2. \A c \in CallNames : Listed(<<c>>, c)
  BY KnownOne
<1>3. CASE r.op = "setattr"
  <2>1. /\ "mode" \in r.bits => Did(r, "chmod")
        /\ "owner" \in r.bits => Did(r, "chown")
        /\ "size" \in r.bits => Did(r, "truncate") \/ Did(r, "ftruncate")
        /\ {"atime", "mtime"} \subseteq r.bits => Did(r, "utimens")
        /\ Did(r, "getattr") \/ Did(r, "fgetattr")
    <3>1. Plan(r) = SetattrPlan(r)
      BY <1>3, PlanCalls
    <3>2. {"chmod", "chown", "truncate", "ftruncate", "utimens", "getattr", "fgetattr"} \subseteq CallNames
      BY DEF CallNames
    <3> QED
      BY <3>1, <3>2, SetattrCalls
  <2> QED
    BY <1>3, <2>1 DEF WasDone
<1>4. CASE r.op \in {"mkdir", "symlink", "link"}
  <2>1. Did(r, r.op)
    <3>1. r.op \in CallNames /\ "getattr" \in CallNames
      BY <1>4 DEF CallNames
    <3>2. Listed(Plan(r), r.op)
      BY <1>4, <3>1, PlanCalls, KnownTwo
    <3> QED
      BY <3>1, <3>2
  <2> QED
    BY <1>4, <2>1 DEF WasDone
<1>5. CASE r.op = "lookup"
  <2>1. Did(r, "getattr")
    BY <1>2, <1>5, PlanCalls DEF CallNames
  <2> QED
    BY <1>5, <2>1 DEF WasDone
<1>6. CASE r.op = "getattr"
  <2>1. Did(r, "getattr") \/ Did(r, "fgetattr")
    BY <1>2, <1>6, PlanCalls DEF CallNames
  <2> QED
    BY <1>6, <2>1 DEF WasDone
<1>7. CASE r.op = "unlink"
  <2>1. Did(r, "unlink") \/ Did(r, "rename")
    BY <1>2, <1>7, PlanCalls DEF CallNames
  <2> QED
    BY <1>7, <2>1 DEF WasDone
<1>8. CASE r.op \in {"getlk", "setlk"}
  <2>1. Did(r, "lock")
    BY <1>2, <1>8, PlanCalls DEF CallNames
  <2> QED
    BY <1>8, <2>1 DEF WasDone
<1>9. CASE Simple(r.op)
  <2>1. Did(r, r.op)
    BY <1>2, <1>9, PlanCalls
  <2>2. r.op = "ioctl" => "ioctl" \in Tried(r)
    <3>1. ASSUME r.op = "ioctl" PROVE "ioctl" \in Tried(r)
      <4>1. PICK i \in DOMAIN r.done : r.done[i] = <<"ioctl", "ok">>
        BY <2>1, <3>1 DEF Did
      <4>2. r.done[i][1] = "ioctl"
        BY <4>1
      <4> QED
        BY <4>2 DEF Tried
    <3> QED
      BY <3>1
  <2> QED
    BY <1>9, <2>1, <2>2 DEF WasDone, Simple, Special
<1> QED
  BY <1>3, <1>4, <1>5, <1>6, <1>7, <1>8, <1>9 DEF Simple
-----------------------------------------------------------------------------
(***************************************************************************)
(* A call: what is on record after it.                                     *)
(***************************************************************************)
LEMMA OneMoreDone ==
  ASSUME current.done \in Seq(CallNames \X Outcomes), NEW call \in CallNames, NEW res \in Outcomes,
         current'.done = Append(current.done, <<call, res>>)
  PROVE  /\ current'.done \in Seq(CallNames \X Outcomes) /\ current'.done # <<>>
         /\ \A c : Did(current, c)' <=> Did(current, c) \/ (c = call /\ res = "ok")
         /\ \A c : c \in Tried(current)' <=> c \in Tried(current) \/ c = call
         /\ LastIs(current, call, res)'
         /\ \A e : res \in {e, "odd"} => Blamed(current, e)'
         /\ \A e : call \in After /\ Blamed(current, e) => Blamed(current, e)'
         /\ (\A i \in DOMAIN current.done : current.done[i][2] = "ok") /\ res = "ok" =>
              \A i \in DOMAIN current'.done : current'.done[i][2] = "ok"
<1> DEFINE S == CallNames \X Outcomes
           d == current.done
           n == Len(d) + 1
           e0 == <<call, res>>
<1>1. d \in Seq(S) /\ e0 \in S /\ current'.done = Append(d, e0)
  OBVIOUS
<1>2. e0[1] = call /\ e0[2] = res
  OBVIOUS
<1> HIDE DEF S, e0
<1>3. /\ current'.done \in Seq(S) /\ Len(d) \in Nat /\ DOMAIN d = 1..Len(d) /\ DOMAIN current'.done = 1..n
      /\ Len(current'.done) = n /\ current'.done[n] = e0 /\ \A i \in 1..Len(d) : current'.done[i] = d[i]
  BY <1>1, SMTT(30)
<1>4. \A c : Did(current, c)' <=> Did(current, c) \/ (c = call /\ res = "ok")
  <2>1. \A c : e0 = <<c, "ok">> <=> c = call /\ res = "ok"
    BY DEF e0
  <2>2. \A i \in 1..n : i \in 1..Len(d) \/ i = n
    BY <1>3
  <2>3. 1..Len(d) \subseteq 1..n /\ n \in 1..n
    BY <1>3
  <2> HIDE DEF d, n
  <2>4. ASSUME NEW c PROVE Did(current, c)' <=> \E i \in 1..n : current'.done[i] = <<c, "ok">>
    BY <1>3 DEF Did
  <2>5. ASSUME NEW c PROVE Did(current, c) <=> \E i \in 1..Len(d) : d[i] = <<c, "ok">>
    BY <1>3 DEF Did, d
  <2> QED
    BY <1>3, <2>1, <2>2, <2>3, <2>4, <2>5
<1>5. \A c : c \in Tried(current)' <=> c \in Tried(current) \/ c = call
  <2>2. \A i \in 1..n : i \in 1..Len(d) \/ i = n
    BY <1>3
  <2>3. 1..Len(d) \subseteq 1..n /\ n \in 1..n
    BY <1>3
  <2> HIDE DEF d, n
  <2>4. ASSUME NEW c PROVE c \in Tried(current)' <=> \E i \in 1..n : current'.done[i][1] = c
    BY <1>3 DEF Tried
  <2>5. ASSUME NEW c PROVE c \in Tried(current) <=> \E i \in 1..Len(d) : d[i][1] = c
    BY <1>3 DEF Tried, d
  <2> QED
    BY <1>2, <1>3, <2>2, <2>3, <2>4, <2>5
<1>6. LastIs(current, call, res)'
  BY <1>3 DEF LastIs, e0
<1>7. ASSUME NEW e, res \in {e, "odd"} PROVE Blamed(current, e)'
  <2>1. n \in DOMAIN current'.done /\ current'.done[n][2] \in {e, "odd"}
    BY <1>2, <1>3, <1>7
  <2>2. \A j \in DOMAIN current'.done : ~(j > n)
    BY <1>3
  <2> QED
    BY <2>1, <2>2 DEF Blamed
<1>8. ASSUME NEW e, call \in After, Blamed(current, e) PROVE Blamed(current, e)'
  <2>1. PICK i \in 1..Len(d) : d[i][2] \in {e, "odd"} /\ \A j \in 1..Len(d) : j > i => d[j][1] \in After
    BY <1>3, <1>8 DEF Blamed
  <2>2. \A j \in DOMAIN current'.done : j \in 1..Len(d) \/ j = n
    BY <1>3
  <2>3. \A j \in DOMAIN current'.done : j > i => current'.done[j][1] \in After
    BY <1>2, <1>3, <1>8, <2>1, <2>2
  <2>4. i \in DOMAIN current'.done /\ current'.done[i][2] \in {e, "odd"}
    BY <1>3, <2>1
  <2> QED
    BY <2>3, <2>4 DEF Blamed
<1>9. ASSUME \A i \in DOMAIN d : d[i][2] = "ok", res = "ok", NEW i \in DOMAIN current'.done
      PROVE  current'.done[i][2] = "ok"
  <2>1. i \in 1..Len(d) \/ i = n
    BY <1>3
  <2> QED
    BY <1>2, <1>3, <1>9, <2>1
<1>10. current'.done # <<>>
  <2>1. Len(current'.done) # 0
    BY <1>3
  <2> QED
    BY <2>1
<1> QED
  BY <1>3, <1>4, <1>5, <1>6, <1>7, <1>8, <1>9, <1>10 DEF S

CallRecorded(res) ==
  /\ CallMade(res) /\ res \in Outcomes /\ TheCall \in CallNames
  /\ current'.done = Append(current.done, <<TheCall, res>>)
  /\ current'.bits = current.bits /\ current'.fi = current.fi /\ UNCHANGED <<fs, conn>>
  /\ res = "odd" => current.op = "create" /\ TheCall = "fgetattr"
  /\ current.op \in {"getlk", "setlk", "flock"} => called'.op # "none"

LEMMA ACallIsRecorded ==
  ASSUME HandlesInv, AnswersInv, CallFs
  PROVE  \E res : CallRecorded(res)
<1>1. /\ OpsTypeOK /\ InCall(current) /\ Known(current.plan) /\ current.plan # <<>>
      /\ current.answer # "lost" => Answering(current)
  BY DEF HandlesInv, AnswersInv, CallFs
<1> DEFINE path == PathGiven(current, TheCall)
<1>2. PICK res \in Results([current EXCEPT !.path = path], TheCall) :
        LET rest == Rest(current, TheCall, res)
            err == Error(current, TheCall, res)
        IN  /\ current' = [current EXCEPT !.err = err, !.plan = rest, !.done = Append(current.done, <<TheCall, res>>),
                                          !.at = IF rest # <<>> THEN "call"
                                                 ELSE IF current.answer = "lost" THEN "answered" ELSE "reply"]
            /\ held' = Held(current, TheCall, res)
            /\ called' = IF Server(TheCall, path) = "none" THEN called ELSE [op |-> Server(TheCall, path), path |-> path]
  BY DEF CallFs, TheCall
<1> HIDE DEF path
<1> DEFINE rest == Rest(current, TheCall, res)
           err == Error(current, TheCall, res)
           done == Append(current.done, <<TheCall, res>>)
<1>3. /\ current'.plan = rest /\ current'.err = err /\ current'.done = done
      /\ current'.op = current.op /\ current'.node = current.node /\ current'.answer = current.answer
      /\ current'.bits = current.bits /\ current'.fi = current.fi
      /\ current'.at = IF rest # <<>> THEN "call" ELSE IF current.answer = "lost" THEN "answered" ELSE "reply"
  <2> HIDE DEF rest, err, done
  <2> QED
    BY <1>1, <1>2 DEF rest, err, done, OpsTypeOK, IdleReq
<1>4. CallMade(res)
  BY <1>2, <1>3 DEF CallMade
<1>5. TheCall \in CallNames
  BY <1>1 DEF Known, TheCall
<1>6. [current EXCEPT !.path = path].op = current.op
  BY <1>1 DEF OpsTypeOK, IdleReq
<1>7. res \in Outcomes /\ (res = "odd" => current.op = "create" /\ TheCall = "fgetattr")
  <2>1. Calls[TheCall].absent \in {"ok", "ENOSYS"}
    BY <1>5, CallsAre
  <2>2. res = Calls[TheCall].absent \/ res \in {"ok", "EIO", "ENOSYS"}
        \/ (res = "odd" /\ [current EXCEPT !.path = path].op = "create" /\ TheCall = "fgetattr")
    BY DEF Results
  <2> QED
    BY <1>6, <2>1, <2>2 DEF Outcomes
<1>8. UNCHANGED <<fs, conn>>
  BY DEF CallFs
<1>9. ASSUME current.op \in {"getlk", "setlk", "flock"} PROVE called'.op # "none"
  <2>1. current.answer # "lost" /\ current.op \notin Special /\ current.op \in DOMAIN Opcodes
    BY <1>1, <1>9 DEF InCall, Sent, Opening, Special
  <2>2. current.plan = Plan(current)
    BY <1>1, <1>9, <2>1 DEF Answering, InStraight, Alone
  <2>3. /\ current.op \in {"getlk", "setlk"} => current.plan = <<"lock">> /\ "lock" \in fs.ops
        /\ current.op = "flock" => current.plan = <<"flock">> /\ "flock" \in fs.ops
    BY <1>9, <2>1, <2>2, PlanCalls DEF Simple, Special, AnswersInv, LockAsked, CallFs
  <2>4. PICK lock \in {"lock", "flock"} : TheCall = lock /\ lock \in fs.ops
    BY <1>9, <2>3 DEF TheCall
  <2>5. Servers(lock) = <<lock>>
    BY CallsAre
  <2>6. CanServe(lock, lock, path)
    BY <2>4 DEF CanServe
  <2>7. {i \in DOMAIN Servers(lock) : CanServe(lock, Servers(lock)[i], path)} = {1}
    BY <2>5, <2>6
  <2>8. Server(lock, path) = lock
    <3>1. (CHOOSE i \in {1} : \A j \in {1} : i <= j) = 1
      OBVIOUS
    <3> QED
      BY <2>5, <2>7, <3>1 DEF Server
  <2> QED
    BY <1>2, <2>4, <2>8
<1> QED
  BY <1>3, <1>4, <1>5, <1>7, <1>8, <1>9 DEF CallRecorded

(***************************************************************************)
(* What a call leads to: more calls, or an answer.                         *)
(***************************************************************************)
LEMMA HeadIsListed ==
  ASSUME NEW p, Known(p), p # <<>>
  PROVE  /\ Head(p) \in CallNames /\ Known(Tail(p))
         /\ \A c : Listed(p, c) <=> c = Head(p) \/ Listed(Tail(p), c)
<1> DEFINE S == CallNames
           t == Tail(p)
<1>1. p \in Seq(S)
  BY DEF Known
<1> HIDE DEF S
<1>2. /\ t \in Seq(S) /\ Head(p) \in S /\ Len(p) \in Nat /\ Len(p) > 0 /\ DOMAIN p = 1..Len(p)
      /\ DOMAIN t = 1..(Len(p) - 1) /\ Head(p) = p[1] /\ \A i \in 1..(Len(p) - 1) : t[i] = p[i + 1]
  BY <1>1
<1> HIDE DEF t
<1>3. ASSUME NEW c, Listed(p, c) PROVE c = Head(p) \/ Listed(t, c)
  <2>1. PICK i \in 1..Len(p) : p[i] = c
    BY <1>2, <1>3 DEF Listed
  <2>2. CASE i = 1
    BY <1>2, <2>1, <2>2
  <2>3. CASE i # 1
    <3>1. i - 1 \in 1..(Len(p) - 1) /\ (i - 1) + 1 = i
      BY <1>2, <2>3
    <3> QED
      BY <1>2, <2>1, <3>1 DEF Listed
  <2> QED
    BY <2>2, <2>3
<1>4. ASSUME NEW c, Listed(t, c) PROVE Listed(p, c)
  <2>1. PICK i \in 1..(Len(p) - 1) : t[i] = c
    BY <1>2, <1>4 DEF Listed
  <2>2. i + 1 \in 1..Len(p)
    BY <1>2
  <2> QED
    BY <1>2, <2>1, <2>2 DEF Listed
<1>5. Listed(p, Head(p))
  <2>1. 1 \in DOMAIN p
    BY <1>2
  <2> QED
    BY <1>2, <2>1 DEF Listed
<1> QED
  BY <1>2, <1>3, <1>4, <1>5 DEF Known, S, t

LEMMA RestKnown ==
  ASSUME NEW r, Known(r.plan), r.plan # <<>>, NEW call, NEW res
  PROVE  Known(Rest(r, call, res))
<1>1. Known(Tail(r.plan)) /\ Known(<<>>)
  BY HeadIsListed DEF Known
<1>2. Known(<<"fgetattr", "release">>) /\ Known(<<"mknod", "getattr">>) /\ Known(<<"release">>) /\ Known(<<"fgetattr">>)
  BY DEF Known, CallNames
<1>3. Calling(RemovesHidden(r), "unlink") \in {<<>>, <<"unlink">>} /\ Known(<<"unlink">>)
  BY DEF Calling, Known, CallNames
<1>4. Rest(r, call, res) \in {<<>>, <<"fgetattr", "release">>, <<"mknod", "getattr">>, <<"release">>, <<"fgetattr">>,
                              Tail(r.plan), Calling(RemovesHidden(r), "unlink")}
  <2> DEFINE err == Error(r, call, res)
             hidden == Calling(RemovesHidden(r), "unlink")
  <2> HIDE DEF err, hidden
  <2> QED
    BY DEF Rest, err, hidden
<1> QED
  BY <1>1, <1>2, <1>3, <1>4

LEMMA Succeeds ==
  ASSUME InCall(current), NEW res, CallRecorded(res), Answer(current') = Kind(current'.op), WasDone(current')
  PROVE  Just(Answer(current))'
BY DEF CallRecorded, CallMade, Just

LEMMA FailsWith ==
  ASSUME InCall(current), NEW res, CallRecorded(res), NEW err \in Refusals \cup {"odd"}, Answer(current') = err, Blamed(current, err)'
  PROVE  Just(Answer(current))'
<1>1. Kind(current'.op) # err
  BY OpcodesAnswered DEF Answered, InCall, Sent, CallRecorded, CallMade, Kind
<1> QED
  BY <1>1 DEF CallRecorded, CallMade, Just

LEMMA AnswersNext ==
  ASSUME HandlesInv, AnswersInv, CallFs, NEW res, CallRecorded(res),
         current'.plan # <<>> /\ current.answer # "lost" => Answering(current)',
         current'.plan = <<>> /\ current.answer # "lost" => Just(Answer(current))'
  PROVE  AnswersInv'
<1>1. Known(current'.plan)
  BY RestKnown DEF CallRecorded, CallMade, AnswersInv, CallFs
<1>2. current'.done \in Seq(CallNames \X Outcomes)
  BY OneMoreDone DEF AnswersInv, CallRecorded
<1>3. LocksAgreed' /\ LockAsked(current.op)'
  BY DEF AnswersInv, LocksAgreed, LockAsked, CallRecorded, CallMade, CallFs
<1>4. /\ current'.at = IF current'.plan # <<>> THEN "call" ELSE IF current.answer = "lost" THEN "answered" ELSE "reply"
      /\ current'.answer = current.answer
  BY DEF CallRecorded, CallMade
<1>5. AnswersTrue'
  BY <1>4 DEF AnswersTrue, WasAnswered
<1> QED
  BY <1>1, <1>2, <1>3, <1>4, <1>5 DEF AnswersInv

LEMMA PlanSame ==
  ASSUME NEW r, NEW s, r.op = s.op, r.bits = s.bits, r.fi = s.fi
  PROVE  Plan(r) = Plan(s)
BY DEF Plan, SetattrPlan, Getattr, SetsTimes, ReleasePlan

LEMMA StraightAnswers ==
  ASSUME HandlesInv, AnswersInv, CallFs, NEW res, CallRecorded(res), current.answer # "lost", current.op \notin Special
  PROVE  AnswersInv'
<1>1. /\ InCall(current) /\ Known(current.plan) /\ current.plan # <<>> /\ InStraight(current)
      /\ current.op \in DOMAIN Opcodes /\ current.done \in Seq(CallNames \X Outcomes)
  BY DEF HandlesInv, AnswersInv, CallFs, Answering, InCall, Sent
<1>2. /\ TheCall \in CallNames /\ res \in Outcomes /\ current'.done = Append(current.done, <<TheCall, res>>)
      /\ current'.op = current.op /\ current'.bits = current.bits /\ current'.fi = current.fi /\ UNCHANGED fs
      /\ current'.plan = Rest(current, TheCall, res) /\ current'.err = Error(current, TheCall, res)
  BY DEF CallRecorded, CallMade
<1>3. TheCall \notin Closing /\ \A c : Listed(current.plan, c) <=> c = TheCall \/ Listed(Tail(current.plan), c)
  BY <1>1, HeadIsListed DEF InStraight, TheCall
<1>4. res # "odd"
  BY DEF CallRecorded, Special
<1>5. current'.err = res
  BY <1>2, <1>3, <1>4 DEF Error, Special, Closing
<1>6. current'.plan = IF res = "ok" THEN Tail(current.plan) ELSE <<>>
  <2>1. Error(current, TheCall, res) = res
    BY <1>2, <1>5
  <2> QED
    BY <1>2, <2>1 DEF Rest, Special
<1>7. /\ \A c : Did(current, c)' <=> Did(current, c) \/ (c = TheCall /\ res = "ok")
      /\ TheCall \in Tried(current)' /\ current'.done # <<>> /\ Blamed(current, res)'
      /\ (\A i \in DOMAIN current.done : current.done[i][2] = "ok") /\ res = "ok" =>
           \A i \in DOMAIN current'.done : current'.done[i][2] = "ok"
  BY <1>1, <1>2, OneMoreDone
<1>8. Plan(current') = Plan(current) /\ Plan(current)' = Plan(current')
  <2>1. Plan(current') = Plan(current)
    BY <1>2, PlanSame
  <2>2. Plan(current)' = Plan(current')
    BY <1>2 DEF Plan, SetattrPlan, Getattr, SetsTimes, ReleasePlan
  <2> QED
    BY <2>1, <2>2
<1>9. current.op \in Alone => current.plan = <<TheCall>> /\ Tail(current.plan) = <<>>
  <2>1. current.op \in Alone => \E c \in CallNames : current.plan = <<c>>
    BY <1>1, PlanCalls DEF InStraight, Alone, Simple, Special, CallNames
  <2>2. ASSUME NEW c \in CallNames, current.plan = <<c>> PROVE current.plan = <<TheCall>> /\ Tail(current.plan) = <<>>
    <3>1. TheCall = c /\ Tail(<<c>>) = <<>>
      BY <2>2 DEF TheCall
    <3> QED
      BY <2>2, <3>1
  <2> QED
    BY <2>1, <2>2
<1>10. CASE res = "ok" /\ Tail(current.plan) # <<>>
  <2>1. \A c \in CallNames : Listed(Plan(current'), c) => Did(current, c)' \/ Listed(current'.plan, c)
    BY <1>1, <1>3, <1>6, <1>7, <1>8, <1>10 DEF InStraight
  <2>2. \A c \in Closing : ~Listed(current'.plan, c)
    BY <1>1, <1>3, <1>6, <1>10 DEF InStraight
  <2>3. AllWell(current)'
    BY <1>1, <1>5, <1>7, <1>10 DEF InStraight, AllWell
  <2>4. InStraight(current)'
    BY <1>2, <1>8, <1>9, <1>10, <2>1, <2>2, <2>3 DEF InStraight
  <2>5. Answering(current)'
    BY <1>2, <2>4 DEF Answering, Special
  <2> QED
    BY <1>6, <1>10, <2>5, AnswersNext
<1>11. CASE res = "ok" /\ Tail(current.plan) = <<>>
  <2>1. \A c : ~Listed(<<>>, c)
    BY DEF Listed
  <2>2. \A c \in CallNames : Listed(Plan(current'), c) => Did(current', c)
    <3>1. \A c : Did(current, c)' <=> Did(current', c)
      BY DEF Did
    <3> QED
      BY <1>1, <1>3, <1>7, <1>8, <1>11, <2>1, <3>1 DEF InStraight
  <2>3. WasDone(current')
    BY <1>1, <1>2, <2>2, StraightDone
  <2>4. Answer(current') = Kind(current'.op)
    BY <1>5, <1>11 DEF Answer
  <2> QED
    BY <1>1, <1>6, <1>11, <2>3, <2>4, Succeeds, AnswersNext
<1>12. CASE res # "ok" /\ current.op = "ioctl"
  <2>1. Answer(current') = Kind(current'.op)
    BY <1>2, <1>7, <1>12 DEF Answer
  <2>2. TheCall = "ioctl"
    <3>1. current.plan = <<"ioctl">>
      BY <1>1, <1>12, PlanCalls DEF InStraight, Alone, Simple, Special
    <3> QED
      BY <3>1 DEF TheCall
  <2>3. WasDone(current')
    BY <1>2, <1>7, <1>12, <2>2 DEF WasDone, Tried
  <2> QED
    BY <1>1, <1>6, <1>12, <2>1, <2>3, Succeeds, AnswersNext
<1>13. CASE res # "ok" /\ current.op # "ioctl"
  <2>1. res \in Refusals
    BY <1>2, <1>4, <1>13 DEF Outcomes, Refusals
  <2>2. Answer(current') = res
    BY <1>2, <1>5, <1>13 DEF Answer, Special
  <2> QED
    BY <1>1, <1>6, <1>7, <1>13, <2>1, <2>2, FailsWith, AnswersNext
<1> QED
  BY <1>10, <1>11, <1>12, <1>13
-----------------------------------------------------------------------------
(***************************************************************************)
(* The requests that call several operations, whatever each returns.       *)
(***************************************************************************)
LEMMA LastMeans ==
  ASSUME NEW r, r.done \in Seq(CallNames \X Outcomes), NEW c, NEW e, LastIs(r, c, e)
  PROVE  c \in CallNames /\ e \in Outcomes /\ Blamed(r, e) /\ (e = "ok" => Did(r, c))
<1> DEFINE n == Len(r.done)
<1>1. n \in DOMAIN r.done /\ n \in Nat /\ DOMAIN r.done = 1..n /\ r.done[n] = <<c, e>>
  BY DEF LastIs
<1>2. <<c, e>> \in CallNames \X Outcomes
  BY <1>1
<1>3. c \in CallNames /\ e \in Outcomes
  BY <1>2
<1>4. r.done[n][2] = e
  BY <1>1
<1>5. \A j \in DOMAIN r.done : ~(j > n)
  BY <1>1
<1> QED
  BY <1>1, <1>3, <1>4, <1>5 DEF Blamed, Did

Recorded(call, res) ==
  /\ InCall(current) /\ current.done \in Seq(CallNames \X Outcomes)
  /\ current'.op = current.op /\ current'.answer = current.answer
  /\ current'.plan = Rest(current, call, res) /\ current'.err = Error(current, call, res)
  /\ \A c : Did(current, c)' <=> Did(current, c) \/ (c = call /\ res = "ok")
  /\ \A c : c \in Tried(current)' <=> c \in Tried(current) \/ c = call
  /\ LastIs(current, call, res)'
  /\ \A e : res \in {e, "odd"} => Blamed(current, e)'
  /\ \A e : call \in After /\ Blamed(current, e) => Blamed(current, e)'

LEMMA OneIsRecorded ==
  ASSUME HandlesInv, AnswersInv, CallFs, NEW res, CallRecorded(res), NEW call, TheCall = call
  PROVE  Recorded(call, res)
<1>1. InCall(current) /\ current.done \in Seq(CallNames \X Outcomes)
  BY DEF HandlesInv, AnswersInv, CallFs
<1>2. /\ call \in CallNames /\ res \in Outcomes /\ current'.done = Append(current.done, <<call, res>>)
      /\ current'.op = current.op /\ current'.answer = current.answer
      /\ current'.plan = Rest(current, call, res) /\ current'.err = Error(current, call, res)
  BY DEF CallRecorded, CallMade
<1>3. /\ \A c : Did(current, c)' <=> Did(current, c) \/ (c = call /\ res = "ok")
      /\ \A c : c \in Tried(current)' <=> c \in Tried(current) \/ c = call
      /\ LastIs(current, call, res)'
      /\ \A e : res \in {e, "odd"} => Blamed(current, e)'
      /\ \A e : call \in After /\ Blamed(current, e) => Blamed(current, e)'
  BY <1>1, <1>2, OneMoreDone
<1> QED
  BY <1>1, <1>2, <1>3 DEF Recorded

LEMMA MknodAnswers ==
  ASSUME HandlesInv, AnswersInv, CallFs, NEW res, CallRecorded(res), current.answer # "lost", current.op = "mknod"
  PROVE  AnswersInv'
<1>1. InMknod(current) /\ res \in {"ok", "EIO", "ENOSYS"}
  BY DEF AnswersInv, CallFs, Answering, CallRecorded, Outcomes
<1>2. ASSUME current'.plan # <<>>, current'.op = "mknod", InMknod(current)' PROVE AnswersInv'
  <2>1. Answering(current)'
    BY <1>2 DEF Answering, Special
  <2> QED
    BY <1>2, <2>1, AnswersNext
<1>3. ASSUME NEW err \in Refusals \cup {"odd"}, current'.plan = <<>>, current'.op = "mknod", current'.err = err,
             Blamed(current, err)', InCall(current)
      PROVE  AnswersInv'
  <2>1. Answer(current') = err
    BY <1>3 DEF Answer, Refusals
  <2> QED
    BY <1>3, <2>1, FailsWith, AnswersNext
<1>4. ASSUME current'.plan = <<>>, current'.op = "mknod", current'.err = "ok", InCall(current),
             (Did(current, "create")' /\ Did(current, "fgetattr")') \/ (Did(current, "mknod")' /\ Did(current, "getattr")')
      PROVE  AnswersInv'
  <2>1. WasDone(current')
    BY <1>4 DEF WasDone, Did
  <2>2. Answer(current') = Kind(current'.op)
    BY <1>4 DEF Answer
  <2> QED
    BY <1>4, <2>1, <2>2, Succeeds, AnswersNext
<1>5. CASE current.plan = <<"create">>
  <2>1. TheCall = "create"
    BY <1>5 DEF TheCall
  <2>2. Recorded("create", res)
    BY <2>1, OneIsRecorded
  <2>3. /\ current'.err = res
        /\ current'.plan = IF res = "ok" THEN <<"fgetattr", "release">>
                           ELSE IF res = "ENOSYS" THEN <<"mknod", "getattr">> ELSE <<>>
    BY <1>1, <2>2 DEF Recorded, Error, Rest
  <2>4. res \in {"ok", "ENOSYS"} => InMknod(current)' /\ current'.plan # <<>>
    BY <2>2, <2>3 DEF Recorded, InMknod
  <2>5. res = "EIO" => current'.plan = <<>> /\ Blamed(current, "EIO")'
    BY <2>2, <2>3 DEF Recorded
  <2>6. current'.op = "mknod" /\ InCall(current)
    BY <2>2 DEF Recorded
  <2> QED
    BY <1>1, <1>2, <1>3, <2>3, <2>4, <2>5, <2>6 DEF Refusals
<1>6. CASE current.plan = <<"fgetattr", "release">> /\ Did(current, "create")
  <2>1. TheCall = "fgetattr"
    BY <1>6 DEF TheCall
  <2>2. Recorded("fgetattr", res)
    BY <2>1, OneIsRecorded
  <2>3. current'.err = res /\ current'.plan = <<"release">> /\ current'.op = "mknod"
    BY <1>1, <2>2 DEF Recorded, Error, Rest
  <2>4. LastIs(current, "fgetattr", current.err)' /\ Did(current, "create")'
    BY <1>6, <2>2, <2>3 DEF Recorded, LastIs
  <2>5. InMknod(current)' /\ current'.plan # <<>>
    BY <2>3, <2>4 DEF InMknod
  <2> QED
    BY <1>2, <2>3, <2>5
<1>7. CASE current.plan = <<"release">> /\ Did(current, "create") /\ LastIs(current, "fgetattr", current.err)
  <2>1. TheCall = "release"
    BY <1>7 DEF TheCall
  <2>2. Recorded("release", res)
    BY <2>1, OneIsRecorded
  <2>3. PICK err : err = current.err
    OBVIOUS
  <2>4. err \in Outcomes /\ Blamed(current, err) /\ (err = "ok" => Did(current, "fgetattr"))
    BY <1>7, <2>2, <2>3, LastMeans DEF Recorded
  <2>5. /\ current'.err = err /\ current'.op = "mknod" /\ InCall(current)
        /\ current'.plan = IF err = "ENOSYS" THEN <<"mknod", "getattr">> ELSE <<>>
    BY <2>2, <2>3 DEF Recorded, Error, Rest
  <2>6. Blamed(current, err)' /\ Did(current, "create")' /\ (err = "ok" => Did(current, "fgetattr")')
    BY <1>7, <2>2, <2>4 DEF Recorded, After
  <2>7. CASE err = "ENOSYS"
    <3>1. InMknod(current)' /\ current'.plan # <<>>
      BY <2>5, <2>7 DEF InMknod
    <3> QED
      BY <1>2, <2>5, <3>1
  <2>8. CASE err = "ok"
    BY <1>4, <2>5, <2>6, <2>8
  <2>9. CASE err \in {"EIO", "odd"}
    BY <1>3, <2>5, <2>6, <2>9 DEF Refusals
  <2> QED
    BY <2>4, <2>7, <2>8, <2>9 DEF Outcomes
<1>8. CASE current.plan = <<"mknod", "getattr">>
  <2>1. TheCall = "mknod"
    BY <1>8 DEF TheCall
  <2>2. Recorded("mknod", res)
    BY <2>1, OneIsRecorded
  <2>3. /\ current'.err = res /\ current'.op = "mknod" /\ InCall(current)
        /\ current'.plan = IF res = "ok" THEN <<"getattr">> ELSE <<>>
    BY <1>1, <1>8, <2>2 DEF Recorded, Error, Rest
  <2>4. CASE res = "ok"
    <3>1. Did(current, "mknod")'
      BY <2>2, <2>4 DEF Recorded
    <3>2. InMknod(current)' /\ current'.plan # <<>>
      BY <2>3, <2>4, <3>1 DEF InMknod
    <3> QED
      BY <1>2, <2>3, <3>2
  <2>5. CASE res # "ok"
    BY <1>1, <1>3, <2>2, <2>3, <2>5 DEF Recorded, Refusals
  <2> QED
    BY <2>4, <2>5
<1>9. CASE current.plan = <<"getattr">> /\ Did(current, "mknod")
  <2>1. TheCall = "getattr"
    BY <1>9 DEF TheCall
  <2>2. Recorded("getattr", res)
    BY <2>1, OneIsRecorded
  <2>3. current'.err = res /\ current'.op = "mknod" /\ InCall(current) /\ current'.plan = <<>>
    BY <1>1, <1>9, <2>2 DEF Recorded, Error, Rest
  <2>4. CASE res = "ok"
    BY <1>4, <1>9, <2>2, <2>3, <2>4 DEF Recorded
  <2>5. CASE res # "ok"
    BY <1>1, <1>3, <2>2, <2>3, <2>5 DEF Recorded, Refusals
  <2> QED
    BY <2>4, <2>5
<1> QED
  BY <1>1, <1>5, <1>6, <1>7, <1>8, <1>9 DEF InMknod

LEMMA CreateAnswers ==
  ASSUME HandlesInv, AnswersInv, CallFs, NEW res, CallRecorded(res), current.answer # "lost", current.op = "create"
  PROVE  AnswersInv'
<1>1. InCreate(current) /\ res \in {"ok", "EIO", "ENOSYS", "odd"}
  BY DEF AnswersInv, CallFs, Answering, CallRecorded, Outcomes
<1>2. ASSUME current'.plan # <<>>, current'.op = "create", InCreate(current)' PROVE AnswersInv'
  <2>1. Answering(current)'
    BY <1>2 DEF Answering, Special
  <2> QED
    BY <1>2, <2>1, AnswersNext
<1>3. ASSUME NEW err \in Refusals, current'.plan = <<>>, current'.op = "create", current'.err = err,
             Blamed(current, err)', InCall(current)
      PROVE  AnswersInv'
  <2>1. Answer(current') = err
    BY <1>3 DEF Answer, Refusals
  <2> QED
    BY <1>3, <2>1, FailsWith, AnswersNext
<1>4. CASE current.plan = <<"create">>
  <2>1. TheCall = "create"
    BY <1>4 DEF TheCall
  <2>2. Recorded("create", res) /\ res # "odd"
    BY <2>1, OneIsRecorded DEF CallRecorded
  <2>3. /\ current'.err = res /\ current'.op = "create" /\ InCall(current)
        /\ current'.plan = IF res = "ok" THEN <<"fgetattr">> ELSE <<>>
    BY <1>1, <2>2 DEF Recorded, Error, Rest
  <2>4. CASE res = "ok"
    <3>1. Did(current, "create")'
      BY <2>2, <2>4 DEF Recorded
    <3>2. InCreate(current)' /\ current'.plan # <<>>
      BY <2>3, <2>4, <3>1 DEF InCreate
    <3> QED
      BY <1>2, <2>3, <3>2
  <2>5. CASE res # "ok"
    BY <1>1, <1>3, <2>2, <2>3, <2>5 DEF Recorded, Refusals
  <2> QED
    BY <2>4, <2>5
<1>5. CASE current.plan = <<"fgetattr">> /\ Did(current, "create")
  <2>1. TheCall = "fgetattr"
    BY <1>5 DEF TheCall
  <2>2. Recorded("fgetattr", res)
    BY <2>1, OneIsRecorded
  <2>3. PICK err : err = IF res = "odd" THEN "EIO" ELSE res
    OBVIOUS
  <2>4. Error(current, "fgetattr", res) = err
    BY <1>1, <2>3 DEF Error
  <2>5. /\ current'.err = err /\ current'.op = "create" /\ InCall(current)
        /\ current'.plan = IF err = "ok" THEN <<>> ELSE <<"release">>
    BY <2>2, <2>4 DEF Recorded, Rest
  <2>6. CASE err = "ok"
    <3>1. Did(current', "create")
      BY <1>5, <2>2 DEF Recorded, Did
    <3>2. WasDone(current')
      BY <2>5, <3>1 DEF WasDone
    <3>3. Answer(current') = Kind(current'.op)
      BY <2>5, <2>6 DEF Answer
    <3> QED
      BY <2>5, <2>6, <3>2, <3>3, Succeeds, AnswersNext
  <2>7. CASE err # "ok"
    <3>1. err \in Refusals /\ Blamed(current, err)'
      BY <1>1, <2>2, <2>3, <2>7 DEF Recorded, Refusals
    <3>2. InCreate(current)' /\ current'.plan # <<>>
      BY <2>5, <2>7, <3>1 DEF InCreate
    <3> QED
      BY <1>2, <2>5, <3>2
  <2> QED
    BY <2>6, <2>7
<1>6. CASE current.plan = <<"release">> /\ current.err \in Refusals /\ Blamed(current, current.err)
  <2>1. TheCall = "release"
    BY <1>6 DEF TheCall
  <2>2. Recorded("release", res)
    BY <2>1, OneIsRecorded
  <2>3. PICK err : err = current.err
    OBVIOUS
  <2>4. err \in Refusals /\ err # "ok" /\ Blamed(current, err)
    BY <1>6, <2>3 DEF Refusals
  <2>5. Blamed(current, err)'
    BY <2>2, <2>4 DEF Recorded, After
  <2>6. current'.err = err /\ current'.op = "create" /\ InCall(current) /\ current'.plan = <<>>
    BY <2>2, <2>3, <2>4 DEF Recorded, Error, Rest
  <2> QED
    BY <1>3, <2>4, <2>5, <2>6
<1> QED
  BY <1>1, <1>4, <1>5, <1>6 DEF InCreate

LEMMA FlushAnswers ==
  ASSUME HandlesInv, AnswersInv, CallFs, NEW res, CallRecorded(res), current.answer # "lost", current.op = "flush"
  PROVE  AnswersInv'
<1>1. InFlush(current) /\ res \in {"ok", "EIO", "ENOSYS"}
  BY DEF AnswersInv, CallFs, Answering, CallRecorded, Outcomes
<1>2. CASE current.plan = <<"flush", "lock">>
  <2>1. TheCall = "flush"
    BY <1>2 DEF TheCall
  <2>2. Recorded("flush", res)
    BY <2>1, OneIsRecorded
  <2>3. current'.err = res /\ current'.op = "flush" /\ current'.plan = <<"lock">>
    BY <1>1, <1>2, <2>2 DEF Recorded, Error, Rest
  <2>4. LastIs(current, "flush", current.err)'
    BY <2>2, <2>3 DEF Recorded, LastIs
  <2>5. InFlush(current)' /\ current'.plan # <<>>
    BY <2>3, <2>4 DEF InFlush
  <2>6. Answering(current)'
    BY <2>3, <2>5 DEF Answering, Special
  <2> QED
    BY <2>5, <2>6, AnswersNext
<1>3. CASE current.plan = <<"lock">> /\ LastIs(current, "flush", current.err)
  <2>1. TheCall = "lock"
    BY <1>3 DEF TheCall
  <2>2. Recorded("lock", res)
    BY <2>1, OneIsRecorded
  <2>3. PICK err : err = current.err
    OBVIOUS
  <2>4. err \in Outcomes /\ Blamed(current, err) /\ (err = "ok" => Did(current, "flush"))
    BY <1>3, <2>2, <2>3, LastMeans DEF Recorded
  <2>5. /\ current'.err = IF res # "ENOSYS" /\ err = "ENOSYS" THEN "ok" ELSE err
        /\ current'.op = "flush" /\ InCall(current) /\ current'.plan = <<>>
    BY <1>3, <2>2, <2>3 DEF Recorded, Error, Rest
  <2>6. CASE err = "ok" \/ (res # "ENOSYS" /\ err = "ENOSYS")
    <3>1. err = "ok" => Did(current', "flush")
      BY <2>2, <2>4 DEF Recorded, Did
    <3>2. res = "ok" => Did(current', "lock")
      BY <2>2 DEF Recorded, Did
    <3>3. res = "EIO" => <<"lock", "EIO">> \in {current'.done[i] : i \in DOMAIN current'.done}
      <4>1. ASSUME res = "EIO" PROVE Len(current'.done) \in DOMAIN current'.done
        <5>1. current'.done \in Seq(CallNames \X Outcomes) /\ Len(current'.done) > 0
          BY <2>2, OneMoreDone DEF Recorded, LastIs, CallRecorded
        <5> QED
          BY <5>1
      <4> QED
        BY <2>2, <4>1 DEF Recorded, LastIs
    <3>4. WasDone(current')
      BY <1>1, <2>5, <2>6, <3>1, <3>2, <3>3 DEF WasDone
    <3>5. Answer(current') = Kind(current'.op)
      BY <2>5, <2>6 DEF Answer
    <3> QED
      BY <2>5, <3>4, <3>5, Succeeds, AnswersNext
  <2>7. CASE ~(err = "ok" \/ (res # "ENOSYS" /\ err = "ENOSYS"))
    <3>1. Answer(current') = err /\ err \in Refusals \cup {"odd"}
      BY <2>4, <2>5, <2>7 DEF Answer, Outcomes, Refusals
    <3>2. Blamed(current, err)'
      BY <2>2, <2>4 DEF Recorded, After
    <3> QED
      BY <2>5, <3>1, <3>2, FailsWith, AnswersNext
  <2> QED
    BY <2>6, <2>7
<1> QED
  BY <1>1, <1>2, <1>3 DEF InFlush

LEMMA ReleaseAnswers ==
  ASSUME HandlesInv, AnswersInv, CallFs, NEW res, CallRecorded(res), current.answer # "lost", current.op = "release"
  PROVE  AnswersInv'
<1>1. InRelease(current) /\ res \in {"ok", "EIO", "ENOSYS"}
  BY DEF AnswersInv, CallFs, Answering, CallRecorded, Outcomes
<1>2. ASSUME current'.plan # <<>>, current'.op = "release", InRelease(current)' PROVE AnswersInv'
  <2>1. Answering(current)'
    BY <1>2 DEF Answering, Special
  <2> QED
    BY <1>2, <2>1, AnswersNext
<1>3. ASSUME NEW err, current'.plan = <<>>, current'.op = "release", current'.err = err, InCall(current),
             err \in {"ok", "ENOSYS"} \/ (err \in Refusals /\ Blamed(current, err)'), "release" \in Tried(current)'
      PROVE  AnswersInv'
  <2>1. CASE err \in {"ok", "ENOSYS"}
    <3>1. Answer(current') = Kind(current'.op)
      BY <1>3, <2>1 DEF Answer
    <3>2. "release" \in Tried(current')
      BY <1>3 DEF Tried
    <3>3. WasDone(current')
      BY <1>3, <3>2 DEF WasDone
    <3> QED
      BY <1>3, <3>1, <3>3, Succeeds, AnswersNext
  <2>2. CASE err \notin {"ok", "ENOSYS"}
    <3>1. Answer(current') = err
      BY <1>3, <2>2 DEF Answer
    <3> QED
      BY <1>3, <2>2, <3>1, FailsWith, AnswersNext
  <2> QED
    BY <2>1, <2>2
<1>4. PICK err : err = current.err
  OBVIOUS
<1>5. err \in {"ok", "ENOSYS"} \/ (err \in Refusals /\ Blamed(current, err))
  BY <1>1, <1>4 DEF InRelease
<1>6. CASE current.plan = <<"flush", "lock", "release">>
  <2>1. TheCall = "flush"
    BY <1>6 DEF TheCall
  <2>2. Recorded("flush", res)
    BY <2>1, OneIsRecorded
  <2>3. current'.err = res /\ current'.op = "release" /\ current'.plan = <<"lock", "release">>
    BY <1>1, <1>6, <2>2 DEF Recorded, Error, Rest
  <2>4. res \in {"ok", "ENOSYS"} \/ (res \in Refusals /\ Blamed(current, res)')
    BY <1>1, <2>2 DEF Recorded, Refusals
  <2>5. InRelease(current)' /\ current'.plan # <<>>
    BY <2>3, <2>4 DEF InRelease
  <2> QED
    BY <1>2, <2>3, <2>5
<1>7. CASE current.plan = <<"lock", "release">>
  <2>1. TheCall = "lock"
    BY <1>7 DEF TheCall
  <2>2. Recorded("lock", res)
    BY <2>1, OneIsRecorded
  <2>3. current'.err \in {err, "ok"} /\ current'.op = "release" /\ current'.plan = <<"release">>
    BY <1>4, <1>7, <2>2 DEF Recorded, Error, Rest
  <2>4. err \in {"ok", "ENOSYS"} \/ (err \in Refusals /\ Blamed(current, err)')
    BY <1>5, <2>2 DEF Recorded, After
  <2>5. InRelease(current)' /\ current'.plan # <<>>
    BY <2>3, <2>4 DEF InRelease
  <2> QED
    BY <1>2, <2>3, <2>5
<1>8. CASE current.plan = <<"release">>
  <2>1. TheCall = "release"
    BY <1>8 DEF TheCall
  <2>2. Recorded("release", res)
    BY <2>1, OneIsRecorded
  <2>3. /\ current'.err = err /\ current'.op = "release" /\ InCall(current)
        /\ current'.plan \in {<<>>, <<"unlink">>}
    BY <1>4, <2>2 DEF Recorded, Error, Rest, Calling
  <2>4. err \in {"ok", "ENOSYS"} \/ (err \in Refusals /\ Blamed(current, err)')
    BY <1>5, <2>2 DEF Recorded, After
  <2>5. "release" \in Tried(current)'
    BY <2>2 DEF Recorded
  <2>6. CASE current'.plan = <<>>
    BY <1>3, <2>3, <2>4, <2>5, <2>6
  <2>7. CASE current'.plan = <<"unlink">>
    <3>1. InRelease(current)' /\ current'.plan # <<>>
      BY <2>3, <2>4, <2>5, <2>7 DEF InRelease
    <3> QED
      BY <1>2, <2>3, <3>1
  <2> QED
    BY <2>3, <2>6, <2>7
<1>9. CASE current.plan = <<"unlink">> /\ "release" \in Tried(current)
  <2>1. TheCall = "unlink"
    BY <1>9 DEF TheCall
  <2>2. Recorded("unlink", res)
    BY <2>1, OneIsRecorded
  <2>3. current'.err = err /\ current'.op = "release" /\ InCall(current) /\ current'.plan = <<>>
    BY <1>4, <1>9, <2>2 DEF Recorded, Error, Rest
  <2>4. err \in {"ok", "ENOSYS"} \/ (err \in Refusals /\ Blamed(current, err)')
    BY <1>5, <2>2 DEF Recorded, After
  <2>5. "release" \in Tried(current)'
    BY <1>9, <2>2 DEF Recorded
  <2> QED
    BY <1>3, <2>3, <2>4, <2>5
<1> QED
  BY <1>1, <1>6, <1>7, <1>8, <1>9 DEF InRelease

LEMMA ReleasedirAnswers ==
  ASSUME HandlesInv, AnswersInv, CallFs, NEW res, CallRecorded(res), current.answer # "lost", current.op = "releasedir"
  PROVE  AnswersInv'
<1>1. current.plan = <<"releasedir">> /\ current.err = "ok"
  BY DEF AnswersInv, CallFs, Answering
<1>2. TheCall = "releasedir"
  BY <1>1 DEF TheCall
<1>3. Recorded("releasedir", res)
  BY <1>2, OneIsRecorded
<1>4. current'.err = "ok" /\ current'.op = "releasedir" /\ InCall(current) /\ current'.plan = <<>>
  <2>1. Error(current, "releasedir", res) = "ok"
    BY <1>1 DEF Error
  <2> QED
    BY <1>1, <1>3, <2>1 DEF Recorded, Rest
<1>5. "releasedir" \in Tried(current')
  BY <1>3 DEF Recorded, Tried
<1>6. WasDone(current')
  BY <1>4, <1>5 DEF WasDone
<1>7. Answer(current') = Kind(current'.op)
  BY <1>4 DEF Answer
<1> QED
  BY <1>4, <1>6, <1>7, Succeeds, AnswersNext

LEMMA CallAnswers ==
  ASSUME HandlesInv, AnswersInv, CallFs
  PROVE  AnswersInv'
<1>1. PICK res : CallRecorded(res)
  BY ACallIsRecorded
<1>2. CASE current.answer = "lost"
  BY <1>1, <1>2, AnswersNext
<1>3. CASE current.answer # "lost"
  BY <1>1, <1>3, StraightAnswers, MknodAnswers, CreateAnswers, FlushAnswers, ReleaseAnswers, ReleasedirAnswers
     DEF Special
<1> QED
  BY <1>2, <1>3
-----------------------------------------------------------------------------
(***************************************************************************)
(* The other steps.                                                        *)
(***************************************************************************)
LEMMA InitAnswers == OpsInit => AnswersInv
BY DEF OpsInit, AnswersInv, IdleReq, LocksAgreed, AnswersTrue, WasAnswered

LEMMA ConnectionAnswers ==
  ASSUME AnswersInv, UNCHANGED <<fs, current, called>>, LocksAgreed'
  PROVE  AnswersInv'
<1>1. current' = current /\ called' = called /\ fs' = fs
  OBVIOUS
<1>2. LockAsked(current.op)' <=> LockAsked(current.op)
  BY <1>1 DEF LockAsked
<1>3. Answering(current)' <=> Answering(current)
  BY <1>1 DEF Answering, InStraight, InMknod, InCreate, InFlush, InRelease, AllWell, Did, Tried, Blamed, LastIs, Listed,
              Plan, SetattrPlan, Getattr, SetsTimes, ReleasePlan
<1>4. Just(Answer(current))' <=> Just(Answer(current))
  BY <1>1 DEF Just, Answer, WasDone, Blamed, Did, Tried
<1>5. AnswersTrue' <=> AnswersTrue
  BY <1>1 DEF AnswersTrue, WasAnswered, Success, WasDone, Did, Tried
<1> QED
  BY <1>1, <1>2, <1>3, <1>4, <1>5 DEF AnswersInv

(* DoInit: a lock is agreed on if the file system has it.                  *)
LEMMA InitAnswersKeep ==
  ASSUME HandlesInv, AnswersInv, NEW major, NEW minor, DoInit(major, minor)
  PROVE  AnswersInv'
<1>1. UNCHANGED <<fs, current, called>>
  BY DEF DoInit
<1>2. conn' = conn \/ conn'.agreed = FsInit(Wanted(minor))
  BY DEF DoInit, HandlesInv, OpsTypeOK
<1>3. LocksAgreed'
  BY <1>1, <1>2 DEF AnswersInv, LocksAgreed, FsInit
<1> QED
  BY <1>1, <1>3, ConnectionAnswers

LEMMA DestroyAnswers ==
  ASSUME HandlesInv, AnswersInv, DoDestroy
  PROVE  AnswersInv'
<1>1. UNCHANGED <<fs, current, called>>
  BY DEF DoDestroy
<1>2. conn'.agreed = conn.agreed
  BY DEF DoDestroy, HandlesInv, OpsTypeOK
<1>3. LocksAgreed'
  BY <1>1, <1>2 DEF AnswersInv, LocksAgreed
<1> QED
  BY <1>1, <1>3, ConnectionAnswers

LEMMA SendAnswers ==
  ASSUME HandlesInv, AnswersInv, NEW op \in DOMAIN Opcodes, NEW h \in OpenFiles, SendRequest(op, h)
  PROVE  AnswersInv'
<1>1. Agreed(op) /\ UNCHANGED <<fs, conn>>
  BY DEF SendRequest
<1>2. current'.at = "sent" /\ current'.op = op /\ current'.done = <<>>
  BY DEF SendRequest, IdleReq
<1>3. LocksAgreed' /\ LockAsked(op)'
  BY <1>1 DEF AnswersInv, LocksAgreed, LockAsked, Agreed
<1>4. AnswersTrue'
  BY <1>2 DEF AnswersTrue, WasAnswered
<1> QED
  BY <1>2, <1>3, <1>4 DEF AnswersInv, LockAsked

LEMMA DispatchAnswers ==
  ASSUME HandlesInv, AnswersInv, Dispatch
  PROVE  AnswersInv'
<1>1. current.at = "sent" /\ current.op \in DOMAIN Opcodes /\ current.done = <<>> /\ LockAsked(current.op) /\ OpsTypeOK
  BY DEF Dispatch, HandlesInv, AnswersInv, Before, Sent
<1> DEFINE e == Refusal(current)
<1>2. /\ current'.op = current.op /\ current'.done = <<>> /\ current'.err = e
      /\ current'.at = IF e = "ok" THEN "path" ELSE "reply"
  <2> HIDE DEF e
  <2> QED
    BY <1>1 DEF Dispatch, e, OpsTypeOK, IdleReq
<1>3. UNCHANGED <<fs, conn, called>>
  BY DEF Dispatch
<1>4. e \in {"ok", "EIO", "EACCES", "ENOTTY"}
  BY <1>1 DEF Refusal, LockAsked
<1>5. LocksAgreed' /\ LockAsked(current.op)' /\ AnswersTrue'
  BY <1>1, <1>2, <1>3 DEF AnswersInv, LocksAgreed, LockAsked, AnswersTrue, WasAnswered
<1>6. ASSUME e # "ok" PROVE Just(Answer(current))'
  <2>1. Answer(current') = e /\ e \in Refusals /\ e # "ENOSYS"
    BY <1>2, <1>4, <1>6 DEF Answer, Refusals
  <2>2. Kind(current'.op) # e
    BY <1>1, <1>2, <2>1, OpcodesAnswered DEF Answered, Kind
  <2> QED
    BY <1>2, <2>1, <2>2 DEF Just
<1> QED
  BY <1>1, <1>2, <1>4, <1>5, <1>6 DEF AnswersInv

LEMMA TakePathAnswers ==
  ASSUME HandlesInv, AnswersInv, TakePath
  PROVE  AnswersInv'
<1>1. /\ current.at = "path" /\ current.op \in DOMAIN Opcodes /\ current.done = <<>> /\ LockAsked(current.op)
      /\ OpsTypeOK /\ current.answer = "none"
  BY DEF TakePath, HandlesInv, AnswersInv, Before, Sent
<1>2. PICK res \in PathResults(current) :
        LET goes == res[2] = "ok" \/ GoesOn(current)
        IN  current' = [current EXCEPT !.path = res[1], !.err = IF goes THEN "ok" ELSE res[2],
                                       !.plan = IF goes THEN Plan(current) ELSE <<>>,
                                       !.at = IF goes THEN "call" ELSE "reply"]
  BY DEF TakePath
<1> DEFINE goes == res[2] = "ok" \/ GoesOn(current)
           plan == Plan(current)
<1>3. /\ current'.op = current.op /\ current'.done = <<>> /\ current'.bits = current.bits /\ current'.fi = current.fi
      /\ current'.err = (IF goes THEN "ok" ELSE res[2]) /\ current'.plan = (IF goes THEN plan ELSE <<>>)
      /\ current'.at = (IF goes THEN "call" ELSE "reply") /\ current'.answer = "none"
  <2> HIDE DEF goes, plan
  <2> QED
    BY <1>1, <1>2 DEF goes, plan, OpsTypeOK, IdleReq
<1>4. UNCHANGED <<fs, conn, called>>
  BY DEF TakePath
<1>5. LocksAgreed' /\ LockAsked(current.op)' /\ AnswersTrue'
  BY <1>1, <1>3, <1>4 DEF AnswersInv, LocksAgreed, LockAsked, AnswersTrue, WasAnswered
<1>6. ASSUME goes PROVE Known(current'.plan) /\ current'.plan # <<>> /\ Answering(current)'
  <2>1. Known(plan) /\ plan # <<>>
    BY <1>1, PlanCalls
  <2>2. Plan(current)' = plan
    <3>1. Plan(current') = Plan(current)
      BY <1>3, PlanSame
    <3>2. Plan(current)' = Plan(current')
      BY <1>4 DEF Plan, SetattrPlan, Getattr, SetsTimes, ReleasePlan
    <3> QED
      BY <3>1, <3>2
  <2>3. ASSUME current.op \notin Special PROVE InStraight(current)'
    <3>1. \A c \in Closing : ~Listed(plan, c)
      BY <1>1, <2>3, PlanCalls
    <3>2. AllWell(current)'
      BY <1>3, <1>6 DEF AllWell
    <3> HIDE DEF plan
    <3>3. \A c : Listed(plan, c) <=> Listed(current'.plan, c)
      BY <1>3, <1>6
    <3> QED
      BY <1>3, <1>6, <2>2, <3>1, <3>2, <3>3 DEF InStraight
  <2>4. /\ current.op \in {"mknod", "create"} => plan = <<"create">>
        /\ current.op = "flush" => plan = <<"flush", "lock">>
        /\ current.op = "release" => plan \in {<<"flush", "lock", "release">>, <<"release">>}
        /\ current.op = "releasedir" => plan = <<"releasedir">>
    <3>1. current.op \in {"mknod", "create"} => plan = <<"create">>
      BY DEF Plan
    <3>2. current.op = "flush" => plan = <<"flush", "lock">>
      BY DEF Plan, FlushPlan
    <3> HIDE DEF plan
    <3>3. (current.op = "release" => plan \in {<<"flush", "lock", "release">>, <<"release">>})
          /\ (current.op = "releasedir" => plan = <<"releasedir">>)
      BY <1>1, Plans DEF plan
    <3> QED
      BY <3>1, <3>2, <3>3
  <2>5. Answering(current)'
    <3> HIDE DEF plan
    <3>1. current'.op = current.op /\ current'.plan = plan /\ current'.err = "ok"
      BY <1>3, <1>6
    <3> QED
      BY <2>3, <2>4, <3>1 DEF Answering, Special, InMknod, InCreate, InFlush, InRelease
  <2> QED
    BY <1>3, <1>6, <2>1, <2>5
<1>7. ASSUME ~goes PROVE Just(Answer(current))'
  <2>1. res[2] \in {"ENOMEM", "ENOENT"}
    <3>1. res \in {<<"null", "ok">>, <<"null", "ENOMEM">>, <<"path", "ok">>, <<"null", "ENOENT">>}
      <4>1. (IF NullOk(current) /\ fs.nullpath_ok THEN "ok" ELSE "ENOENT") \in {"ok", "ENOENT"}
        OBVIOUS
      <4> QED
        BY <1>2, <4>1 DEF PathResults
    <3> QED
      BY <1>7, <3>1
  <2>2. Answer(current') = res[2]
    BY <1>3, <1>7, <2>1 DEF Answer
  <2>3. Kind(current'.op) # res[2]
    BY <1>1, <1>3, <2>1, OpcodesAnswered DEF Answered, Kind, Refusals
  <2> QED
    BY <1>3, <2>1, <2>2, <2>3 DEF Just, Refusals
<1> HIDE DEF goes, plan
<1> QED
  BY <1>1, <1>3, <1>5, <1>6, <1>7 DEF AnswersInv

(* The answer that is sent is the one that is due.                         *)
LEMMA ReplyAnswers ==
  ASSUME HandlesInv, AnswersInv, ReplySent
  PROVE  AnswersInv'
<1>1. current.at = "reply" /\ Just(Answer(current)) /\ OpsTypeOK
  BY DEF ReplySent, HandlesInv, AnswersInv
<1>2. PICK answer : answer = Answer(current)
  OBVIOUS
<1>3. current' = [current EXCEPT !.at = "answered", !.answer = answer]
  BY <1>2 DEF ReplySent
<1>4. /\ current'.op = current.op /\ current'.done = current.done /\ current'.bits = current.bits
      /\ current'.at = "answered" /\ current'.answer = answer
  BY <1>1, <1>3 DEF OpsTypeOK, IdleReq
<1>5. UNCHANGED <<fs, conn, called>>
  BY DEF ReplySent
<1>6. WasDone(current') <=> WasDone(current)
  BY <1>4 DEF WasDone, Did, Tried
<1>7. answer = Kind(current.op) => WasDone(current')
  BY <1>1, <1>2, <1>6 DEF Just
<1>8. answer # Kind(current.op) =>
        \/ Tried(current') = {} /\ answer \in Refusals
        \/ \E i \in DOMAIN current'.done :
             /\ current'.done[i][2] \in {answer, "odd"}
             /\ \A j \in DOMAIN current'.done : j > i => current'.done[j][1] \in {"lock", "release", "unlink"}
  <2>1. current.done = <<>> => Tried(current') = {}
    BY <1>4 DEF Tried
  <2>2. Blamed(current, answer) =>
          \E i \in DOMAIN current'.done :
             /\ current'.done[i][2] \in {answer, "odd"}
             /\ \A j \in DOMAIN current'.done : j > i => current'.done[j][1] \in {"lock", "release", "unlink"}
    BY <1>4 DEF Blamed, After
  <2> QED
    BY <1>1, <1>2, <2>1, <2>2 DEF Just
<1>9. current.op \in {"getlk", "setlk", "flock"} /\ answer = "ENOSYS" => called.op # "none"
  BY <1>1, <1>2 DEF Just
<1>10. AnswersTrue'
  <2>1. Success' <=> answer = Kind(current.op)
    BY <1>4 DEF Success
  <2>2. current'.op \in {"getlk", "setlk", "flock"} /\ current'.answer = "ENOSYS" => called'.op # "none"
    BY <1>4, <1>5, <1>9
  <2>3. Success' => WasDone(current)'
    BY <1>4, <1>7, <2>1 DEF WasDone, Did, Tried
  <2>4. ~Success' =>
        \/ Tried(current)' = {} /\ current'.answer \in Refusals
        \/ \E i \in DOMAIN current'.done :
             /\ current'.done[i][2] \in {current'.answer, "odd"}
             /\ \A j \in DOMAIN current'.done : j > i => current'.done[j][1] \in {"lock", "release", "unlink"}
    <3>1. Tried(current)' = Tried(current')
      BY DEF Tried
    <3> QED
      BY <1>4, <1>8, <2>1, <3>1
  <2> QED
    BY <2>2, <2>3, <2>4 DEF AnswersTrue, Refusals
<1> QED
  BY <1>4, <1>5, <1>10 DEF AnswersInv, LocksAgreed

(* An open that nobody waits for is cancelled, and answered with nothing.  *)
LEMMA LostAnswers ==
  ASSUME HandlesInv, AnswersInv, ReplyNotSent
  PROVE  AnswersInv'
<1>1. current.at = "reply" /\ OpsTypeOK /\ LockAsked(current.op) /\ current.done \in Seq(CallNames \X Outcomes)
  BY DEF ReplyNotSent, HandlesInv, AnswersInv
<1>2. PICK c \in Closing : current' = [current EXCEPT !.at = "call", !.answer = "lost", !.plan = <<c>>]
  BY DEF ReplyNotSent, CancelOpen, Closing
<1>3. /\ current'.op = current.op /\ current'.done = current.done /\ current'.plan = <<c>>
      /\ current'.at = "call" /\ current'.answer = "lost"
  BY <1>1, <1>2 DEF OpsTypeOK, IdleReq
<1>4. UNCHANGED <<fs, conn, called>>
  BY DEF ReplyNotSent
<1>5. Known(<<c>>)
  <2>1. c \in CallNames
    BY DEF Closing, CallNames
  <2> QED
    BY <2>1, KnownOne
<1>6. LocksAgreed' /\ LockAsked(current.op)' /\ AnswersTrue'
  BY <1>1, <1>3, <1>4 DEF AnswersInv, LocksAgreed, LockAsked, AnswersTrue, WasAnswered
<1> QED
  BY <1>1, <1>3, <1>5, <1>6 DEF AnswersInv

LEMMA StepsKeepAnswers == HandlesInv /\ AnswersInv /\ [OpsNext]_opsvars => AnswersInv'
<1> SUFFICES ASSUME HandlesInv, AnswersInv, [OpsNext]_opsvars PROVE AnswersInv'
  OBVIOUS
<1>1. ASSUME UNCHANGED opsvars PROVE AnswersInv'
  <2>1. UNCHANGED <<fs, current, called>> /\ LocksAgreed'
    BY <1>1 DEF opsvars, AnswersInv, LocksAgreed
  <2> QED
    BY <2>1, ConnectionAnswers
<1>2. ASSUME NEW major \in 6..8, NEW minor \in Minors, DoInit(major, minor) PROVE AnswersInv'
  BY <1>2, InitAnswersKeep
<1>3. ASSUME DoDestroy PROVE AnswersInv'
  BY <1>3, DestroyAnswers
<1>4. ASSUME NEW op \in DOMAIN Opcodes, NEW h \in OpenFiles, SendRequest(op, h) PROVE AnswersInv'
  BY <1>4, SendAnswers
<1>5. ASSUME Dispatch PROVE AnswersInv'
  BY <1>5, DispatchAnswers
<1>6. ASSUME TakePath PROVE AnswersInv'
  BY <1>6, TakePathAnswers
<1>7. ASSUME CallFs PROVE AnswersInv'
  BY <1>7, CallAnswers
<1>8. ASSUME ReplySent PROVE AnswersInv'
  BY <1>8, ReplyAnswers
<1>9. ASSUME ReplyNotSent PROVE AnswersInv'
  BY <1>9, LostAnswers
<1> QED
  BY <1>1, <1>2, <1>3, <1>4, <1>5, <1>6, <1>7, <1>8, <1>9 DEF OpsNext

(***************************************************************************)
(* An answer of fuse_lib_* says what the file system did: a success only   *)
(* after all the calls that the request stands for, an error only if       *)
(* do_* or get_path refused the request before any call, or with the       *)
(* failure of a call after which there was nothing but cleaning up. A lock *)
(* does not fail for want of an operation, as do_init has told the kernel. *)
(***************************************************************************)
THEOREM AnswersAreTrue == OpsSpec => []AnswersTrue
<1>1. OpsInit => HandlesInv /\ AnswersInv
  BY InitHandles, InitAnswers
<1>2. HandlesInv /\ AnswersInv /\ [OpsNext]_opsvars => HandlesInv' /\ AnswersInv'
  BY StepsKeepHandles, StepsKeepAnswers
<1>3. AnswersInv => AnswersTrue
  BY DEF AnswersInv
<1> QED
  BY <1>1, <1>2, <1>3, PTL DEF OpsSpec
=============================================================================
