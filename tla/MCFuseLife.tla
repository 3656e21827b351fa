------------------------------ MODULE MCFuseLife -------------------------------
(***************************************************************************)
(* What has to go on in libfuse, for TLC: the paths that requests wait     *)
(* for, the session that serves them, and the mount. These share no state, *)
(* so that a run takes one of them.                                        *)
(***************************************************************************)
EXTENDS MCFusePaths, FuseSessionProps, FuseMount

VARIABLE part

MCPointOf == "p1" :> "m1" @@ "p2" :> "m1"

LifeInit ==
  /\ part \in {"paths", "session", "mount"}
  /\ Init /\ SessionInit /\ MountInit /\ (part = "mount" \/ auto = {})

PathsStep == part = "paths" /\ Next /\ UNCHANGED <<sessionvars, mountvars>>
SessionStep == part = "session" /\ SessionNext /\ UNCHANGED <<vars, mountvars>>
MountStep == part = "mount" /\ MountNext /\ UNCHANGED <<vars, sessionvars>>
LifeNext == (PathsStep \/ SessionStep \/ MountStep) /\ UNCHANGED part

(* Nothing goes on in the paths and the mount before something begins.     *)
LifeFairness ==
  /\ Fairness /\ MountFairness
  /\ WF_sessionvars(part = "session" /\ Main)
  /\ \A w \in Workers : WF_sessionvars(part = "session" /\ Worker(w))

LifeSpec == LifeInit /\ [][LifeNext]_<<part, vars, sessionvars, mountvars>> /\ LifeFairness
===============================================================================
