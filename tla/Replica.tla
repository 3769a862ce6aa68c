------------------------------ MODULE Replica ------------------------------
(***************************************************************************)
(* A control-plane host joins an existing cluster: `otherix-api join`      *)
(* rewrites the configuration and restarts the daemon, whose boot fetches  *)
(* the cluster CA for a single-use token, is registered as an etcd         *)
(* learner, starts its member and is promoted.  Every step leaves a file,  *)
(* the daemon may die between any two, and systemd starts it again.        *)
(*                                                                         *)
(* The rest of the cluster is external and healthy.  A CA is "own" (minted *)
(* by this host in single mode) or "cluster"; so is the membership the     *)
(* etcd data directory records.                                            *)
(***************************************************************************)
EXTENDS Naturals

CONSTANTS
  RpStartedSingle,  \* whether the daemon has run in single mode before
  MaxRpCrashes,     \* deaths of the daemon
  MaxRpFaults       \* lost answers and failed writes

VARIABLES
  rpMode,      \* etcd.mode of api.yaml
  rpName,      \* etcd.name: "taken" is another member's
  rpTokenFile, \* the token at cluster_join.token_path: "none", "fresh" or "spent"
  rpCert, rpKey, \* the CA files: "none", "own" or "cluster"
  rpSidecar,   \* whether the initial-cluster sidecar exists
  rpData,      \* membership recorded in the data directory
  rpSeat,      \* this host's seat in the cluster: "none", "learner", "voter"
  rpBoot,      \* the daemon
  rpCmd,       \* the join command
  rpTried,     \* whether the command has run before
  rpCrashes, rpFaults

rpDisk == <<rpCert, rpKey, rpSidecar, rpData>>
rpConf == <<rpMode, rpName, rpTokenFile>>
rpVars == <<rpConf, rpDisk, rpSeat, rpBoot, rpCmd, rpTried, rpCrashes, rpFaults>>

(* The package installs mode single and starts the daemon; a host that is  *)
(* configured before its first start has no CA and no member.              *)
RpInit ==
  /\ rpMode = "single" /\ rpName = "free" /\ rpTokenFile = "none"
  /\ rpCert = (IF RpStartedSingle THEN "own" ELSE "none") /\ rpKey = rpCert
  /\ rpData = rpCert
  /\ rpSidecar = FALSE
  /\ rpSeat = "none"
  /\ rpBoot = (IF RpStartedSingle THEN "serving" ELSE "down")
  /\ rpCmd = "idle"
  /\ rpTried = FALSE /\ rpCrashes = 0 /\ rpFaults = 0

RpGoto(pc) == rpBoot' = pc

CaOnDisk == rpCert # "none" /\ rpKey # "none"

(* The host is a voter of the cluster and serves from its store.           *)
Joined == rpSeat = "voter" /\ rpData = "cluster" /\ rpBoot = "serving"

(* The existing replica registers the peer as a learner; a registered peer *)
(* stays what it is.                                                       *)
RegisterLearner == IF rpSeat = "none" THEN "learner" ELSE rpSeat
-----------------------------------------------------------------------------
(* The command.  The operator runs it with a fresh token, and again when   *)
(* the daemon fails to boot.  It does nothing when the mode is join and    *)
(* the CA is on disk.                                                      *)
runJoinCmd ==
  /\ rpCmd = "idle"
  /\ rpMode = "single" \/ rpBoot = "failed"
  /\ rpCmd' = IF rpMode = "join" /\ CaOnDisk THEN "idle" ELSE "token"
  /\ UNCHANGED <<rpConf, rpDisk, rpSeat, rpBoot, rpTried, rpCrashes, rpFaults>>

writeToken ==
  /\ rpCmd = "token"
  /\ rpTokenFile' = "fresh"
  /\ rpCmd' = "config"
  /\ UNCHANGED <<rpMode, rpName, rpDisk, rpSeat, rpBoot, rpTried, rpCrashes, rpFaults>>

(* The first name chosen may be another member's.                          *)
writeJoinConfig ==
  /\ rpCmd = "config"
  /\ rpMode' = "join"
  /\ rpName' \in IF rpTried THEN {"free"} ELSE {"free", "taken"}
  /\ rpTried' = TRUE
  /\ rpCmd' = "restart"
  /\ UNCHANGED <<rpTokenFile, rpDisk, rpSeat, rpBoot, rpCrashes, rpFaults>>

(* The old daemon is told to stop and waited for: it finishes the files it *)
(* is writing, but a request it waits for is cut off, whether or not the   *)
(* other side has served it.                                               *)
restartUnit ==
  /\ rpCmd = "restart" /\ rpBoot \notin {"cert", "key", "sidecar", "rmtoken"}
  /\ rpCmd' = "idle"
  /\ RpGoto("boot")
  /\ \/ UNCHANGED <<rpTokenFile, rpSeat>>
     \/ rpBoot = "fetch" /\ rpTokenFile = "fresh" /\ rpTokenFile' = "spent" /\ rpSeat' = RegisterLearner
  /\ UNCHANGED <<rpMode, rpName, rpDisk, rpTried, rpCrashes, rpFaults>>

(* What the partial-join error asks of the operator: remove the CA and the *)
(* data directory, then join again.                                        *)
CleanUp ==
  /\ rpBoot = "partial" /\ rpCmd = "idle"
  /\ rpCert' = "none" /\ rpKey' = "none" /\ rpData' = "none"
  /\ RpGoto("failed")
  /\ UNCHANGED <<rpConf, rpSidecar, rpSeat, rpCmd, rpTried, rpCrashes, rpFaults>>
-----------------------------------------------------------------------------
(* Mutant: a boot that finds the CA but no member asks for a token again.  *)
ensureClusterCAForJoinNoResume ==
  /\ rpBoot = "boot" /\ rpMode = "join"
  /\ RpGoto(CASE rpData # "none" -> "loadCA"
              [] OTHER -> IF rpTokenFile = "none" THEN "failed" ELSE "fetch")
  /\ UNCHANGED <<rpConf, rpDisk, rpSeat, rpCmd, rpTried, rpCrashes, rpFaults>>

(* A join boot recovers from the WAL when the member directory exists,     *)
(* resumes from the sidecar when the CA does, and else fetches the CA with *)
(* the token.                                                              *)
ensureClusterCAForJoin ==
  /\ rpBoot = "boot" /\ rpMode = "join"
  /\ RpGoto(CASE rpData # "none" -> "loadCA"
              [] rpData = "none" /\ CaOnDisk /\ rpSidecar -> "loadCA"
              [] rpData = "none" /\ CaOnDisk /\ ~rpSidecar -> "partial"
              [] OTHER -> IF rpTokenFile = "none" THEN "failed" ELSE "fetch")
  /\ UNCHANGED <<rpConf, rpDisk, rpSeat, rpCmd, rpTried, rpCrashes, rpFaults>>

SkipJoin ==
  /\ rpBoot = "boot" /\ rpMode = "single"
  /\ RpGoto("loadCA")
  /\ UNCHANGED <<rpConf, rpDisk, rpSeat, rpCmd, rpTried, rpCrashes, rpFaults>>

(* The existing replica redeems an unspent token.                          *)
Join(pc) ==
  /\ rpTokenFile = "fresh"
  /\ rpTokenFile' = "spent"
  /\ rpSeat' \in IF pc = "failed" THEN {rpSeat, RegisterLearner} ELSE {RegisterLearner}
  /\ RpGoto(pc)

(* A name another member uses is refused before anything is written.       *)
FetchClusterCA ==
  /\ rpBoot = "fetch"
  /\ \/ rpName = "free" /\ Join("cert") /\ UNCHANGED rpFaults
     \/ rpName = "taken" /\ Join("failed") /\ rpSeat' # "none" /\ UNCHANGED rpFaults
     \/ /\ rpFaults < MaxRpFaults /\ rpFaults' = rpFaults + 1
        /\ Join("failed")
     \/ /\ rpTokenFile = "spent"
        /\ RpGoto("failed")
        /\ UNCHANGED <<rpTokenFile, rpSeat, rpFaults>>
  /\ UNCHANGED <<rpMode, rpName, rpDisk, rpCmd, rpTried, rpCrashes>>

(* The certificate is renamed into place, then the key.                    *)
WriteCert ==
  /\ rpBoot = "cert"
  /\ rpCert' = "cluster"
  /\ RpGoto("key")
  /\ UNCHANGED <<rpConf, rpKey, rpSidecar, rpData, rpSeat, rpCmd, rpTried, rpCrashes, rpFaults>>

WriteKey ==
  /\ rpBoot = "key"
  /\ rpKey' = "cluster"
  /\ RpGoto("sidecar")
  /\ UNCHANGED <<rpConf, rpCert, rpSidecar, rpData, rpSeat, rpCmd, rpTried, rpCrashes, rpFaults>>

(* The sidecar is best effort.                                             *)
writeInitialClusterSidecar ==
  /\ rpBoot = "sidecar"
  /\ \/ rpSidecar' = TRUE /\ UNCHANGED rpFaults
     \/ rpFaults < MaxRpFaults /\ rpFaults' = rpFaults + 1 /\ UNCHANGED rpSidecar
  /\ RpGoto("rmtoken")
  /\ UNCHANGED <<rpConf, rpCert, rpKey, rpData, rpSeat, rpCmd, rpTried, rpCrashes>>

removeToken ==
  /\ rpBoot = "rmtoken"
  /\ rpTokenFile' = "none"
  /\ RpGoto("loadCA")
  /\ UNCHANGED <<rpMode, rpName, rpDisk, rpSeat, rpCmd, rpTried, rpCrashes, rpFaults>>

(* The CA is loaded, or minted in single mode when neither file exists;    *)
(* one file, or a pair that does not match, is an error.                   *)
LoadOrGenerateClusterCAOnDisk ==
  /\ rpBoot = "loadCA"
  /\ \/ CaOnDisk /\ rpCert = rpKey /\ RpGoto("start") /\ UNCHANGED <<rpCert, rpKey>>
     \/ /\ rpCert = "none" /\ rpKey = "none" /\ rpMode = "single"
        /\ rpCert' = "own" /\ rpKey' = "own"
        /\ RpGoto("start")
     \/ /\ ~(CaOnDisk /\ rpCert = rpKey)
        /\ ~(rpCert = "none" /\ rpKey = "none" /\ rpMode = "single")
        /\ RpGoto("failed")
        /\ UNCHANGED <<rpCert, rpKey>>
  /\ UNCHANGED <<rpConf, rpSidecar, rpData, rpSeat, rpCmd, rpTried, rpCrashes, rpFaults>>

(* The member recovers what its directory records, or starts as a new      *)
(* cluster in single mode and as the registered peer in join mode, with a  *)
(* peer certificate signed by the CA on disk.                              *)
Start ==
  /\ rpBoot = "start"
  /\ \/ rpData # "none" /\ RpGoto("hooks") /\ UNCHANGED rpData
     \/ rpData = "none" /\ rpMode = "single" /\ rpData' = "own" /\ RpGoto("hooks")
     \/ /\ rpData = "none" /\ rpMode = "join" /\ rpSeat # "none" /\ rpCert = "cluster"
        /\ rpData' = "cluster" /\ RpGoto("hooks")
     \/ /\ rpData = "none" /\ rpMode = "join" /\ ~(rpSeat # "none" /\ rpCert = "cluster")
        /\ RpGoto("failed") /\ UNCHANGED rpData
  /\ UNCHANGED <<rpConf, rpCert, rpKey, rpSidecar, rpSeat, rpCmd, rpTried, rpCrashes, rpFaults>>

(* The CA on disk must be the one the store holds: the store of "own" data *)
(* holds the CA this host minted.                                          *)
BootstrapClusterCA ==
  /\ rpBoot = "hooks"
  /\ RpGoto(IF rpCert = rpData THEN "serving" ELSE "failed")
  /\ UNCHANGED <<rpConf, rpDisk, rpSeat, rpCmd, rpTried, rpCrashes, rpFaults>>

(* A replica's promote loop promotes a learner that runs and caught up.    *)
TryPromoteLearners ==
  /\ rpSeat = "learner" /\ rpData = "cluster" /\ rpBoot \in {"hooks", "serving"}
  /\ rpSeat' = "voter"
  /\ UNCHANGED <<rpConf, rpDisk, rpBoot, rpCmd, rpTried, rpCrashes, rpFaults>>

(* The daemon dies and systemd starts it again.                            *)
RpCrash ==
  /\ rpCrashes < MaxRpCrashes /\ rpBoot \notin {"down", "failed", "partial"}
  /\ rpCrashes' = rpCrashes + 1
  /\ RpGoto("boot")
  /\ UNCHANGED <<rpConf, rpDisk, rpSeat, rpCmd, rpTried, rpFaults>>

(* So it does after an error exit, some seconds later: that this falls     *)
(* into the instant the command runs counts as a fault.                    *)
RestartOnFailure ==
  /\ rpBoot \in {"failed", "partial"}
  /\ \/ rpCmd = "idle" /\ UNCHANGED rpFaults
     \/ rpCmd # "idle" /\ rpFaults < MaxRpFaults /\ rpFaults' = rpFaults + 1
  /\ RpGoto("boot")
  /\ UNCHANGED <<rpConf, rpDisk, rpSeat, rpCmd, rpTried, rpCrashes>>

RpBootStep ==
  \/ ensureClusterCAForJoin \/ SkipJoin \/ FetchClusterCA \/ WriteCert \/ WriteKey
  \/ writeInitialClusterSidecar \/ removeToken \/ LoadOrGenerateClusterCAOnDisk \/ Start
  \/ BootstrapClusterCA

RpCommand == writeToken \/ writeJoinConfig \/ restartUnit

RpNext == RpBootStep \/ RpCommand \/ runJoinCmd \/ CleanUp \/ TryPromoteLearners \/ RpCrash \/ RestartOnFailure

(* The daemon makes progress, the promote loop ticks on every replica, the *)
(* command runs to its end, and an operator whose join keeps failing does  *)
(* sooner or later what the guide says.                                    *)
RpSpec ==
  /\ RpInit /\ [][RpNext]_rpVars
  /\ WF_rpVars(RpBootStep) /\ WF_rpVars(RpCommand) /\ WF_rpVars(TryPromoteLearners)
  /\ SF_rpVars(runJoinCmd) /\ SF_rpVars(CleanUp)
-----------------------------------------------------------------------------
(* The guide's claim for `otherix-api join`: "At boot the daemon redeems   *)
(* the token, registers itself as a learner, and auto-promotes to a voter  *)
(* once caught up", whatever deaths and lost answers the join meets.       *)
JoinTakesEffect == <>[](rpMode = "join" => Joined)
=============================================================================
