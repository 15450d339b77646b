----------------------------- MODULE HostStores -----------------------------
(***************************************************************************)
(* What outlives the processes that use it, the queue and its neighbours    *)
(* (ControllerStores) apart: the project trees under repair, the upload     *)
(* store of a worker, the sessions of the HTTP server, the installed        *)
(* packages, the credentials of a worker, the key of the delivery gate, the *)
(* trust store, the key pairs and the audit log of an HTTP session.        *)
(*                                                                         *)
(* They share no file, no lock and no process state, so a behaviour of all  *)
(* is one of each side by side, and a property of one holds of them all     *)
(* if it holds while that one moves and the others stay as they started.    *)
(* That is what is checked: `moving` is the one that moves.                 *)
(***************************************************************************)
EXTENDS RepairTransaction, TransferStore, DeliverySession, PackageStore,
        CredentialRotation, GateKey, TrustStore, KeyPair, HttpRequests

VARIABLE moving

Stores == {"repair", "transfer", "delivery", "package", "rotation",
           "gate", "trust", "pair", "http"}

hostVars == <<repairVars, transferVars, deliveryVars, packVars, rotVars,
              gateVars, trustVars, pairVars, httpVars, moving>>

HostInit ==
    /\ moving \in Stores
    /\ RepairInit /\ TransferInit /\ DeliveryInit
    /\ PackageInit /\ RotationInit
    /\ GateInit /\ TrustInit /\ PairInit /\ HttpInit
    \* a store that stays is in one of its initial states
    /\ moving # "repair" => \A f \in Files : tree[f] = CHOOSE v \in Versions : TRUE
    /\ moving # "package" => kind = "module"
    /\ moving # "pair" => sort = "signing"

RepairMoves == moving = "repair" /\ RepairNext
TransferMoves == moving = "transfer" /\ TransferNext
DeliveryMoves == moving = "delivery" /\ DeliveryNext
PackageMoves == moving = "package" /\ PackageNext
RotationMoves == moving = "rotation" /\ RotationNext
GateMoves == moving = "gate" /\ GateNext
TrustMoves == moving = "trust" /\ TrustNext
PairMoves == moving = "pair" /\ PairNext
HttpMoves == moving = "http" /\ HttpNext

HostNext ==
    /\ UNCHANGED moving
    /\ \/ RepairMoves /\ UNCHANGED <<transferVars, deliveryVars, packVars, rotVars,
                                     gateVars, trustVars, pairVars, httpVars>>
       \/ TransferMoves /\ UNCHANGED <<repairVars, deliveryVars, packVars, rotVars,
                                       gateVars, trustVars, pairVars, httpVars>>
       \/ DeliveryMoves /\ UNCHANGED <<repairVars, transferVars, packVars, rotVars,
                                       gateVars, trustVars, pairVars, httpVars>>
       \/ PackageMoves /\ UNCHANGED <<repairVars, transferVars, deliveryVars, rotVars,
                                      gateVars, trustVars, pairVars, httpVars>>
       \/ RotationMoves /\ UNCHANGED <<repairVars, transferVars, deliveryVars, packVars,
                                       gateVars, trustVars, pairVars, httpVars>>
       \/ GateMoves /\ UNCHANGED <<repairVars, transferVars, deliveryVars, packVars,
                                   rotVars, trustVars, pairVars, httpVars>>
       \/ TrustMoves /\ UNCHANGED <<repairVars, transferVars, deliveryVars, packVars,
                                    rotVars, gateVars, pairVars, httpVars>>
       \/ PairMoves /\ UNCHANGED <<repairVars, transferVars, deliveryVars, packVars,
                                   rotVars, gateVars, trustVars, httpVars>>
       \/ HttpMoves /\ UNCHANGED <<repairVars, transferVars, deliveryVars, packVars,
                                   rotVars, gateVars, trustVars, pairVars>>

HostSpec == HostInit /\ [][HostNext]_hostVars

\* Every store has the values its code can give it: no backup, chunk or gate
\* that nothing wrote.
StoresTypeOK == RepairTypeOK /\ TransferTypeOK /\ DeliveryTypeOK

\* What is kept in files is whole, or what a caller was told it is: the trees
\* under repair and the installed packages.
FilesSound == RepairsSound /\ PackagesSound

\* What proves who somebody is holds together: the files of a worker's
\* credentials are of one bundle, those of a key pair of one pair, and the trust
\* store keeps what it was told, but for the commands that overlap or die.
CredentialsSound ==
    /\ OnlyOverlapsMixFiles
    /\ PairsMatch
    /\ RevocationsHold /\ TrustedKeysThere /\ NothingForgotten

\* Receipts of the delivery gate stay valid and stay there: one key signs them
\* all, and a receipt that was issued is not lost, but for the races and
\* failures each names.
GateSound == OneKey /\ OnlyDeathBlocksTheGate /\ IssuedStays

\* What the servers told a caller stays true: the receipts of the gate, and the
\* answers of an HTTP session, which are those of one execution of the request
\* and are in the audit log.
ServersSound == GateSound /\ KeysHold /\ AnsweredIsRecorded
=============================================================================
