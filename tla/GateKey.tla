------------------------------ MODULE GateKey ------------------------------
(***************************************************************************)
(* The key of the delivery gate and a receipt signed with it (gate.py,     *)
(* gate_key_hardening.py, gate_receipt_hardening.py).  Every validation    *)
(* worker of a home uses one key, which the first of them creates: written *)
(* to a temporary file, linked to hmac.key, and taken back when what       *)
(* follows the link fails.  Receipts replace each other: whoever finds     *)
(* another file than its own after its replacement removes what is there.  *)
(* None of this is under a lock.                                           *)
(*                                                                         *)
(* A key and a file are told apart by the call that made them.             *)
(***************************************************************************)
EXTENDS Naturals

CONSTANTS Signers,      \* processes that issue and verify receipts
          MaxIssues,    \* bound: calls of each
          MaxGateTroubles   \* bound: failed system calls and deaths

ASSUME GateAssumption == MaxIssues \in Nat /\ MaxGateTroubles \in Nat

VARIABLES hmac,         \* hmac.key: the key in it, or Nothing
          twoLinks,     \* hmac.key still has its temporary name as well
          delivery,     \* delivery-gate.json: its file and the key it is signed with
          caller,       \* the call each process is in
          issues,       \* calls begun
          gateTroubles,
          takenBack,    \* history: keys that were published and removed again
          issued,       \* history: some call returned its receipt
          orphaned,     \* history: a process died with its key half published
          withdrawal    \* history: why the receipt was last removed, until one is issued

gateVars == <<hmac, twoLinks, delivery, caller, issues, gateTroubles,
              takenBack, issued, orphaned, withdrawal>>

Nothing == <<"nothing", 0>>
OwnKey(s) == <<s, issues[s]>>
NoDelivery == [file |-> Nothing, key |-> Nothing]

Waiting == [at |-> "idle", op |-> "none", key |-> Nothing, seen |-> Nothing, claim |-> Nothing]

GateInit ==
    /\ hmac = Nothing
    /\ twoLinks = FALSE
    /\ delivery = NoDelivery
    /\ caller = [s \in Signers |-> Waiting]
    /\ issues = [s \in Signers |-> 0]
    /\ gateTroubles = 0
    /\ takenBack = {}
    /\ issued = FALSE
    /\ orphaned = FALSE
    /\ withdrawal = "none"

GateAt(s, place) == caller' = [caller EXCEPT ![s].at = place]
GateRefuses(s) == caller' = [caller EXCEPT ![s] = Waiting]
GateTrouble == gateTroubles < MaxGateTroubles /\ gateTroubles' = gateTroubles + 1

Ended(s) == caller[s].at \in {"idle", "valid", "invalid"}

\* create_gate_receipt up to _load_key: the sources are hashed.
IssueBegin(s) ==
    /\ Ended(s) /\ issues[s] < MaxIssues
    /\ issues' = [issues EXCEPT ![s] = @ + 1]
    /\ caller' = [caller EXCEPT ![s] = [Waiting EXCEPT !.at = "look", !.op = "issue"]]
    /\ UNCHANGED <<hmac, twoLinks, delivery, gateTroubles, takenBack, issued, orphaned, withdrawal>>

\* load_gate_receipt, then verify_gate_receipt up to _load_key
VerifyBegin(s) ==
    /\ Ended(s) /\ issues[s] < MaxIssues
    /\ delivery # NoDelivery
    /\ issues' = [issues EXCEPT ![s] = @ + 1]
    /\ caller' = [caller EXCEPT ![s] = [Waiting EXCEPT !.at = "look", !.op = "verify",
                                                   !.claim = delivery.key]]
    /\ UNCHANGED <<hmac, twoLinks, delivery, gateTroubles, takenBack, issued, orphaned, withdrawal>>

-----------------------------------------------------------------------------
\* _read_posix, its first stat: only a file with one link is a key.  Who issues
\* a receipt and has not tried yet creates a key that is missing.
LookForKey(s) ==
    /\ caller[s].at \in {"look", "look again"}
    /\ IF hmac = Nothing
       THEN IF caller[s].op = "issue" /\ caller[s].at = "look"
            THEN GateAt(s, "create") ELSE GateRefuses(s)
       ELSE IF twoLinks THEN GateRefuses(s)
       ELSE caller' = [caller EXCEPT ![s].at = "read", ![s].seen = hmac]
    /\ UNCHANGED <<hmac, twoLinks, delivery, issues, gateTroubles, takenBack, issued, orphaned, withdrawal>>

\* The rest of _read_posix: open, read twice, compare all four stats.
ReadKey(s) ==
    /\ caller[s].at = "read"
    /\ IF hmac = caller[s].seen
       THEN caller' = [caller EXCEPT ![s].at = "use", ![s].key = hmac]
       ELSE GateRefuses(s)
    /\ UNCHANGED <<hmac, twoLinks, delivery, issues, gateTroubles, takenBack, issued, orphaned, withdrawal>>

\* Mutant: the key is renamed into its place.
LinkOverwrites(s) ==
    /\ caller[s].at = "create"
    /\ hmac' = OwnKey(s) /\ twoLinks' = TRUE /\ GateAt(s, "unlink")
    /\ UNCHANGED <<delivery, issues, gateTroubles, takenBack, issued, orphaned, withdrawal>>

\* _create_posix: the key is written to a temporary file and linked to its
\* name; who finds the name taken reads the key that is there.
LinkKey(s) ==
    /\ caller[s].at = "create"
    /\ IF hmac = Nothing
       THEN hmac' = OwnKey(s) /\ twoLinks' = TRUE /\ GateAt(s, "unlink")
       ELSE GateAt(s, "look again") /\ UNCHANGED <<hmac, twoLinks>>
    /\ UNCHANGED <<delivery, issues, gateTroubles, takenBack, issued, orphaned, withdrawal>>

CreateFails(s) ==
    /\ caller[s].at = "create" /\ GateTrouble
    /\ GateRefuses(s)
    /\ UNCHANGED <<hmac, twoLinks, delivery, issues, takenBack, issued, orphaned, withdrawal>>

UnlinkTemporary(s) ==
    /\ caller[s].at = "unlink"
    /\ \/ twoLinks' = FALSE /\ GateAt(s, "persist") /\ UNCHANGED gateTroubles
       \/ GateTrouble /\ GateAt(s, "rollback") /\ UNCHANGED twoLinks
    /\ UNCHANGED <<hmac, delivery, issues, takenBack, issued, orphaned, withdrawal>>

\* stat of the name, fsync of the directory, the key read back
PersistKey(s) ==
    /\ caller[s].at = "persist"
    /\ \/ /\ hmac = OwnKey(s)
          /\ caller' = [caller EXCEPT ![s].at = "use", ![s].key = hmac]
          /\ UNCHANGED gateTroubles
       \/ GateTrouble /\ GateAt(s, "rollback")
    /\ UNCHANGED <<hmac, twoLinks, delivery, issues, takenBack, issued, orphaned, withdrawal>>

\* Mutant: what was published stays when the publication fails.
RollbackForgotten(s) ==
    /\ caller[s].at = "rollback"
    /\ GateRefuses(s)
    /\ UNCHANGED <<hmac, twoLinks, delivery, issues, gateTroubles, takenBack, issued, orphaned, withdrawal>>

\* The handler of _create_posix removes the name while it is its own file,
\* and the finally clause the temporary one.
RollbackKey(s) ==
    /\ caller[s].at = "rollback"
    /\ IF hmac = OwnKey(s)
       THEN hmac' = Nothing /\ twoLinks' = FALSE /\ takenBack' = takenBack \cup {OwnKey(s)}
       ELSE UNCHANGED <<hmac, twoLinks, takenBack>>
    /\ GateRefuses(s)
    /\ UNCHANGED <<delivery, issues, gateTroubles, issued, orphaned, withdrawal>>

-----------------------------------------------------------------------------
\* verify_gate_receipt: the signature is computed again with the loaded key.
CheckSignature(s) ==
    /\ caller[s].at = "use" /\ caller[s].op = "verify"
    /\ GateAt(s, IF caller[s].key = caller[s].claim THEN "valid" ELSE "invalid")
    /\ UNCHANGED <<hmac, twoLinks, delivery, issues, gateTroubles, takenBack, issued, orphaned, withdrawal>>

\* write_gate_receipt, _publish_posix: written to a temporary file, which
\* replaces the receipt.
ReplaceReceipt(s) ==
    /\ caller[s].at = "use" /\ caller[s].op = "issue"
    /\ delivery' = [file |-> OwnKey(s), key |-> caller[s].key]
    /\ GateAt(s, "confirm")
    /\ UNCHANGED <<hmac, twoLinks, issues, gateTroubles, takenBack, issued, orphaned, withdrawal>>

\* The stat of the final name has to show the file just written.
ConfirmReceipt(s) ==
    /\ caller[s].at = "confirm"
    /\ \/ /\ GateAt(s, IF delivery.file = OwnKey(s) THEN "readback" ELSE "withdraw")
          /\ UNCHANGED gateTroubles
       \/ GateTrouble /\ GateAt(s, "withdraw")
    /\ UNCHANGED <<hmac, twoLinks, delivery, issues, takenBack, issued, orphaned, withdrawal>>

\* os.unlink(name), whatever file has the name by now
WithdrawReceipt(s) ==
    /\ caller[s].at = "withdraw"
    /\ delivery' = NoDelivery
    /\ withdrawal' = IF delivery.file = Nothing THEN withdrawal
                     ELSE IF delivery.file = OwnKey(s) THEN "failed" ELSE "lost race"
    /\ GateRefuses(s)
    /\ UNCHANGED <<hmac, twoLinks, issues, gateTroubles, takenBack, issued, orphaned>>

\* Mutant: a receipt that differs is removed by whoever reads it back.
ReadBackRemoves(s) ==
    /\ caller[s].at = "readback"
    /\ IF delivery.file = OwnKey(s) THEN issued' = TRUE /\ withdrawal' = "none"
                                  ELSE UNCHANGED <<issued, withdrawal>>
    /\ delivery' = IF delivery.file = OwnKey(s) THEN delivery ELSE NoDelivery
    /\ GateRefuses(s)
    /\ UNCHANGED <<hmac, twoLinks, issues, gateTroubles, takenBack, orphaned>>

\* The receipt is read back and compared; a difference is an error that
\* leaves the file alone.
ReadBack(s) ==
    /\ caller[s].at = "readback"
    /\ IF delivery.file = OwnKey(s) THEN issued' = TRUE /\ withdrawal' = "none"
                                  ELSE UNCHANGED <<issued, withdrawal>>
    /\ GateRefuses(s)
    /\ UNCHANGED <<hmac, twoLinks, delivery, issues, gateTroubles, takenBack, orphaned>>

GateDeath(s) ==
    /\ ~Ended(s) /\ GateTrouble
    /\ GateRefuses(s)
    /\ orphaned' = (orphaned \/ (caller[s].at \in {"unlink", "rollback"} /\ twoLinks))
    /\ UNCHANGED <<hmac, twoLinks, delivery, issues, takenBack, issued, withdrawal>>

GateNext ==
    \E s \in Signers :
       \/ IssueBegin(s) \/ VerifyBegin(s)
       \/ LookForKey(s) \/ ReadKey(s)
       \/ LinkKey(s) \/ CreateFails(s) \/ UnlinkTemporary(s) \/ PersistKey(s) \/ RollbackKey(s)
       \/ CheckSignature(s)
       \/ ReplaceReceipt(s) \/ ConfirmReceipt(s) \/ WithdrawReceipt(s) \/ ReadBack(s)
       \/ GateDeath(s)

GateSpec == GateInit /\ [][GateNext]_gateVars

-----------------------------------------------------------------------------
HasKey(s) == caller[s].at \in {"use", "confirm", "readback", "withdraw"}

\* However many processes create the key at once, they sign with one key, and
\* what one of them signed the others find valid: a key in use, or that a
\* receipt is signed with, is the stored one, unless its publication failed
\* after another process had read it and was taken back.
OneKey ==
    /\ \A s \in Signers : HasKey(s) => caller[s].key \in takenBack \cup {hmac}
    /\ \A s \in Signers : caller[s].at = "invalid" =>
          caller[s].claim \in takenBack \/ caller[s].key \in takenBack

\* Only a death while the key has two links leaves a key nobody can read:
\* otherwise somebody is about to give it one link or to remove it.
OnlyDeathBlocksTheGate ==
    twoLinks => orphaned \/ \E s \in Signers : caller[s].at \in {"unlink", "rollback"}
                                                 /\ hmac = OwnKey(s)

\* A receipt whose issue returned is there, or one that replaced it, unless a
\* process that lost the race for the name, or whose fsync failed, removed it.
IssuedStays ==
    issued /\ withdrawal = "none" => delivery # NoDelivery
=============================================================================
