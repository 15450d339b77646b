------------------------- MODULE CredentialRotation -------------------------
(***************************************************************************)
(* apply_rotation_bundle (pki.py): a signed bundle of a certificate, its   *)
(* private key and a CA certificate is verified as a whole and then        *)
(* written over the files of the destination one after another and         *)
(* rotation.json last, without a lock.  A worker or controller that starts *)
(* copies the same files one after another (remote_tls_material_hardening) *)
(* and loads the copies.  A bundle is told apart by its generation.        *)
(***************************************************************************)
EXTENDS Naturals, Sequences

CONSTANTS Generations,  \* bundles for this identity and role, as numbers
          Appliers,     \* processes that apply bundles
          MaxApplies,   \* bound: calls of all
          MaxRotationCrashes    \* bound: processes that die

ASSUME RotationAssumption ==
    Generations \subseteq Nat \ {0} /\ MaxApplies \in Nat /\ MaxRotationCrashes \in Nat

VARIABLES installedGen,     \* generation of each credential file; 0: none
          stamp,    \* generation in rotation.json; 0: none
          apply,    \* the call each applier is in
          applied,  \* calls begun
          rotationCrashes,  \* processes that died
          startup,  \* the files a starting process has read
          torn      \* history: a death or an overlap may have left files of two bundles

rotVars == <<installedGen, stamp, apply, applied, rotationCrashes, startup, torn>>

Parts == {"certificate", "key", "ca"}

\* Mutant: the CA certificate is left as it is.
AfterWithoutCa == [certificate |-> "key", key |-> "rotation", ca |-> "rotation"]

\* The order in which the files are written.
After == [certificate |-> "key", key |-> "ca", ca |-> "rotation"]

IdleApplier == [at |-> "idle", gen |-> 0, shared |-> FALSE]
Unread == [state |-> "down", todo |-> <<>>, seen |-> [p \in Parts |-> 0], alone |-> FALSE]

ReadOrder == [worker |-> <<"certificate", "key", "ca">>,
              controller |-> <<"ca", "certificate", "key">>]

RotationInit ==
    /\ installedGen = [p \in Parts |-> 0]
    /\ stamp = 0
    /\ apply = [a \in Appliers |-> IdleApplier]
    /\ applied = 0
    /\ rotationCrashes = 0
    /\ startup = Unread
    /\ torn = FALSE

WritingFile(a) == apply[a].at \in Parts \cup {"rotation"}

\* The bundle is unpacked and everything in it verified before a file of the
\* destination is touched.  shared: another application overlaps (history).
Verify(a, g) ==
    /\ ~WritingFile(a) /\ applied < MaxApplies
    /\ applied' = applied + 1
    /\ LET others == {b \in Appliers \ {a} : WritingFile(b)}
       IN  apply' = [b \in Appliers |->
                       IF b = a THEN [at |-> "certificate", gen |-> g, shared |-> others # {}]
                       ELSE IF b \in others THEN [apply[b] EXCEPT !.shared = TRUE]
                       ELSE IF apply[b].at = "applied" THEN IdleApplier ELSE apply[b]]
    /\ startup' = [startup EXCEPT !.alone = FALSE]
    /\ UNCHANGED <<installedGen, stamp, rotationCrashes, torn>>

Refuse(a) ==
    /\ ~WritingFile(a) /\ applied < MaxApplies
    /\ applied' = applied + 1
    /\ UNCHANGED <<installedGen, stamp, apply, rotationCrashes, startup, torn>>

\* atomic_write_bytes(destination / name)
WritePart(a, p) ==
    /\ apply[a].at = p
    /\ installedGen' = [installedGen EXCEPT ![p] = apply[a].gen]
    /\ apply' = [apply EXCEPT ![a].at = After[p]]
    /\ UNCHANGED <<stamp, applied, rotationCrashes, startup, torn>>

WriteStamp(a) ==
    /\ apply[a].at = "rotation"
    /\ stamp' = apply[a].gen
    /\ apply' = [apply EXCEPT ![a].at = "applied"]
    /\ torn' = apply[a].shared
    /\ UNCHANGED <<installedGen, applied, rotationCrashes, startup>>

RotationCrash(a) ==
    /\ WritingFile(a) /\ rotationCrashes < MaxRotationCrashes
    /\ rotationCrashes' = rotationCrashes + 1
    /\ apply' = [apply EXCEPT ![a] = IdleApplier]
    /\ torn' = TRUE
    /\ UNCHANGED <<installedGen, stamp, applied, startup>>

\* _tls_material_snapshot: a worker or a controller that starts copies the
\* files one after another, and OpenSSL then loads the copies; it accepts a
\* certificate and a key that belong together, and any CA certificate.
\* alone: no application is at work meanwhile, and none left torn files.
StartUp(role) ==
    /\ startup.state # "reading"
    /\ startup' = [state |-> "reading", todo |-> ReadOrder[role], seen |-> [p \in Parts |-> 0],
                   alone |-> ~torn /\ \A a \in Appliers : ~WritingFile(a)]
    /\ UNCHANGED <<installedGen, stamp, apply, applied, rotationCrashes, torn>>

ReadPart ==
    /\ startup.state = "reading" /\ startup.todo # <<>>
    /\ LET p == Head(startup.todo)
       IN  startup' = IF installedGen[p] = 0
                      THEN [startup EXCEPT !.state = "refused"]
                      ELSE [startup EXCEPT !.todo = Tail(@), !.seen[p] = installedGen[p]]
    /\ UNCHANGED <<installedGen, stamp, apply, applied, rotationCrashes, torn>>

LoadChain ==
    /\ startup.state = "reading" /\ startup.todo = <<>>
    /\ startup' = [startup EXCEPT !.state = IF startup.seen["certificate"] = startup.seen["key"]
                                            THEN "started" ELSE "refused"]
    /\ UNCHANGED <<installedGen, stamp, apply, applied, rotationCrashes, torn>>

RotationNext ==
    \/ \E a \in Appliers :
          \/ \E g \in Generations : Verify(a, g)
          \/ \E p \in Parts : WritePart(a, p)
          \/ Refuse(a) \/ WriteStamp(a) \/ RotationCrash(a)
    \/ ReadPart \/ LoadChain
    \/ \E role \in DOMAIN ReadOrder : StartUp(role)

RotationSpec == RotationInit /\ [][RotationNext]_rotVars
-----------------------------------------------------------------------------
\* After an application that no other one overlapped, the three files and
\* rotation.json are those of its bundle, whatever half-finished application
\* a death left before it; and a process that starts reads the files of one
\* bundle, and is not refused for a key that does not match the certificate,
\* unless it met an application or what a death or an overlap left.
\* (SECURITY.md:139 calls the application atomic.)
OnlyOverlapsMixFiles ==
    /\ \A a \in Appliers : apply[a].at = "applied" /\ ~apply[a].shared =>
          stamp = apply[a].gen /\ \A p \in Parts : installedGen[p] = apply[a].gen
    /\ startup.alone /\ startup.todo = <<>> =>
          /\ startup.state # "refused"
          /\ \A p, q \in Parts : startup.seen[p] = startup.seen[q]
=============================================================================
