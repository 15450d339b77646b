----------------------------- MODULE TrustStore ----------------------------
(***************************************************************************)
(* The trust store of a home (signing.py with its hardening modules), which *)
(* says which key an identity signs with.  `trust add`, `rotate` and       *)
(* `revoke` change it; whoever verifies a signature looks the key up.      *)
(*                                                                         *)
(* A command reads a file, works out what it becomes and replaces it, under *)
(* no lock.  _publish_posix then looks whether the file of that name is    *)
(* the one it wrote and removes what is there if it is not.  A file is     *)
(* told apart by the command that wrote it.                                *)
(***************************************************************************)
EXTENDS Naturals

LOCAL INSTANCE Functions

CONSTANTS Admins,       \* processes that run commands
          Identities,   \* identities of one role
          Keys,         \* public keys they may have
          MaxCommands,  \* bound: commands of all processes
          MaxKeyDeaths  \* bound: processes that die in a command

ASSUME TrustAssumption ==
    MaxCommands \in Nat /\ MaxKeyDeaths \in Nat /\ "index" \notin Keys

VARIABLES index,        \* trust/index.json: its file and its entries
          keyFile,      \* trust/keys: the file of each key
          command,      \* the command each process is in
          commands,     \* commands each has begun
          keyDeaths,
          unreadd,      \* history: identities revoked and not added since
          undone        \* history: what may have undone a command that returned

trustVars == <<index, keyFile, command, commands, keyDeaths, unreadd, undone>>

Nowhere == <<"nowhere", 0>>
OwnFile(p) == <<p, commands[p]>>
Unlisted == [status |-> "absent", key |-> "none"]
NoIndex == [file |-> Nowhere, entries |-> [i \in Identities |-> Unlisted]]

NoCommand == [op |-> "none", at |-> "idle", id |-> "none", key |-> "none", target |-> "none",
              then |-> "none", loaded |-> NoIndex]

TrustInit ==
    /\ index = NoIndex
    /\ keyFile = [k \in Keys |-> Nowhere]
    /\ command = [p \in Admins |-> NoCommand]
    /\ commands = [p \in Admins |-> 0]
    /\ keyDeaths = 0
    /\ unreadd = {}
    /\ undone = {}

NoCommandIn(p) == command[p].at \in {"idle", "done"}
CommandAt(p, at) == command' = [command EXCEPT ![p].at = at]
CommandEnds(p) == command' = [command EXCEPT ![p] = NoCommand]

CommandsSoFar == FoldFunction(LAMBDA n, m : n + m, 0, commands)

StartCommand(p, op, at, i, k) ==
    /\ NoCommandIn(p) /\ CommandsSoFar < MaxCommands
    /\ commands' = [commands EXCEPT ![p] = @ + 1]
    /\ command' = [command EXCEPT ![p] = [NoCommand EXCEPT !.op = op, !.at = at, !.id = i, !.key = k]]

-----------------------------------------------------------------------------
\* _publish_posix(path): os.replace, a stat of the name, and os.unlink of the
\* name when the stat shows another file.
FileOf(t) == IF t = "index" THEN index.file ELSE keyFile[t]

ConfirmFile(p) ==
    /\ command[p].at = "confirm"
    /\ CommandAt(p, IF FileOf(command[p].target) = OwnFile(p) THEN command[p].then ELSE "withdraw")
    /\ UNCHANGED <<index, keyFile, commands, keyDeaths, unreadd, undone>>

WithdrawFile(p) ==
    /\ command[p].at = "withdraw"
    /\ LET t == command[p].target
       IN  /\ index' = IF t = "index" THEN NoIndex ELSE index
           /\ keyFile' = IF t \in Keys THEN [keyFile EXCEPT ![t] = Nowhere] ELSE keyFile
           /\ undone' = undone \cup {IF t = "index" THEN "index removed" ELSE "key removed"}
    /\ CommandEnds(p)
    /\ UNCHANGED <<commands, keyDeaths, unreadd>>

-----------------------------------------------------------------------------
\* Mutant: the index names the key before its file is there.
AddBeginIndexFirst(p, i, k, replace) ==
    /\ StartCommand(p, IF replace THEN "replace" ELSE "add", "load", i, k)
    /\ UNCHANGED <<index, keyFile, keyDeaths, unreadd, undone>>

\* TrustStore.add: the key goes to a file named by its id, and is read back.
AddBegin(p, i, k, replace) ==
    /\ StartCommand(p, IF replace THEN "replace" ELSE "add", "key", i, k)
    /\ UNCHANGED <<index, keyFile, keyDeaths, unreadd, undone>>

WriteKeyFile(p) ==
    /\ command[p].at = "key"
    /\ keyFile' = [keyFile EXCEPT ![command[p].key] = OwnFile(p)]
    /\ command' = [command EXCEPT ![p].at = "confirm", ![p].target = command[p].key,
                                  ![p].then = "key id"]
    /\ UNCHANGED <<index, commands, keyDeaths, unreadd, undone>>

CheckKeyFile(p) ==
    /\ command[p].at = "key id"
    /\ IF keyFile[command[p].key] = Nowhere THEN CommandEnds(p) ELSE CommandAt(p, "load")
    /\ UNCHANGED <<index, keyFile, commands, keyDeaths, unreadd, undone>>

\* _load_index of add: an identity that is there has to be replaced explicitly;
\* rotate has looked before and always replaces.
LoadForAdd(p) ==
    /\ command[p].at = "load" /\ command[p].op # "revoke"
    /\ LET i == command[p].id
           there == index.entries[i].status # "absent"
       IN  IF there /\ command[p].op = "add"
           THEN CommandEnds(p)
           ELSE command' = [command EXCEPT ![p].at = "save", ![p].loaded = index]
    /\ undone' = IF command[p].op = "rotate" /\ index.file # command[p].loaded.file
                 THEN undone \cup {"rotated"} ELSE undone
    /\ UNCHANGED <<index, keyFile, commands, keyDeaths, unreadd>>

\* TrustStore.revoke
RevokeBegin(p, i) ==
    /\ StartCommand(p, "revoke", "load", i, "none")
    /\ UNCHANGED <<index, keyFile, keyDeaths, unreadd, undone>>

LoadForRevoke(p) ==
    /\ command[p].at = "load" /\ command[p].op = "revoke"
    /\ IF index.entries[command[p].id].status = "absent"
       THEN CommandEnds(p)
       ELSE command' = [command EXCEPT ![p].at = "save", ![p].loaded = index]
    /\ UNCHANGED <<index, keyFile, commands, keyDeaths, unreadd, undone>>

\* TrustStore.get, as rotate and the verifiers of jobs call it: an active entry
\* and the file of its key.
LookUpBegin(p, op, i, k) ==
    /\ op \in {"get", "rotate"}
    /\ StartCommand(p, op, "look", i, k)
    /\ UNCHANGED <<index, keyFile, keyDeaths, unreadd, undone>>

\* Mutant: rotate does not ask whether the identity is still trusted.
LookUpAny(p) ==
    /\ command[p].at = "look"
    /\ IF index.entries[command[p].id].status # "absent"
       THEN command' = [command EXCEPT ![p].at = "look key", ![p].loaded = index]
       ELSE CommandEnds(p)
    /\ UNCHANGED <<index, keyFile, commands, keyDeaths, unreadd, undone>>

LookUp(p) ==
    /\ command[p].at = "look"
    /\ IF index.entries[command[p].id].status = "active"
       THEN command' = [command EXCEPT ![p].at = "look key", ![p].loaded = index]
       ELSE CommandEnds(p)
    /\ UNCHANGED <<index, keyFile, commands, keyDeaths, unreadd, undone>>

\* expected_current_key_id may make rotate stop here.
LookUpKey(p) ==
    /\ command[p].at = "look key"
    /\ \/ CommandEnds(p)
       \/ /\ keyFile[command[p].loaded.entries[command[p].id].key] # Nowhere
          /\ CommandAt(p, IF command[p].op = "get" THEN "done" ELSE "key")
    /\ UNCHANGED <<index, keyFile, commands, keyDeaths, unreadd, undone>>

\* _write_index: the entries as they were loaded, with the one changed.  rotate
\* complains of a key that did not change when this has been written.
NewEntry(p) ==
    IF command[p].op = "revoke"
    THEN [command[p].loaded.entries[command[p].id] EXCEPT !.status = "revoked"]
    ELSE [status |-> "active", key |-> command[p].key]

\* Mutant: only the changed entry is written.
SaveOneEntry(p) ==
    /\ command[p].at = "save"
    /\ LET i == command[p].id
       IN  /\ index' = [file |-> OwnFile(p), entries |-> [NoIndex.entries EXCEPT ![i] = NewEntry(p)]]
           /\ unreadd' = IF command[p].op = "revoke" THEN unreadd \cup {i}
                         ELSE IF command[p].op = "rotate" THEN unreadd ELSE unreadd \ {i}
    /\ undone' = IF index.file # command[p].loaded.file THEN undone \cup {"stale write"} ELSE undone
    /\ command' = [command EXCEPT ![p].at = "confirm", ![p].target = "index", ![p].then = "done"]
    /\ UNCHANGED <<keyFile, commands, keyDeaths>>

SaveIndex(p) ==
    /\ command[p].at = "save"
    /\ LET i == command[p].id
       IN  /\ index' = [file |-> OwnFile(p),
                        entries |-> [command[p].loaded.entries EXCEPT ![i] = NewEntry(p)]]
           /\ unreadd' = IF command[p].op = "revoke" THEN unreadd \cup {i}
                         ELSE IF command[p].op = "rotate" THEN unreadd ELSE unreadd \ {i}
    /\ undone' = IF index.file # command[p].loaded.file THEN undone \cup {"stale write"} ELSE undone
    /\ command' = [command EXCEPT ![p].at = "confirm", ![p].target = "index", ![p].then = "done"]
    /\ UNCHANGED <<keyFile, commands, keyDeaths>>

-----------------------------------------------------------------------------
KeyDeath(p) ==
    /\ ~NoCommandIn(p) /\ keyDeaths < MaxKeyDeaths
    /\ keyDeaths' = keyDeaths + 1
    /\ CommandEnds(p)
    /\ UNCHANGED <<index, keyFile, commands, unreadd, undone>>

TrustNext ==
    \E p \in Admins :
       \/ \E i \in Identities, k \in Keys :
             \/ \E replace \in BOOLEAN : AddBegin(p, i, k, replace)
             \/ LookUpBegin(p, "rotate", i, k)
       \/ \E i \in Identities : RevokeBegin(p, i) \/ LookUpBegin(p, "get", i, "none")
       \/ ConfirmFile(p) \/ WithdrawFile(p)
       \/ WriteKeyFile(p) \/ CheckKeyFile(p) \/ LoadForAdd(p) \/ LoadForRevoke(p)
       \/ LookUp(p) \/ LookUpKey(p) \/ SaveIndex(p)
       \/ KeyDeath(p)

TrustSpec == TrustInit /\ [][TrustNext]_trustVars

-----------------------------------------------------------------------------
\* A revoked identity is not trusted again until somebody adds it again, but
\* for what commands that overlap do: a writer that loaded the index before the
\* revocation, and a rotation that looked before it.
RevocationsHold ==
    undone \cap {"stale write", "rotated"} = {} =>
       \A i \in unreadd : index.entries[i].status # "active"

\* Every active entry can be used: the file of its key is there, unless
\* overlapping commands removed one.
TrustedKeysThere ==
    "key removed" \notin undone =>
       \A i \in Identities : index.entries[i].status = "active" =>
          keyFile[index.entries[i].key] # Nowhere

\* What was revoked is not forgotten, unless overlapping commands
\* replaced or removed the index.
NothingForgotten ==
    undone \cap {"stale write", "index removed"} = {} =>
       \A i \in unreadd : index.entries[i].status # "absent"
=============================================================================
