--------------------------- MODULE TransferStore ---------------------------
(***************************************************************************)
(* The resumable upload store of a remote worker (src/psmatrix/transfer.py *)
(* and the transfer_*_hardening modules that replace its operations): the  *)
(* threads of the worker's HTTP server create sessions, store chunks and   *)
(* publish finished artifacts, others purge, and `recovery transfers       *)
(* --repair` works on the same directories from another process.           *)
(*                                                                         *)
(* A store has one lock file.  A file is published by linking a temporary  *)
(* file to its name and unlinking the temporary one: between the two it    *)
(* has two links, and every reader refuses such a file.  Readers and the   *)
(* repair take no lock.                                                    *)
(***************************************************************************)
EXTENDS Naturals, FiniteSets

CONSTANTS
    Threads,      \* threads of the worker's server
    TransferIds,  \* the uuids sessions may get
    Controllers,  \* who uploads; all of them the same artifact
    Chunks,       \* the indices of its chunks
    MaxStoreTroubles   \* bound: deaths of the server, and failed system calls

ASSUME TransferAssumption ==
    /\ IsFiniteSet(TransferIds) /\ Chunks # {} /\ MaxStoreTroubles \in Nat

VARIABLES
    transfers,    \* per id: its directory and what is in it
    object,       \* objects/<sha256>, if there is one
    storeLock,    \* the thread that holds transfers.lock
    call,         \* per thread: the operation it is in
    sweep,        \* the sessions the repair found without a manifest
    told,         \* history: what clients were told is stored, and has not
                  \* expired: sessions, and chunks with their data
    storeTroubles, \* how many of them there were
    cutShort      \* history: the sessions, and the object, on which a call
                  \* failed, or died, half way

transferVars == <<transfers, object, storeLock, call, sweep, told, storeTroubles, cutShort>>

NoThread == "nobody"

ASSUME NoThreadAssumption == NoThread \notin Threads

NoController == "nobody"
NoId == "none"
NoData == "none"
TheObject == "object"

\* A chunk or an object is what the artifact has there, or something else.
ChunkData == {"right", "wrong"}
NoChunk == [data |-> NoData, links |-> 0]
ChunkFiles == [data: ChunkData, links: {1, 2}] \cup {NoChunk}

\* place: not made, in sessions/, renamed by a purge, removed by it, moved
\* away by the repair.  litter: a temporary file that nobody will remove.
Transfer == [place: {"none", "sessions", "purged", "gone", "swept"}, owner: Controllers \cup {NoController},
             manifest: BOOLEAN, expired: BOOLEAN, complete: BOOLEAN,
             litter: BOOLEAN, chunks: [Chunks -> ChunkFiles]]
NoTransfer == [place |-> "none", owner |-> NoController, manifest |-> FALSE, expired |-> FALSE,
               complete |-> FALSE, litter |-> FALSE, chunks |-> [c \in Chunks |-> NoChunk]]

\* Its directory left sessions/.
Left(place) == [NoTransfer EXCEPT !.place = place]

LockedCalls == {"manifest", "unlink", "unlinkObject", "completion", "purge", "remove"}
CallSteps == {"idle", "scan", "scanAgain", "put", "stored", "publish"}
                 \cup LockedCalls
Calls == [step: CallSteps, owner: Controllers \cup {NoController}, id: TransferIds \cup {NoId},
          chunk: Chunks \cup {0}, data: ChunkData \cup {NoData}, due: SUBSET TransferIds]
NoCall == [step |-> "idle", owner |-> NoController, id |-> NoId,
           chunk |-> 0, data |-> NoData, due |-> {}]

TransferTypeOK ==
    /\ transfers \in [TransferIds -> Transfer]
    /\ object \in ChunkFiles
    /\ storeLock \in Threads \cup {NoThread}
    /\ call \in [Threads -> Calls]
    /\ sweep \subseteq TransferIds
    /\ told \in [sessions: SUBSET TransferIds,
                 chunks: SUBSET (TransferIds \X Chunks \X ChunkData)]
    /\ storeTroubles \in 0..MaxStoreTroubles
    /\ cutShort \subseteq TransferIds \cup {TheObject}

TransferInit ==
    /\ transfers = [i \in TransferIds |-> NoTransfer]
    /\ object = NoChunk
    /\ storeLock = NoThread
    /\ call = [t \in Threads |-> NoCall]
    /\ sweep = {}
    /\ told = [sessions |-> {}, chunks |-> {}]
    /\ storeTroubles = 0
    /\ cutShort = {}

-----------------------------------------------------------------------------
StepOf(t, step) == call[t].step = step
InPlace(i) == transfers[i].place = "sessions"
Published(i) == InPlace(i) /\ transfers[i].manifest
Active(i) == Published(i) /\ ~transfers[i].expired

\* _posix_file_present of every chunk and of the object: none has two links.
HalfLinked(i) == \E c \in Chunks : transfers[i].chunks[c].links = 2
StatusWorks(i) == Active(i) /\ ~HalfLinked(i) /\ object.links # 2
Missing(i) == {c \in Chunks : transfers[i].chunks[c] = NoChunk}

StoreFree == storeLock = NoThread
StoreTrouble == storeTroubles < MaxStoreTroubles /\ storeTroubles' = storeTroubles + 1
CutShort(x) == cutShort' = cutShort \cup {x}
Proceed(t, step) == call' = [call EXCEPT ![t].step = step]
EndCall(t) == call' = [call EXCEPT ![t] = NoCall]
Unlock == storeLock' = NoThread

\* Mutant of TakesLock: a section without the lock.
TakesNoLock(t) == UNCHANGED storeLock

TakesLock(t) == storeLock' = t

-----------------------------------------------------------------------------
(* create                                                                  *)

CallCreate(t, who) ==
    /\ StepOf(t, "idle")
    /\ call' = [call EXCEPT ![t] = [NoCall EXCEPT !.step = "scan", !.owner = who]]
    /\ UNCHANGED <<transfers, object, storeLock, sweep, told, storeTroubles, cutShort>>

Reusable(t) == {i \in TransferIds : Active(i) /\ transfers[i].owner = call[t].owner}

\* The session found is the answer; it is an error if a file has two links.
Reuse(t) ==
    /\ \E i \in Reusable(t) :
          told' = IF StatusWorks(i) THEN [told EXCEPT !.sessions = @ \cup {i}] ELSE told
    /\ EndCall(t)
    /\ UNCHANGED <<transfers, object, storeLock, sweep, storeTroubles, cutShort>>

Scan(t) ==
    /\ StepOf(t, "scan") /\ StoreFree
    /\ \/ Reuse(t)
       \/ /\ Reusable(t) = {}
          /\ Proceed(t, "scanAgain")
          /\ UNCHANGED <<transfers, object, storeLock, sweep, told, storeTroubles, cutShort>>

\* Mutant of NothingToReuse: what the first scan found still stands.
ScannedBefore(t) == TRUE

NothingToReuse(t) == Reusable(t) = {}

\* The lock was released in between: scanned again, then mkdir.
MakeSession(t) ==
    /\ NothingToReuse(t)
    /\ \E i \in TransferIds :
          /\ transfers[i].place = "none"
          /\ transfers' = [transfers EXCEPT ![i].place = "sessions",
                                            ![i].owner = call[t].owner]
          /\ call' = [call EXCEPT ![t].step = "manifest", ![t].id = i]
    /\ TakesLock(t)
    /\ UNCHANGED <<object, sweep, told, storeTroubles, cutShort>>

ScanAgain(t) ==
    /\ StepOf(t, "scanAgain") /\ StoreFree
    /\ Reuse(t) \/ MakeSession(t)

\* An error if the directory is no longer at its place.
PublishManifest(t) ==
    LET i == call[t].id IN
    /\ StepOf(t, "manifest")
    /\ IF InPlace(i)
       THEN /\ transfers' = [transfers EXCEPT ![i].manifest = TRUE]
            /\ told' = [told EXCEPT !.sessions = @ \cup {i}]
       ELSE UNCHANGED <<transfers, told>>
    /\ EndCall(t) /\ Unlock
    /\ UNCHANGED <<object, sweep, storeTroubles, cutShort>>

\* The disk refuses something.  On Windows the session is left as it is, "purge
\* can later quarantine it": the manifest missing, or published and not read
\* back.  Elsewhere what was made is removed, as far as the disk lets it.
FailCreate(t) ==
    LET i == call[t].id IN
    /\ StepOf(t, "manifest") /\ InPlace(i)
    /\ \/ transfers' = [transfers EXCEPT ![i] = Left("gone")] /\ UNCHANGED cutShort
       \/ /\ \/ transfers' = [transfers EXCEPT ![i].manifest = TRUE]
             \/ \E left \in BOOLEAN : transfers' = [transfers EXCEPT ![i].litter = left]
          /\ CutShort(i)
    /\ StoreTrouble /\ EndCall(t) /\ Unlock
    /\ UNCHANGED <<object, sweep, told>>

-----------------------------------------------------------------------------
(* put_chunk                                                               *)

\* The manifest is read before the lock is taken.
CallPut(t, i, c, data) ==
    /\ StepOf(t, "idle") /\ Active(i)
    /\ call' = [call EXCEPT ![t] = [NoCall EXCEPT !.step = "put", !.id = i,
                                                   !.chunk = c, !.data = data]]
    /\ UNCHANGED <<transfers, object, storeLock, sweep, told, storeTroubles, cutShort>>

ChunkOf(t) == transfers[call[t].id].chunks[call[t].chunk]

\* Mutant of SameBytes: a chunk of that index is as good as any.
AnyBytes(t) == ChunkOf(t).links = 1

SameBytes(t) == ChunkOf(t) = [data |-> call[t].data, links |-> 1]

\* The chunk is there: the same bytes are a success, whoever wrote them.
MatchChunk(t) ==
    /\ StepOf(t, "put") /\ StoreFree
    /\ ~InPlace(call[t].id) \/ ChunkOf(t) # NoChunk
    /\ IF InPlace(call[t].id) /\ SameBytes(t)
       THEN Proceed(t, "stored") ELSE EndCall(t)
    /\ UNCHANGED <<transfers, object, storeLock, sweep, told, storeTroubles, cutShort>>

LinkChunk(t) ==
    /\ StepOf(t, "put") /\ StoreFree
    /\ InPlace(call[t].id) /\ ChunkOf(t) = NoChunk
    /\ transfers' = [transfers EXCEPT ![call[t].id].chunks[call[t].chunk] =
                        [data |-> call[t].data, links |-> 2]]
    /\ TakesLock(t)
    /\ Proceed(t, "unlink")
    /\ UNCHANGED <<object, sweep, told, storeTroubles, cutShort>>

\* If the directory was moved the chunk is taken back.
UnlinkTemp(t) ==
    LET i == call[t].id  c == call[t].chunk IN
    /\ StepOf(t, "unlink")
    /\ IF InPlace(i)
       THEN /\ transfers' = [transfers EXCEPT ![i].chunks[c].links = 1]
            /\ Proceed(t, "stored")
       ELSE UNCHANGED transfers /\ EndCall(t)
    /\ Unlock
    /\ UNCHANGED <<object, sweep, told, storeTroubles, cutShort>>

\* The temporary name cannot be unlinked: the chunk is taken back, if the disk
\* lets it.
FailPut(t) ==
    LET i == call[t].id  c == call[t].chunk IN
    /\ StepOf(t, "unlink") /\ InPlace(i)
    /\ \/ transfers' = [transfers EXCEPT ![i].chunks[c] = NoChunk] /\ UNCHANGED cutShort
       \/ CutShort(i) /\ UNCHANGED transfers
    /\ StoreTrouble /\ EndCall(t) /\ Unlock
    /\ UNCHANGED <<object, sweep, told>>

\* put_chunk returns the status, read without the lock: any file another
\* thread is publishing makes it an error although the chunk is stored.
AnswerPut(t) ==
    /\ StepOf(t, "stored")
    /\ told' = IF StatusWorks(call[t].id)
               THEN [told EXCEPT !.chunks = @ \cup {<<call[t].id, call[t].chunk, call[t].data>>}]
               ELSE told
    /\ EndCall(t)
    /\ UNCHANGED <<transfers, object, storeLock, sweep, storeTroubles, cutShort>>

-----------------------------------------------------------------------------
(* finalize, also called by resolve when there is no object                *)

\* What the chunks make together, put in their order.
Joined(i) == IF \A c \in Chunks : transfers[i].chunks[c].data = "right"
             THEN "right" ELSE "wrong"

\* Mutant of DigestMatches: the joined chunks are not hashed.
DigestUnchecked(i) == TRUE

DigestMatches(i) == Joined(i) = "right"

\* Status, chunks and their digest, without the lock.
CallFinalize(t, i) ==
    /\ StepOf(t, "idle") /\ StatusWorks(i) /\ Missing(i) = {}
    /\ DigestMatches(i)
    /\ call' = [call EXCEPT ![t] = [NoCall EXCEPT !.step = "publish", !.id = i,
                                                   !.data = Joined(i)]]
    /\ UNCHANGED <<transfers, object, storeLock, sweep, told, storeTroubles, cutShort>>

\* The object is linked, or found whole.  (One with two links is refused; a
\* death leaves one, and then status has refused before.)
PublishObject(t) ==
    /\ StepOf(t, "publish") /\ StoreFree
    /\ TakesLock(t)
    /\ \/ /\ object = NoChunk
          /\ object' = [data |-> call[t].data, links |-> 2]
          /\ Proceed(t, "unlinkObject")
       \/ /\ object.links = 1
          /\ Proceed(t, "completion") /\ UNCHANGED object
    /\ UNCHANGED <<transfers, sweep, told, storeTroubles, cutShort>>

UnlinkObject(t) ==
    /\ StepOf(t, "unlinkObject")
    /\ object' = [object EXCEPT !.links = 1]
    /\ Proceed(t, "completion")
    /\ UNCHANGED <<transfers, storeLock, sweep, told, storeTroubles, cutShort>>

FailPublish(t) ==
    /\ StepOf(t, "unlinkObject")
    /\ \/ object' = NoChunk /\ UNCHANGED cutShort
       \/ CutShort(TheObject) /\ UNCHANGED object
    /\ StoreTrouble /\ EndCall(t) /\ Unlock
    /\ UNCHANGED <<transfers, sweep, told>>

\* complete.json, in the session the chunks were read from; the answer is
\* the status again.
WriteCompletion(t) ==
    LET i == call[t].id IN
    /\ StepOf(t, "completion")
    /\ IF InPlace(i)
       THEN transfers' = [transfers EXCEPT ![i].complete = TRUE]
       ELSE UNCHANGED transfers
    /\ EndCall(t) /\ Unlock
    /\ UNCHANGED <<object, sweep, told, storeTroubles, cutShort>>

\* The temporary file is removed, if the disk lets it; or the record is there,
\* and cannot be read back.
FailCompletion(t) ==
    LET i == call[t].id IN
    /\ StepOf(t, "completion") /\ InPlace(i)
    /\ \/ UNCHANGED <<transfers, cutShort>>
       \/ transfers' = [transfers EXCEPT ![i].complete = TRUE] /\ UNCHANGED cutShort
       \/ transfers' = [transfers EXCEPT ![i].litter = TRUE] /\ CutShort(i)
    /\ StoreTrouble /\ EndCall(t) /\ Unlock
    /\ UNCHANGED <<object, sweep, told>>

-----------------------------------------------------------------------------
(* purge_expired                                                           *)

\* A directory without a manifest, or renamed by a purge, is long expired.
Purgeable(i) ==
    \/ transfers[i].place = "purged"
    \/ InPlace(i) /\ (~transfers[i].manifest \/ transfers[i].expired)

CallPurge(t) ==
    /\ StepOf(t, "idle") /\ StoreFree
    /\ TakesLock(t)
    /\ call' = [call EXCEPT ![t] = [NoCall EXCEPT !.step = "purge",
                       !.due = {i \in TransferIds : Purgeable(i)}]]
    /\ UNCHANGED <<transfers, object, sweep, told, storeTroubles, cutShort>>

\* In the order of the names: those renamed before start with a dot.
PurgeRename(t, i) ==
    /\ StepOf(t, "purge") /\ i \in call[t].due
    /\ transfers[i].place # "purged" =>
          \A j \in call[t].due : transfers[j].place # "purged"
    /\ IF transfers[i].place = "swept"
       THEN EndCall(t) /\ Unlock /\ UNCHANGED transfers
       ELSE /\ transfers' = [transfers EXCEPT ![i].place = "purged"]
            /\ call' = [call EXCEPT ![t].step = "remove", ![t].id = i, ![t].due = @ \ {i}]
            /\ UNCHANGED storeLock
    /\ UNCHANGED <<object, sweep, told, storeTroubles, cutShort>>

Removable(i) == ~transfers[i].litter /\ ~HalfLinked(i) /\ transfers[i].place # "swept"

PurgeRemove(t) ==
    LET i == call[t].id IN
    /\ StepOf(t, "remove") /\ Removable(i)
    /\ transfers' = [transfers EXCEPT ![i] = Left("gone")]
    /\ Proceed(t, "purge")
    /\ UNCHANGED <<object, storeLock, sweep, told, storeTroubles, cutShort>>

\* Chunks are removed in their order, then the records.
WithoutChunks(i, gone) ==
    [transfers[i] EXCEPT !.chunks = [c \in Chunks |-> IF c \in gone THEN NoChunk ELSE @[c]]]
FirstChunks(i) == {c \in Chunks : \A d \in Chunks : d <= c => transfers[i].chunks[d].links # 2}

\* An unexpected name, or a chunk with two links, ends the purge.
PurgeRefused(t) ==
    LET i == call[t].id IN
    /\ StepOf(t, "remove") /\ ~Removable(i)
    /\ transfers' = IF transfers[i].litter \/ transfers[i].place = "swept" THEN transfers
                    ELSE [transfers EXCEPT ![i] = WithoutChunks(i, FirstChunks(i))]
    /\ EndCall(t) /\ Unlock
    /\ UNCHANGED <<object, sweep, told, storeTroubles, cutShort>>

\* So does what the disk refuses.  The renamed directory is left, with what is
\* still in it.
FailPurge(t) ==
    LET i == call[t].id IN
    /\ StepOf(t, "remove") /\ Removable(i)
    /\ \/ \E c \in Chunks :
             transfers' = [transfers EXCEPT ![i] = WithoutChunks(i, {d \in Chunks : d < c})]
       \/ \E kept \in {transfers[i].manifest, FALSE} :
             transfers' = [transfers EXCEPT ![i] = [WithoutChunks(i, Chunks) EXCEPT !.complete = FALSE,
                                                                                   !.manifest = kept]]
    /\ CutShort(i) /\ StoreTrouble
    /\ EndCall(t) /\ Unlock
    /\ UNCHANGED <<object, sweep, told>>

\* Nothing more is due, or the next directory cannot be opened or renamed.
EndPurge(t) ==
    /\ StepOf(t, "purge")
    /\ EndCall(t) /\ Unlock
    /\ UNCHANGED <<transfers, object, sweep, told, storeTroubles, cutShort>>

-----------------------------------------------------------------------------
(* TransferRecovery.repair, in a process of its own, without the lock      *)

NoManifest == {i \in TransferIds :
                  transfers[i].place \in {"sessions", "purged"} /\ ~transfers[i].manifest}

Audit ==
    /\ sweep = {} /\ NoManifest # {}
    /\ sweep' = NoManifest
    /\ UNCHANGED <<transfers, object, storeLock, call, told, storeTroubles, cutShort>>

\* Whatever has that name now is moved out of sessions/.
Sweep(i) ==
    /\ i \in sweep
    /\ sweep' = sweep \ {i}
    /\ transfers' = IF transfers[i].place \in {"sessions", "purged"}
                    THEN [transfers EXCEPT ![i] = Left("swept")] ELSE transfers
    /\ UNCHANGED <<object, storeLock, call, told, storeTroubles, cutShort>>

-----------------------------------------------------------------------------
Expire(i) ==
    /\ Active(i)
    /\ transfers' = [transfers EXCEPT ![i].expired = TRUE]
    /\ told' = [sessions |-> told.sessions \ {i},
                chunks |-> {u \in told.chunks : u[1] # i}]
    /\ UNCHANGED <<object, storeLock, call, sweep, storeTroubles, cutShort>>

\* t is in the middle of a change of x.
Within(t, x) ==
    \/ call[t].step \in {"manifest", "unlink", "completion", "remove"} /\ call[t].id = x
    \/ call[t].step = "unlinkObject" /\ x = TheObject

\* The server is killed: what it was writing stays as it is.
ServerDies ==
    /\ StoreTrouble
    /\ call' = [t \in Threads |-> NoCall]
    /\ Unlock
    /\ \/ UNCHANGED transfers
       \/ \E t \in Threads :
             /\ call[t].step \in {"manifest", "completion"} /\ InPlace(call[t].id)
             /\ transfers' = [transfers EXCEPT ![call[t].id].litter = TRUE]
    /\ cutShort' = cutShort \cup {x \in TransferIds \cup {TheObject} : \E t \in Threads : Within(t, x)}
    /\ UNCHANGED <<object, sweep, told>>

ThreadStep(t) ==
    \/ \E who \in Controllers : CallCreate(t, who)
    \/ Scan(t) \/ ScanAgain(t) \/ PublishManifest(t) \/ FailCreate(t)
    \/ MatchChunk(t) \/ LinkChunk(t) \/ UnlinkTemp(t) \/ FailPut(t) \/ AnswerPut(t)
    \/ PublishObject(t) \/ UnlinkObject(t) \/ FailPublish(t)
    \/ WriteCompletion(t) \/ FailCompletion(t)
    \/ CallPurge(t) \/ PurgeRemove(t) \/ PurgeRefused(t) \/ FailPurge(t) \/ EndPurge(t)

SessionStep(t, i) ==
    \/ \E c \in Chunks, data \in ChunkData : CallPut(t, i, c, data)
    \/ CallFinalize(t, i)
    \/ PurgeRename(t, i)

TransferNext ==
    \/ \E t \in Threads : ThreadStep(t) \/ \E i \in TransferIds : SessionStep(t, i)
    \/ Audit
    \/ \E i \in TransferIds : Sweep(i) \/ Expire(i)
    \/ ServerDies

TransferSpec == TransferInit /\ [][TransferNext]_transferVars

-----------------------------------------------------------------------------
(* Properties *)

\* "Recheck after reacquiring the create lock so two concurrent creators
\* cannot both publish equivalent active sessions": however many creates race,
\* and whatever dies, a controller has at most one active session.
OneActiveSession ==
    \A i, j \in TransferIds :
        Active(i) /\ Active(j) /\ transfers[i].owner = transfers[j].owner => i = j

\* A session and the chunks a client was told are stored are there, with the
\* same bytes, until the session expires or the repair, which takes no lock,
\* moves it away.
AcknowledgedUploadsStay ==
    \A i \in TransferIds : transfers[i].place # "swept" =>
        /\ i \in told.sessions => Active(i)
        /\ \A c \in Chunks, data \in ChunkData : <<i, c, data>> \in told.chunks =>
              Active(i) /\ transfers[i].chunks[c] = [data |-> data, links |-> 1]

\* A session is complete only when the object is: whole, readable, and there
\* whatever dies or is purged afterwards.
CompletionFollowsTheObject ==
    \A i \in TransferIds : transfers[i].complete => object = [data |-> "right", links |-> 1]

\* Whoever takes the lock meets nothing half done but what was cut short: a
\* file with two links, a left-over temporary file, a session without its
\* manifest or an unfinished purge is of a session (or is the object) on which a
\* call died, or failed and could not clean up, or of a purge that failed.  The
\* races of creates, uploads, purges and the repair leave none, and what one
\* session suffers never spreads to another.
OnlyCutWorkIsHalfDone ==
    StoreFree =>
        /\ object.links = 2 => TheObject \in cutShort
        /\ \A i \in TransferIds \ cutShort :
              /\ InPlace(i) => Published(i) /\ ~HalfLinked(i) /\ ~transfers[i].litter
              /\ transfers[i].place # "purged"
=============================================================================
