----------------------- MODULE TransferDeliveryProofs -----------------------
(***************************************************************************)
(* Proofs about what the HTTP server takes in and gives out.  First the     *)
(* upload store, for any number of threads, sessions, controllers and       *)
(* chunks, and any number of deaths and of failed calls.  Then the project   *)
(* sessions: their types, that a project stays removed after its            *)
(* termination was answered, and that only a validated source is           *)
(* downloaded, for any number of threads, validations and uploads.          *)
(***************************************************************************)
EXTENDS TransferStore, DeliverySession, TLAPS

-----------------------------------------------------------------------------
(* Types, and what a call has as its arguments at each step.               *)

WithId == {"manifest", "put", "unlink", "stored", "publish", "unlinkObject", "completion", "remove"}

\* A call works on a session that was made, and a finalize on whole bytes.
ArgumentsOf(t) ==
    /\ call[t].step \in WithId =>
          call[t].id \in TransferIds /\ transfers[call[t].id].place # "none"
    /\ call[t].step \in {"put", "unlink", "stored"} =>
          call[t].chunk \in Chunks /\ call[t].data \in ChunkData
    /\ call[t].step = "publish" => call[t].data = "right"
    /\ call[t].step = "unlinkObject" => object.links = 2
Arguments == \A t \in Threads : ArgumentsOf(t)

\* A section under the lock has it.
LockedOf(t) == call[t].step \in LockedCalls => storeLock = t
Locked == \A t \in Threads : LockedOf(t)

\* A chunk that is being published has two links, unless the session was moved.
LinkingOf(t) ==
    call[t].step = "unlink" /\ InPlace(call[t].id) =>
        ChunkOf(t) = [data |-> call[t].data, links |-> 2]
Linking == \A t \in Threads : LinkingOf(t)

\* What was not made has no manifest and no expiry.
Fresh ==
    \A i \in TransferIds :
        transfers[i].place = "none" => ~transfers[i].manifest /\ ~transfers[i].expired

BaseInv == TransferTypeOK /\ Arguments /\ Locked /\ Linking /\ Fresh

\* A thread goes on, or ends its call.
LEMMA ProceedTo ==
  ASSUME TransferTypeOK, NEW t \in Threads, NEW step \in CallSteps, Proceed(t, step)
  PROVE  /\ call' \in [Threads -> Calls]
         /\ call'[t].step = step
         /\ call'[t].owner = call[t].owner /\ call'[t].id = call[t].id
         /\ call'[t].chunk = call[t].chunk /\ call'[t].data = call[t].data
         /\ call'[t].due = call[t].due
         /\ \A u \in Threads \ {t} : call'[u] = call[u]
  BY DEF TransferTypeOK, Proceed, Calls

LEMMA NoCallTyped == NoCall \in Calls /\ NoCall.step = "idle"
  BY DEF NoCall, Calls, CallSteps, NoController, NoId, NoData

LEMMA EndsCall ==
  ASSUME TransferTypeOK, NEW t \in Threads, EndCall(t)
  PROVE  /\ call' \in [Threads -> Calls]
         /\ call'[t].step = "idle"
         /\ \A u \in Threads \ {t} : call'[u] = call[u]
  BY NoCallTyped DEF TransferTypeOK, EndCall

\* What one session may become.
LEMMA Changes ==
  ASSUME TransferTypeOK, NEW i \in TransferIds, NEW x \in Transfer,
         transfers' = [transfers EXCEPT ![i] = x]
  PROVE  /\ transfers' \in [TransferIds -> Transfer]
         /\ transfers'[i] = x
         /\ \A j \in TransferIds \ {i} : transfers'[j] = transfers[j]
  BY DEF TransferTypeOK

LEMMA LeftTyped ==
  ASSUME NEW place \in {"gone", "swept"}
  PROVE  /\ Left(place) \in Transfer /\ Left(place).place = place /\ ~Left(place).manifest
         /\ ~Left(place).expired /\ ~Left(place).complete /\ ~Left(place).litter
         /\ \A c \in Chunks : Left(place).chunks[c] = NoChunk
  BY DEF Left, NoTransfer, Transfer, ChunkFiles, NoController

\* While one thread has the lock no other is in a section.
LEMMA Alone ==
  ASSUME Locked, NEW t \in Threads, StoreFree \/ storeLock = t
  PROVE  \A u \in Threads \ {t} : call[u].step \notin LockedCalls
  BY NoThreadAssumption DEF Locked, LockedOf, StoreFree

-----------------------------------------------------------------------------
(* What each action that changes a session does to it, field by field.      *)

OnlyThread(t) ==
    call' \in [Threads -> Calls] /\ \A u \in Threads \ {t} : call'[u] = call[u]

OnlySession(i) ==
    /\ transfers' \in [TransferIds -> Transfer]
    /\ \A j \in TransferIds \ {i} : transfers'[j] = transfers[j]

KeepsPlace(i) == transfers'[i].place = transfers[i].place /\ transfers'[i].owner = transfers[i].owner
KeepsManifest(i) == transfers'[i].manifest = transfers[i].manifest
KeepsExpired(i) == transfers'[i].expired = transfers[i].expired
KeepsComplete(i) == transfers'[i].complete = transfers[i].complete
KeepsLitter(i) == transfers'[i].litter = transfers[i].litter
KeepsChunks(i) == transfers'[i].chunks = transfers[i].chunks

LEMMA MakeSessionEffect ==
  ASSUME TransferTypeOK, NEW t \in Threads, MakeSession(t)
  PROVE  \E i \in TransferIds :
            /\ transfers[i].place = "none" /\ OnlySession(i) /\ OnlyThread(t)
            /\ transfers'[i].place = "sessions" /\ transfers'[i].owner = call[t].owner
            /\ KeepsManifest(i) /\ KeepsExpired(i) /\ KeepsComplete(i) /\ KeepsLitter(i)
            /\ KeepsChunks(i)
            /\ call'[t].step = "manifest" /\ call'[t].id = i
<1>1. PICK i \in TransferIds :
         /\ transfers[i].place = "none"
         /\ transfers' = [transfers EXCEPT ![i].place = "sessions", ![i].owner = call[t].owner]
         /\ call' = [call EXCEPT ![t].step = "manifest", ![t].id = i]
  BY DEF MakeSession
<1> DEFINE x == [transfers[i] EXCEPT !.place = "sessions", !.owner = call[t].owner]
           k == [call[t] EXCEPT !.step = "manifest", !.id = i]
<1>2. transfers[i] \in Transfer /\ call[t] \in Calls
  BY DEF TransferTypeOK
<1>3. x \in Transfer /\ k \in Calls
  BY <1>2 DEF Transfer, Calls, CallSteps, LockedCalls
<1>4. transfers' = [transfers EXCEPT ![i] = x] /\ call' = [call EXCEPT ![t] = k]
  BY <1>1, <1>2 DEF TransferTypeOK, Transfer, Calls
<1>5. transfers'[i] = x /\ call'[t] = k /\ OnlySession(i) /\ OnlyThread(t)
  BY <1>3, <1>4 DEF TransferTypeOK, OnlySession, OnlyThread
<1>6. /\ x.place = "sessions" /\ x.owner = call[t].owner /\ x.manifest = transfers[i].manifest
      /\ x.expired = transfers[i].expired /\ x.complete = transfers[i].complete
      /\ x.litter = transfers[i].litter /\ x.chunks = transfers[i].chunks
      /\ k.step = "manifest" /\ k.id = i
  BY <1>2 DEF Transfer, Calls
<1> HIDE DEF x, k
<1> QED
  BY <1>1, <1>5, <1>6 DEF KeepsManifest, KeepsExpired, KeepsComplete, KeepsLitter, KeepsChunks

\* A session gets its manifest, is complete, is renamed by a purge, or expires.
LEMMA FlagEffects ==
  ASSUME TransferTypeOK, NEW i \in TransferIds
  PROVE  /\ transfers' = [transfers EXCEPT ![i].manifest = TRUE] =>
              /\ OnlySession(i) /\ transfers'[i].manifest /\ KeepsPlace(i) /\ KeepsExpired(i)
              /\ KeepsComplete(i) /\ KeepsLitter(i) /\ KeepsChunks(i)
         /\ transfers' = [transfers EXCEPT ![i].complete = TRUE] =>
              /\ OnlySession(i) /\ transfers'[i].complete /\ KeepsPlace(i) /\ KeepsManifest(i)
              /\ KeepsExpired(i) /\ KeepsLitter(i) /\ KeepsChunks(i)
         /\ \A left \in BOOLEAN : transfers' = [transfers EXCEPT ![i].litter = left] =>
              /\ OnlySession(i) /\ KeepsPlace(i) /\ KeepsManifest(i)
              /\ KeepsExpired(i) /\ KeepsComplete(i) /\ KeepsChunks(i)
         /\ transfers' = [transfers EXCEPT ![i].expired = TRUE] =>
              /\ OnlySession(i) /\ transfers'[i].expired /\ KeepsPlace(i) /\ KeepsManifest(i)
              /\ KeepsComplete(i) /\ KeepsLitter(i) /\ KeepsChunks(i)
         /\ transfers' = [transfers EXCEPT ![i].place = "purged"] =>
              /\ OnlySession(i) /\ transfers'[i].place = "purged"
              /\ KeepsManifest(i) /\ KeepsExpired(i) /\ KeepsComplete(i) /\ KeepsLitter(i)
              /\ KeepsChunks(i)
<1>1. transfers[i] \in Transfer
  BY DEF TransferTypeOK
<1> USE <1>1 DEF TransferTypeOK, Transfer, OnlySession, KeepsPlace, KeepsManifest, KeepsExpired,
                 KeepsComplete, KeepsLitter, KeepsChunks
<1>2. ASSUME transfers' = [transfers EXCEPT ![i].manifest = TRUE]
      PROVE  /\ OnlySession(i) /\ transfers'[i].manifest /\ KeepsPlace(i) /\ KeepsExpired(i)
             /\ KeepsComplete(i) /\ KeepsLitter(i) /\ KeepsChunks(i)
  BY <1>2
<1>3. ASSUME transfers' = [transfers EXCEPT ![i].complete = TRUE]
      PROVE  /\ OnlySession(i) /\ transfers'[i].complete /\ KeepsPlace(i) /\ KeepsManifest(i)
             /\ KeepsExpired(i) /\ KeepsLitter(i) /\ KeepsChunks(i)
  BY <1>3
<1>4. ASSUME NEW left \in BOOLEAN, transfers' = [transfers EXCEPT ![i].litter = left]
      PROVE  /\ OnlySession(i) /\ KeepsPlace(i) /\ KeepsManifest(i)
             /\ KeepsExpired(i) /\ KeepsComplete(i) /\ KeepsChunks(i)
  BY <1>4
<1>5. ASSUME transfers' = [transfers EXCEPT ![i].expired = TRUE]
      PROVE  /\ OnlySession(i) /\ transfers'[i].expired /\ KeepsPlace(i) /\ KeepsManifest(i)
             /\ KeepsComplete(i) /\ KeepsLitter(i) /\ KeepsChunks(i)
  BY <1>5
<1>6. ASSUME transfers' = [transfers EXCEPT ![i].place = "purged"]
      PROVE  /\ OnlySession(i) /\ transfers'[i].place = "purged"
             /\ KeepsManifest(i) /\ KeepsExpired(i) /\ KeepsComplete(i) /\ KeepsLitter(i)
             /\ KeepsChunks(i)
  BY <1>6
<1> HIDE DEF TransferTypeOK, Transfer, OnlySession, KeepsPlace, KeepsManifest, KeepsExpired,
             KeepsComplete, KeepsLitter, KeepsChunks
<1> QED  BY <1>2, <1>3, <1>4, <1>5, <1>6

\* A chunk changes.
ChunkBecomes(i, c, k) == transfers' = [transfers EXCEPT ![i].chunks[c] = k]

LEMMA ChunkEffect ==
  ASSUME TransferTypeOK, NEW i \in TransferIds, NEW c \in Chunks, NEW k \in ChunkFiles, ChunkBecomes(i, c, k)
  PROVE  /\ OnlySession(i) /\ KeepsPlace(i) /\ KeepsManifest(i) /\ KeepsExpired(i)
         /\ KeepsComplete(i) /\ KeepsLitter(i)
         /\ transfers'[i].chunks[c] = k
         /\ \A d \in Chunks \ {c} : transfers'[i].chunks[d] = transfers[i].chunks[d]
<1>1. transfers[i] \in Transfer /\ transfers[i].chunks \in [Chunks -> ChunkFiles]
  BY DEF TransferTypeOK, Transfer
<1> DEFINE x == [transfers[i] EXCEPT !.chunks = [transfers[i].chunks EXCEPT ![c] = k]]
<1>2. x \in Transfer
  BY <1>1 DEF Transfer
<1>3. transfers' = [transfers EXCEPT ![i] = x]
  BY <1>1 DEF ChunkBecomes, TransferTypeOK, Transfer
<1>4. transfers'[i] = x /\ OnlySession(i)
  BY <1>2, <1>3 DEF TransferTypeOK, OnlySession
<1>5. /\ x.place = transfers[i].place /\ x.owner = transfers[i].owner
      /\ x.manifest = transfers[i].manifest /\ x.expired = transfers[i].expired
      /\ x.complete = transfers[i].complete /\ x.litter = transfers[i].litter
      /\ x.chunks = [transfers[i].chunks EXCEPT ![c] = k]
  BY <1>1 DEF Transfer
<1> HIDE DEF x
<1>6. /\ transfers'[i].chunks[c] = k
      /\ \A d \in Chunks \ {c} : transfers'[i].chunks[d] = transfers[i].chunks[d]
  BY <1>1, <1>4, <1>5
<1> QED
  BY <1>4, <1>5, <1>6 DEF KeepsPlace, KeepsManifest, KeepsExpired, KeepsComplete, KeepsLitter

\* The temporary file of a chunk is unlinked.
LEMMA UnlinkEffect ==
  ASSUME TransferTypeOK, NEW i \in TransferIds, NEW c \in Chunks, NEW d \in ChunkData,
         transfers[i].chunks[c] = [data |-> d, links |-> 2],
         transfers' = [transfers EXCEPT ![i].chunks[c].links = 1]
  PROVE  /\ OnlySession(i) /\ KeepsPlace(i) /\ KeepsManifest(i) /\ KeepsExpired(i)
         /\ KeepsComplete(i) /\ KeepsLitter(i)
         /\ transfers'[i].chunks[c] = [data |-> d, links |-> 1]
         /\ \A e \in Chunks \ {c} : transfers'[i].chunks[e] = transfers[i].chunks[e]
<1> DEFINE k == [data |-> d, links |-> 1]
<1>1. [transfers[i].chunks[c] EXCEPT !.links = 1] = k
  OBVIOUS
<1>2. k \in ChunkFiles
  BY DEF ChunkFiles
<1> HIDE DEF k
<1>3. transfers[i] \in Transfer /\ transfers[i].chunks \in [Chunks -> ChunkFiles]
  BY DEF TransferTypeOK, Transfer
<1>4. ChunkBecomes(i, c, k)
  BY <1>1, <1>3 DEF ChunkBecomes, TransferTypeOK, Transfer
<1>5. /\ OnlySession(i) /\ KeepsPlace(i) /\ KeepsManifest(i) /\ KeepsExpired(i)
      /\ KeepsComplete(i) /\ KeepsLitter(i)
      /\ transfers'[i].chunks[c] = k
      /\ \A e \in Chunks \ {c} : transfers'[i].chunks[e] = transfers[i].chunks[e]
  BY <1>2, <1>4, ChunkEffect
<1> QED  BY <1>5 DEF k

-----------------------------------------------------------------------------
(* What each action does to one session.                                   *)

KeepsFlags(i) == KeepsPlace(i) /\ KeepsExpired(i) /\ KeepsLitter(i)

\* create: the directory, then its manifest.
SessionMade(t, i) ==
    /\ MakeSession(t) /\ StoreFree /\ transfers[i].place = "none" /\ OnlySession(i) /\ OnlyThread(t)
    /\ transfers'[i].place = "sessions" /\ transfers'[i].owner = call[t].owner
    /\ KeepsManifest(i) /\ KeepsExpired(i) /\ KeepsComplete(i) /\ KeepsLitter(i) /\ KeepsChunks(i)
    /\ call'[t].step = "manifest" /\ call'[t].id = i

Manifested(t, i) ==
    /\ StepOf(t, "manifest") /\ storeLock = t /\ call[t].id = i /\ InPlace(i)
    /\ OnlySession(i) /\ OnlyThread(t) /\ call'[t].step = "idle"
    /\ transfers'[i].manifest /\ KeepsFlags(i) /\ KeepsComplete(i) /\ KeepsChunks(i)

\* create that failed and cleaned up.
Discarded(t, i) ==
    /\ StepOf(t, "manifest") /\ storeLock = t /\ call[t].id = i /\ InPlace(i)
    /\ OnlySession(i) /\ OnlyThread(t) /\ transfers'[i] = Left("gone")

\* put_chunk: the chunk with two links, then with one, or taken back.
Linked(t, i, c) ==
    /\ LinkChunk(t) /\ StoreFree /\ call[t].id = i /\ call[t].chunk = c /\ InPlace(i)
    /\ OnlySession(i) /\ OnlyThread(t) /\ call'[t].step = "unlink" /\ call'[t].id = i
    /\ KeepsFlags(i) /\ KeepsManifest(i) /\ KeepsComplete(i)
    /\ transfers[i].chunks[c] = NoChunk
    /\ transfers'[i].chunks[c] = [data |-> call[t].data, links |-> 2]
    /\ \A d \in Chunks \ {c} : transfers'[i].chunks[d] = transfers[i].chunks[d]

Unlinked(t, i, c) ==
    /\ StepOf(t, "unlink") /\ storeLock = t
    /\ call[t].id = i /\ call[t].chunk = c /\ InPlace(i)
    /\ OnlySession(i) /\ OnlyThread(t)
    /\ KeepsFlags(i) /\ KeepsManifest(i) /\ KeepsComplete(i)
    /\ transfers[i].chunks[c] = [data |-> call[t].data, links |-> 2]
    /\ transfers'[i].chunks[c] \in {[data |-> call[t].data, links |-> 1], NoChunk}
    /\ \A d \in Chunks \ {c} : transfers'[i].chunks[d] = transfers[i].chunks[d]

\* finalize: complete.json.
Completed(t, i) ==
    /\ StepOf(t, "completion") /\ storeLock = t /\ call[t].id = i /\ InPlace(i)
    /\ OnlySession(i) /\ OnlyThread(t)
    /\ KeepsFlags(i) /\ KeepsManifest(i) /\ KeepsChunks(i)

\* purge_expired: renamed, then removed, or emptied as far as it got.
Renamed(t, i) ==
    /\ PurgeRename(t, i) /\ storeLock = t /\ i \in call[t].due /\ transfers[i].place # "swept"
    /\ OnlySession(i) /\ OnlyThread(t) /\ call'[t].step = "remove" /\ call'[t].id = i
    /\ transfers'[i].place = "purged" /\ KeepsManifest(i) /\ KeepsExpired(i)
    /\ KeepsComplete(i) /\ KeepsLitter(i) /\ KeepsChunks(i)

SessionRemoved(t, i) ==
    /\ PurgeRemove(t) /\ StepOf(t, "remove") /\ storeLock = t /\ call[t].id = i
    /\ transfers[i].place # "swept"
    /\ OnlySession(i) /\ OnlyThread(t) /\ transfers'[i] = Left("gone")

Emptied(t, i) ==
    /\ StepOf(t, "remove") /\ storeLock = t /\ call[t].id = i
    /\ OnlySession(i) /\ OnlyThread(t) /\ KeepsFlags(i)
    /\ transfers'[i].manifest => transfers[i].manifest
    /\ transfers'[i].complete => transfers[i].complete
    /\ \A c \in Chunks : transfers'[i].chunks[c] \in {transfers[i].chunks[c], NoChunk}

\* Without the lock: moved by the repair, expired.
Swept(i) == Sweep(i) /\ OnlySession(i) /\ transfers'[i] = Left("swept")

Expiring(i) ==
    /\ Expire(i) /\ OnlySession(i) /\ transfers'[i].expired
    /\ KeepsPlace(i) /\ KeepsManifest(i) /\ KeepsComplete(i) /\ KeepsLitter(i) /\ KeepsChunks(i)

\* Left with a temporary file, by a call that died or failed.
Littered(i) ==
    /\ OnlySession(i) /\ i \in cutShort'
    /\ KeepsPlace(i) /\ KeepsManifest(i) /\ KeepsExpired(i) /\ KeepsComplete(i) /\ KeepsChunks(i)

\* A call that fails: the disk refused something, or the purge an entry.
Fails(t) ==
    FailCreate(t) \/ FailPut(t) \/ FailPublish(t) \/ FailCompletion(t) \/ PurgeRefused(t) \/ FailPurge(t)

LEMMA StoreTroubleTyped ==
  ASSUME TransferTypeOK, StoreTrouble
  PROVE  storeTroubles' \in 0..MaxStoreTroubles
  BY TransferAssumption DEF TransferTypeOK, StoreTrouble

\* It ends under the lock it had, and tells nobody anything.
LEMMA FailureEnds ==
  ASSUME TransferTypeOK, Arguments, Locked, NEW t \in Threads, Fails(t)
  PROVE  /\ EndCall(t) /\ Unlock /\ UNCHANGED <<sweep, told>>
         /\ storeLock = t /\ call[t].id \in TransferIds
         /\ storeTroubles' \in 0..MaxStoreTroubles
         /\ cutShort' \subseteq TransferIds \cup {TheObject} /\ cutShort \subseteq cutShort'
<1>1. storeLock = t /\ call[t].id \in TransferIds
  BY DEF Fails, FailCreate, FailPut, FailPublish, FailCompletion, PurgeRefused, FailPurge, StepOf,
         Arguments, ArgumentsOf, Locked, LockedOf, WithId, LockedCalls
<1>2. /\ EndCall(t) /\ Unlock /\ UNCHANGED <<sweep, told>>
      /\ StoreTrouble \/ UNCHANGED storeTroubles
      /\ UNCHANGED cutShort \/ CutShort(call[t].id) \/ CutShort(TheObject)
  BY DEF Fails, FailCreate, FailPut, FailPublish, FailCompletion, PurgeRefused, FailPurge
<1>3. storeTroubles' \in 0..MaxStoreTroubles
  BY <1>2, StoreTroubleTyped DEF TransferTypeOK
<1>4. cutShort' \subseteq TransferIds \cup {TheObject} /\ cutShort \subseteq cutShort'
  BY <1>1, <1>2 DEF CutShort, TransferTypeOK
<1> QED  BY <1>1, <1>2, <1>3, <1>4

\* What a removal that does not come to its end leaves of a session.
LEMMA WithoutChunksTyped ==
  ASSUME TransferTypeOK, NEW i \in TransferIds, NEW gone
  PROVE  LET x == WithoutChunks(i, gone) IN
         /\ x \in Transfer
         /\ x.place = transfers[i].place /\ x.owner = transfers[i].owner
         /\ x.manifest = transfers[i].manifest /\ x.expired = transfers[i].expired
         /\ x.complete = transfers[i].complete /\ x.litter = transfers[i].litter
         /\ \A c \in Chunks : x.chunks[c] \in {transfers[i].chunks[c], NoChunk}
<1>1. transfers[i] \in Transfer /\ transfers[i].chunks \in [Chunks -> ChunkFiles]
  BY DEF TransferTypeOK, Transfer
<1> DEFINE f == [c \in Chunks |-> IF c \in gone THEN NoChunk ELSE transfers[i].chunks[c]]
<1>2. f \in [Chunks -> ChunkFiles] /\ \A c \in Chunks : f[c] \in {transfers[i].chunks[c], NoChunk}
  BY <1>1 DEF ChunkFiles
<1>3. WithoutChunks(i, gone) = [transfers[i] EXCEPT !.chunks = f]
  BY DEF WithoutChunks
<1> HIDE DEF f
<1> QED  BY <1>1, <1>2, <1>3 DEF Transfer

LEMMA EmptiedBy ==
  ASSUME TransferTypeOK, NEW t \in Threads, NEW x \in Transfer,
         call[t].id \in TransferIds, StepOf(t, "remove"), storeLock = t, OnlyThread(t),
         transfers' = [transfers EXCEPT ![call[t].id] = x],
         LET y == transfers[call[t].id] IN
         /\ x.place = y.place /\ x.owner = y.owner /\ x.expired = y.expired /\ x.litter = y.litter
         /\ x.manifest => y.manifest
         /\ x.complete => y.complete
         /\ \A c \in Chunks : x.chunks[c] \in {y.chunks[c], NoChunk}
  PROVE  Emptied(t, call[t].id)
<1>1. OnlySession(call[t].id) /\ transfers'[call[t].id] = x
  BY Changes DEF OnlySession
<1> QED  BY <1>1 DEF Emptied, KeepsFlags, KeepsPlace, KeepsExpired, KeepsLitter

\* What it does to the session it works on.
FailureChanges(t) ==
    LET i == call[t].id IN
    \/ Discarded(t, i) \/ Manifested(t, i) \/ Littered(i) \/ Completed(t, i) \/ Emptied(t, i)
    \/ call[t].chunk \in Chunks /\ Unlinked(t, i, call[t].chunk)

LEMMA EmptiedOf ==
  ASSUME TransferTypeOK, NEW t \in Threads, NEW gone,
         call[t].id \in TransferIds, StepOf(t, "remove"), storeLock = t, OnlyThread(t),
         transfers' = [transfers EXCEPT ![call[t].id] = WithoutChunks(call[t].id, gone)]
  PROVE  FailureChanges(t)
<1> DEFINE x == WithoutChunks(call[t].id, gone)
           y == transfers[call[t].id]
<1>1. /\ x \in Transfer /\ x.place = y.place /\ x.owner = y.owner
      /\ x.expired = y.expired /\ x.litter = y.litter
      /\ x.manifest = y.manifest /\ x.complete = y.complete
      /\ \A c \in Chunks : x.chunks[c] \in {y.chunks[c], NoChunk}
  BY WithoutChunksTyped
<1>2. transfers' = [transfers EXCEPT ![call[t].id] = x]
  OBVIOUS
<1> HIDE DEF x
<1>3. Emptied(t, call[t].id)
  BY <1>1, <1>2, EmptiedBy
<1> QED  BY <1>3 DEF FailureChanges

LEMMA FailureEffect ==
  ASSUME TransferTypeOK, Arguments, Locked, Linking, NEW t \in Threads, Fails(t)
  PROVE  UNCHANGED transfers \/ FailureChanges(t)
<1> DEFINE i == call[t].id
           c == call[t].chunk
<1>0. /\ EndCall(t) /\ storeLock = t /\ i \in TransferIds
      /\ OnlyThread(t) /\ call'[t].step = "idle"
  BY FailureEnds, EndsCall DEF OnlyThread
<1>1. CASE FailCreate(t)
  <2>1. StepOf(t, "manifest") /\ InPlace(i)
    BY <1>1 DEF FailCreate
  <2>2. CASE transfers' = [transfers EXCEPT ![i] = Left("gone")]
    <3>1. OnlySession(i) /\ transfers'[i] = Left("gone")
      BY <1>0, <2>2, LeftTyped, Changes DEF OnlySession
    <3> QED  BY <1>0, <2>1, <3>1 DEF Discarded, FailureChanges
  <2>3. CASE transfers' = [transfers EXCEPT ![i].manifest = TRUE]
    <3>1. Manifested(t, i)
      BY <1>0, <2>1, <2>3, FlagEffects DEF Manifested, KeepsFlags
    <3> QED  BY <3>1 DEF FailureChanges
  <2>4. ASSUME NEW left \in BOOLEAN, CutShort(i), transfers' = [transfers EXCEPT ![i].litter = left]
        PROVE  FailureChanges(t)
    <3>1. Littered(i)
      BY <1>0, <2>4, FlagEffects DEF Littered, CutShort
    <3> QED  BY <3>1 DEF FailureChanges
  <2> QED  BY <1>1, <2>2, <2>3, <2>4 DEF FailCreate
<1>2. CASE FailPut(t)
  <2>1. StepOf(t, "unlink") /\ InPlace(i) /\ c \in Chunks
    BY <1>2 DEF FailPut, StepOf, Arguments, ArgumentsOf
  <2>2. CASE transfers' = [transfers EXCEPT ![i].chunks[c] = NoChunk]
    <3>1. ChunkBecomes(i, c, NoChunk) /\ NoChunk \in ChunkFiles
      BY <2>2 DEF ChunkBecomes, ChunkFiles
    <3>2. /\ OnlySession(i) /\ KeepsPlace(i) /\ KeepsManifest(i) /\ KeepsExpired(i)
          /\ KeepsComplete(i) /\ KeepsLitter(i) /\ transfers'[i].chunks[c] = NoChunk
          /\ \A d \in Chunks \ {c} : transfers'[i].chunks[d] = transfers[i].chunks[d]
      BY <1>0, <2>1, <3>1, ChunkEffect
    <3>3. transfers[i].chunks[c] = [data |-> call[t].data, links |-> 2]
      BY <2>1 DEF StepOf, Linking, LinkingOf, ChunkOf
    <3>4. Unlinked(t, i, c)
      BY <1>0, <2>1, <3>2, <3>3 DEF Unlinked, KeepsFlags
    <3> QED  BY <2>1, <3>4 DEF FailureChanges
  <2> QED  BY <1>2, <2>2 DEF FailPut
<1>3. CASE FailPublish(t)
  BY <1>3 DEF FailPublish
<1>4. CASE FailCompletion(t)
  <2>1. StepOf(t, "completion") /\ InPlace(i)
    BY <1>4 DEF FailCompletion
  <2>2. CASE transfers' = [transfers EXCEPT ![i].complete = TRUE]
    <3>1. Completed(t, i)
      BY <1>0, <2>1, <2>2, FlagEffects DEF Completed, KeepsFlags
    <3> QED  BY <3>1 DEF FailureChanges
  <2>3. CASE transfers' = [transfers EXCEPT ![i].litter = TRUE] /\ CutShort(i)
    <3>1. Littered(i)
      BY <1>0, <2>3, FlagEffects DEF Littered, CutShort
    <3> QED  BY <3>1 DEF FailureChanges
  <2> QED  BY <1>4, <2>2, <2>3 DEF FailCompletion
<1>5. CASE PurgeRefused(t)
  <2> DEFINE x == WithoutChunks(i, FirstChunks(i))
  <2>1. StepOf(t, "remove") /\ (UNCHANGED transfers \/ transfers' = [transfers EXCEPT ![i] = x])
    BY <1>5 DEF PurgeRefused
  <2>2. CASE transfers' = [transfers EXCEPT ![i] = x]
    BY <1>0, <2>1, <2>2, EmptiedOf
  <2> QED  BY <2>1, <2>2
<1>6. CASE FailPurge(t)
  <2>1. StepOf(t, "remove")
    BY <1>6 DEF FailPurge
  <2>2. ASSUME NEW gone, transfers' = [transfers EXCEPT ![i] = WithoutChunks(i, gone)]
        PROVE  FailureChanges(t)
    BY <1>0, <2>1, <2>2, EmptiedOf
  <2>3. ASSUME NEW kept \in {transfers[i].manifest, FALSE},
               transfers' = [transfers EXCEPT ![i] =
                  [WithoutChunks(i, Chunks) EXCEPT !.complete = FALSE, !.manifest = kept]]
        PROVE  FailureChanges(t)
    <3> DEFINE w == WithoutChunks(i, Chunks)
               x == [w EXCEPT !.complete = FALSE, !.manifest = kept]
    <3>1. /\ w \in Transfer /\ w.place = transfers[i].place /\ w.owner = transfers[i].owner
          /\ w.expired = transfers[i].expired /\ w.litter = transfers[i].litter
          /\ \A d \in Chunks : w.chunks[d] \in {transfers[i].chunks[d], NoChunk}
      BY <1>0, WithoutChunksTyped
    <3>2. kept \in BOOLEAN
      BY <1>0 DEF TransferTypeOK, Transfer
    <3>3. transfers' = [transfers EXCEPT ![i] = x]
      BY <2>3
    <3> HIDE DEF w
    <3>4. /\ x \in Transfer /\ x.place = w.place /\ x.owner = w.owner /\ x.expired = w.expired
          /\ x.litter = w.litter /\ x.manifest = kept /\ x.complete = FALSE /\ x.chunks = w.chunks
      BY <3>1, <3>2 DEF Transfer
    <3> HIDE DEF x
    <3>5. /\ x.place = transfers[i].place /\ x.owner = transfers[i].owner
          /\ x.expired = transfers[i].expired /\ x.litter = transfers[i].litter
          /\ \A d \in Chunks : x.chunks[d] \in {transfers[i].chunks[d], NoChunk}
      BY <3>1, <3>4
    <3>6. (x.manifest => transfers[i].manifest) /\ (x.complete => transfers[i].complete)
      BY <2>3, <3>4
    <3>7. x \in Transfer
      BY <3>4
    <3>8. Emptied(t, i)
      BY <1>0, <2>1, <3>3, <3>5, <3>6, <3>7, EmptiedBy
    <3> QED  BY <3>8 DEF FailureChanges
  <2> QED  BY <1>6, <2>2, <2>3 DEF FailPurge
<1> QED  BY <1>1, <1>2, <1>3, <1>4, <1>5, <1>6 DEF Fails

-----------------------------------------------------------------------------
(* The invariant is kept.                                                  *)

\* A thread changes sessions and the lock only while it alone has the lock;
\* what others are doing then stays as the invariant says.
LEMMA ThreadKeeps ==
  ASSUME BaseInv, NEW t \in Threads, OnlyThread(t),
         \A i \in TransferIds : transfers[i].place # "none" => transfers'[i].place # "none",
         object' = object \/ StoreFree \/ storeLock = t,
         transfers' = transfers \/ StoreFree \/ storeLock = t,
         storeLock' = storeLock \/ StoreFree \/ storeLock = t,
         ArgumentsOf(t)', LockedOf(t)', LinkingOf(t)'
  PROVE  Arguments' /\ Locked' /\ Linking'
<1> SUFFICES ASSUME NEW u \in Threads \ {t}
             PROVE  ArgumentsOf(u)' /\ LockedOf(u)' /\ LinkingOf(u)'
  BY DEF Arguments, Locked, Linking
<1>1. call'[u] = call[u]
  BY DEF OnlyThread
<1>2. ArgumentsOf(u)'
  <2>1. call[u].step = "unlinkObject" => object'.links = 2
    BY Alone DEF BaseInv, Arguments, ArgumentsOf, LockedCalls
  <2> QED  BY <1>1, <2>1 DEF BaseInv, Arguments, ArgumentsOf
<1>3. LockedOf(u)'
  BY <1>1, Alone DEF BaseInv, Locked, LockedOf
<1>4. LinkingOf(u)'
  <2>1. CASE transfers' = transfers
    BY <1>1, <2>1 DEF BaseInv, Linking, LinkingOf, InPlace, ChunkOf
  <2>2. CASE StoreFree \/ storeLock = t
    BY <1>1, <2>2, Alone DEF BaseInv, LinkingOf, LockedCalls
  <2> QED  BY <2>1, <2>2
<1> QED  BY <1>2, <1>3, <1>4

\* Calls begin with their arguments.
LEMMA CallTyped ==
  ASSUME TransferTypeOK, NEW t \in Threads, NEW k \in Calls, call' = [call EXCEPT ![t] = k]
  PROVE  OnlyThread(t) /\ call'[t] = k
  BY DEF TransferTypeOK, OnlyThread

LEMMA BeginKeeps ==
  ASSUME BaseInv, NEW t \in Threads, NEW k \in Calls, call' = [call EXCEPT ![t] = k],
         k.step \notin LockedCalls, UNCHANGED <<transfers, object, storeLock>>,
         k.step \in WithId => k.id \in TransferIds /\ transfers[k.id].place # "none",
         k.step \in {"put", "unlink", "stored"} => k.chunk \in Chunks /\ k.data \in ChunkData,
         k.step = "publish" => k.data = "right"
  PROVE  OnlyThread(t) /\ Arguments' /\ Locked' /\ Linking' /\ Fresh'
<1>1. OnlyThread(t) /\ call'[t] = k
  BY CallTyped DEF BaseInv
<1>2. ArgumentsOf(t)' /\ LockedOf(t)' /\ LinkingOf(t)'
  BY <1>1 DEF ArgumentsOf, LockedOf, LinkingOf, LockedCalls
<1> QED  BY <1>1, <1>2, ThreadKeeps DEF BaseInv, Fresh

\* A call that ends leaves nothing of the kind.
LEMMA EndKeeps ==
  ASSUME BaseInv, NEW t \in Threads, EndCall(t),
         \A i \in TransferIds : transfers[i].place # "none" => transfers'[i].place # "none",
         object' = object \/ storeLock = t,
         transfers' = transfers \/ storeLock = t,
         storeLock' = storeLock \/ storeLock = t
  PROVE  OnlyThread(t) /\ Arguments' /\ Locked' /\ Linking'
<1>1. OnlyThread(t) /\ call'[t].step = "idle"
  BY EndsCall DEF BaseInv, OnlyThread
<1>2. ArgumentsOf(t)' /\ LockedOf(t)' /\ LinkingOf(t)'
  BY <1>1 DEF ArgumentsOf, LockedOf, LinkingOf, LockedCalls, WithId
<1> QED  BY <1>1, <1>2, ThreadKeeps

\* So does one that goes on to a step that has no lock.
LEMMA ProceedKeeps ==
  ASSUME BaseInv, NEW t \in Threads, NEW step \in CallSteps \ LockedCalls, Proceed(t, step),
         \A i \in TransferIds : transfers[i].place # "none" => transfers'[i].place # "none",
         object' = object \/ storeLock = t,
         transfers' = transfers \/ storeLock = t,
         storeLock' = storeLock \/ storeLock = t,
         step \in WithId => call[t].step \in WithId,
         step \in {"put", "stored"} => call[t].step \in {"put", "unlink"},
         step # "publish"
  PROVE  OnlyThread(t) /\ Arguments' /\ Locked' /\ Linking'
<1>1. /\ OnlyThread(t) /\ call'[t].step = step /\ call'[t].id = call[t].id
      /\ call'[t].chunk = call[t].chunk /\ call'[t].data = call[t].data
  BY ProceedTo DEF BaseInv, OnlyThread
<1>2. ArgumentsOf(t)'
  BY <1>1 DEF BaseInv, Arguments, ArgumentsOf, LockedCalls
<1>3. LockedOf(t)' /\ LinkingOf(t)'
  BY <1>1 DEF LockedOf, LinkingOf, LockedCalls
<1> QED  BY <1>1, <1>2, <1>3, ThreadKeeps

LEMMA FailuresKeep ==
  ASSUME BaseInv, NEW t \in Threads, Fails(t)
  PROVE  BaseInv'
<1> DEFINE i == call[t].id
<1>0. TransferTypeOK /\ Arguments /\ Locked /\ Linking /\ Fresh
  BY DEF BaseInv
<1>1. /\ EndCall(t) /\ Unlock /\ UNCHANGED <<sweep, told>>
      /\ storeLock = t /\ i \in TransferIds
      /\ storeTroubles' \in 0..MaxStoreTroubles
      /\ cutShort' \subseteq TransferIds \cup {TheObject}
  BY <1>0, FailureEnds
<1>2. object' \in ChunkFiles
  BY <1>0 DEF Fails, FailCreate, FailPut, FailPublish, FailCompletion, PurgeRefused, FailPurge,
              TransferTypeOK, ChunkFiles
<1>3. /\ transfers' \in [TransferIds -> Transfer] /\ Fresh'
      /\ \A j \in TransferIds : transfers[j].place # "none" => transfers'[j].place # "none"
  <2>1. CASE UNCHANGED transfers
    BY <1>0, <2>1 DEF TransferTypeOK, Fresh
  <2>2. CASE FailureChanges(t)
    <3>1. OnlySession(i)
      BY <2>2 DEF FailureChanges, Discarded, Manifested, Littered, Completed, Emptied, Unlinked
    <3>2. transfers'[i] = Left("gone") \/ transfers'[i].place = transfers[i].place
      BY <2>2 DEF FailureChanges, Discarded, Manifested, Littered, Completed, Emptied, Unlinked,
         KeepsFlags, KeepsPlace
    <3>3. transfers[i].place # "none"
      BY <1>0 DEF Fails, FailCreate, FailPut, FailPublish, FailCompletion, PurgeRefused, FailPurge,
         StepOf, Arguments, ArgumentsOf, WithId
    <3>4. transfers'[i].place # "none"
      BY <3>2, <3>3, LeftTyped
    <3> QED  BY <1>0, <3>1, <3>4 DEF OnlySession, Fresh
  <2> QED  BY <1>0, <2>1, <2>2, FailureEffect
<1>4. OnlyThread(t) /\ Arguments' /\ Locked' /\ Linking'
  BY <1>1, <1>3, EndKeeps
<1> QED  BY <1>1, <1>2, <1>3, <1>4 DEF BaseInv, TransferTypeOK, OnlyThread, Unlock

LEMMA CreateKeeps ==
  ASSUME BaseInv, NEW t \in Threads,
         (\E who \in Controllers : CallCreate(t, who)) \/ Scan(t) \/ ScanAgain(t) \/ PublishManifest(t)
  PROVE  BaseInv'
<1>0. TransferTypeOK
  BY DEF BaseInv
<1>1. ASSUME NEW who \in Controllers, CallCreate(t, who)
      PROVE  BaseInv'
  <2> DEFINE k == [NoCall EXCEPT !.step = "scan", !.owner = who]
  <2>1. k \in Calls /\ k.step = "scan"
    BY NoCallTyped DEF Calls, CallSteps
  <2>2. call' = [call EXCEPT ![t] = k]
    BY <1>1 DEF CallCreate
  <2> HIDE DEF k
  <2>3. OnlyThread(t) /\ Arguments' /\ Locked' /\ Linking' /\ Fresh'
    BY <1>1, <2>1, <2>2, BeginKeeps DEF CallCreate, LockedCalls, WithId
  <2> QED  BY <1>1, <2>3 DEF CallCreate, BaseInv, TransferTypeOK, OnlyThread
<1>2. CASE Reuse(t)
  <2>1. OnlyThread(t) /\ Arguments' /\ Locked' /\ Linking'
    BY <1>2, EndKeeps DEF Reuse
  <2>2. told' \in [sessions: SUBSET TransferIds, chunks: SUBSET (TransferIds \X Chunks \X ChunkData)]
    BY <1>0, <1>2 DEF Reuse, Reusable, TransferTypeOK
  <2> QED  BY <1>2, <2>1, <2>2 DEF Reuse, BaseInv, TransferTypeOK, OnlyThread, Fresh
<1>3. CASE Scan(t) /\ ~Reuse(t)
  <2>1. Proceed(t, "scanAgain") /\ UNCHANGED <<transfers, object, storeLock, sweep, told, storeTroubles, cutShort>>
    BY <1>3 DEF Scan
  <2>2. OnlyThread(t) /\ Arguments' /\ Locked' /\ Linking'
    BY <2>1, ProceedKeeps DEF CallSteps, LockedCalls, WithId
  <2> QED  BY <2>1, <2>2 DEF BaseInv, TransferTypeOK, OnlyThread, Fresh
<1>4. CASE ScanAgain(t) /\ ~Reuse(t)
  <2>0. StoreFree /\ MakeSession(t) /\ UNCHANGED object
    BY <1>4 DEF ScanAgain, MakeSession
  <2>1. PICK i \in TransferIds :
            /\ transfers[i].place = "none" /\ OnlySession(i) /\ OnlyThread(t)
            /\ transfers'[i].place = "sessions"
            /\ KeepsManifest(i) /\ KeepsExpired(i)
            /\ call'[t].step = "manifest" /\ call'[t].id = i
    BY <1>0, <2>0, MakeSessionEffect
  <2>2. storeLock' = t
    BY <2>0 DEF MakeSession, TakesLock
  <2>3. ArgumentsOf(t)' /\ LockedOf(t)' /\ LinkingOf(t)'
    BY <2>1, <2>2 DEF ArgumentsOf, LockedOf, LinkingOf
  <2>4. \A j \in TransferIds : transfers[j].place # "none" => transfers'[j].place # "none"
    BY <2>1 DEF OnlySession
  <2>5. Arguments' /\ Locked' /\ Linking'
    BY <2>0, <2>1, <2>3, <2>4, ThreadKeeps
  <2>6. Fresh'
    BY <2>1 DEF BaseInv, Fresh, OnlySession, KeepsManifest, KeepsExpired
  <2> QED
    BY <2>0, <2>1, <2>2, <2>5, <2>6 DEF MakeSession, BaseInv, TransferTypeOK, OnlyThread, OnlySession
<1>5. CASE PublishManifest(t)
  <2> DEFINE i == call[t].id
  <2>1. i \in TransferIds /\ storeLock = t
    BY <1>5 DEF PublishManifest, StepOf, BaseInv, Arguments, ArgumentsOf, WithId, Locked, LockedOf, LockedCalls
  <2>2. CASE InPlace(i)
    <3>1. OnlySession(i) /\ transfers'[i].manifest /\ KeepsPlace(i) /\ KeepsExpired(i)
      BY <1>0, <1>5, <2>1, <2>2, FlagEffects DEF PublishManifest
    <3>2. OnlyThread(t) /\ Arguments' /\ Locked' /\ Linking'
      BY <1>5, <2>1, <3>1, EndKeeps DEF PublishManifest, OnlySession, KeepsPlace
    <3>3. Fresh'
      BY <2>1, <2>2, <3>1 DEF BaseInv, Fresh, OnlySession, KeepsExpired, KeepsPlace, InPlace
    <3>4. told' \in [sessions: SUBSET TransferIds, chunks: SUBSET (TransferIds \X Chunks \X ChunkData)]
      BY <1>0, <1>5, <2>1, <2>2 DEF PublishManifest, TransferTypeOK
    <3> QED
      BY <1>5, <3>1, <3>2, <3>3, <3>4 DEF PublishManifest, Unlock, BaseInv, TransferTypeOK,
         OnlyThread, OnlySession
  <2>3. CASE ~InPlace(i)
    <3>1. UNCHANGED <<transfers, told>>
      BY <1>5, <2>3 DEF PublishManifest
    <3>2. OnlyThread(t) /\ Arguments' /\ Locked' /\ Linking'
      BY <1>5, <2>1, <3>1, EndKeeps DEF PublishManifest
    <3> QED
      BY <1>5, <3>1, <3>2 DEF PublishManifest, Unlock, BaseInv, TransferTypeOK, OnlyThread, Fresh
  <2> QED  BY <2>2, <2>3
<1> QED  BY <1>1, <1>2, <1>3, <1>4, <1>5

LEMMA PutKeeps ==
  ASSUME BaseInv, NEW t \in Threads,
         \/ \E i \in TransferIds, c \in Chunks, data \in ChunkData : CallPut(t, i, c, data)
         \/ MatchChunk(t) \/ LinkChunk(t) \/ UnlinkTemp(t) \/ AnswerPut(t)
  PROVE  BaseInv'
<1>0. TransferTypeOK
  BY DEF BaseInv
<1>1. ASSUME NEW i \in TransferIds, NEW c \in Chunks, NEW data \in ChunkData, CallPut(t, i, c, data)
      PROVE  BaseInv'
  <2> DEFINE k == [NoCall EXCEPT !.step = "put", !.id = i, !.chunk = c, !.data = data]
  <2>1. k \in Calls /\ k.step = "put" /\ k.id = i /\ k.chunk = c /\ k.data = data
    BY NoCallTyped DEF Calls, CallSteps
  <2>2. call' = [call EXCEPT ![t] = k] /\ transfers[i].place # "none"
    BY <1>1 DEF CallPut, Active, Published, InPlace
  <2> HIDE DEF k
  <2>3. OnlyThread(t) /\ Arguments' /\ Locked' /\ Linking' /\ Fresh'
    BY <1>1, <2>1, <2>2, BeginKeeps DEF CallPut, LockedCalls, WithId
  <2> QED  BY <1>1, <2>3 DEF CallPut, BaseInv, TransferTypeOK, OnlyThread
<1>2. CASE MatchChunk(t)
  <2>1. OnlyThread(t) /\ Arguments' /\ Locked' /\ Linking'
    <3>1. CASE EndCall(t)
      BY <1>2, <3>1, EndKeeps DEF MatchChunk
    <3>2. CASE Proceed(t, "stored")
      BY <1>2, <3>2, ProceedKeeps DEF MatchChunk, StepOf, CallSteps, LockedCalls, WithId
    <3> QED  BY <1>2, <3>1, <3>2 DEF MatchChunk
  <2> QED  BY <1>2, <2>1 DEF MatchChunk, BaseInv, TransferTypeOK, OnlyThread, Fresh
<1> DEFINE i == call[t].id
           c == call[t].chunk
<1>3. CASE LinkChunk(t)
  <2> DEFINE k == [data |-> call[t].data, links |-> 2]
  <2>1. i \in TransferIds /\ c \in Chunks /\ call[t].data \in ChunkData /\ k \in ChunkFiles
    BY <1>3 DEF LinkChunk, StepOf, BaseInv, Arguments, ArgumentsOf, WithId, ChunkFiles
  <2>10. ChunkBecomes(i, c, k)
    BY <1>3 DEF LinkChunk, ChunkBecomes
  <2>2. /\ OnlySession(i) /\ KeepsPlace(i) /\ KeepsManifest(i) /\ KeepsExpired(i)
        /\ transfers'[i].chunks[c] = k
    BY <1>0, <2>1, <2>10, ChunkEffect
  <2>3. /\ OnlyThread(t) /\ call'[t].step = "unlink" /\ call'[t].id = i
        /\ call'[t].chunk = c /\ call'[t].data = call[t].data
    BY <1>0, <1>3, ProceedTo DEF LinkChunk, OnlyThread, CallSteps, LockedCalls
  <2>4. storeLock' = t /\ StoreFree /\ UNCHANGED object
    BY <1>3 DEF LinkChunk, TakesLock
  <2>5. \A j \in TransferIds : transfers[j].place # "none" => transfers'[j].place # "none"
    BY <2>2 DEF OnlySession, KeepsPlace
  <2>6. ArgumentsOf(t)'
    <3>1. InPlace(i)
      BY <1>3 DEF LinkChunk
    <3> QED  BY <2>1, <2>2, <2>3, <3>1 DEF ArgumentsOf, InPlace, KeepsPlace
  <2>7. LockedOf(t)' /\ LinkingOf(t)'
    BY <2>2, <2>3, <2>4 DEF LockedOf, LinkingOf, ChunkOf
  <2>8. Arguments' /\ Locked' /\ Linking'
    BY <2>3, <2>4, <2>5, <2>6, <2>7, ThreadKeeps
  <2>9. Fresh'
    BY <2>2 DEF BaseInv, Fresh, OnlySession, KeepsManifest, KeepsExpired, KeepsPlace
  <2> QED
    BY <1>3, <2>2, <2>3, <2>4, <2>8, <2>9 DEF LinkChunk, BaseInv, TransferTypeOK, OnlyThread, OnlySession
<1>4. CASE UnlinkTemp(t)
  <2>1. i \in TransferIds /\ c \in Chunks /\ call[t].data \in ChunkData /\ storeLock = t
    BY <1>4 DEF UnlinkTemp, StepOf, BaseInv, Arguments, ArgumentsOf, WithId, Locked, LockedOf, LockedCalls
  <2>2. CASE InPlace(i)
    <3>1. transfers[i].chunks[c] = [data |-> call[t].data, links |-> 2]
      BY <1>4, <2>2 DEF UnlinkTemp, StepOf, BaseInv, Linking, LinkingOf, ChunkOf
    <3>2. transfers' = [transfers EXCEPT ![i].chunks[c].links = 1]
      BY <1>4, <2>2 DEF UnlinkTemp
    <3>4. OnlySession(i) /\ KeepsPlace(i) /\ KeepsManifest(i) /\ KeepsExpired(i)
      BY <1>0, <2>1, <3>1, <3>2, UnlinkEffect
    <3>5. \A j \in TransferIds : transfers[j].place # "none" => transfers'[j].place # "none"
      BY <3>4 DEF OnlySession, KeepsPlace
    <3>6. OnlyThread(t) /\ Arguments' /\ Locked' /\ Linking'
      BY <1>4, <2>1, <2>2, <3>5, ProceedKeeps DEF UnlinkTemp, StepOf, CallSteps, LockedCalls, WithId
    <3>7. Fresh'
      BY <3>4 DEF BaseInv, Fresh, OnlySession, KeepsManifest, KeepsExpired, KeepsPlace
    <3> QED
      BY <1>4, <3>4, <3>6, <3>7 DEF UnlinkTemp, Unlock, BaseInv, TransferTypeOK, OnlyThread, OnlySession
  <2>3. CASE ~InPlace(i)
    <3>1. OnlyThread(t) /\ Arguments' /\ Locked' /\ Linking'
      BY <1>4, <2>1, <2>3, EndKeeps DEF UnlinkTemp
    <3> QED
      BY <1>4, <2>3, <3>1 DEF UnlinkTemp, Unlock, BaseInv, TransferTypeOK, OnlyThread, Fresh
  <2> QED  BY <2>2, <2>3
<1>5. CASE AnswerPut(t)
  <2>1. OnlyThread(t) /\ Arguments' /\ Locked' /\ Linking'
    BY <1>5, EndKeeps DEF AnswerPut
  <2>2. <<i, c, call[t].data>> \in TransferIds \X Chunks \X ChunkData
    BY <1>5 DEF AnswerPut, StepOf, BaseInv, Arguments, ArgumentsOf, WithId
  <2>3. told' \in [sessions: SUBSET TransferIds, chunks: SUBSET (TransferIds \X Chunks \X ChunkData)]
    BY <1>0, <1>5, <2>2 DEF AnswerPut, TransferTypeOK
  <2> QED  BY <1>5, <2>1, <2>3 DEF AnswerPut, BaseInv, TransferTypeOK, OnlyThread, Fresh
<1> QED  BY <1>1, <1>2, <1>3, <1>4, <1>5

LEMMA FinalizeKeeps ==
  ASSUME BaseInv, NEW t \in Threads,
         \/ \E i \in TransferIds : CallFinalize(t, i)
         \/ PublishObject(t) \/ UnlinkObject(t) \/ WriteCompletion(t)
  PROVE  BaseInv'
<1>0. TransferTypeOK
  BY DEF BaseInv
<1>1. ASSUME NEW i \in TransferIds, CallFinalize(t, i)
      PROVE  BaseInv'
  <2> DEFINE k == [NoCall EXCEPT !.step = "publish", !.id = i, !.data = Joined(i)]
  <2>1. k \in Calls /\ k.step = "publish" /\ k.id = i /\ k.data = "right"
    BY <1>1, NoCallTyped DEF Calls, CallSteps, ChunkData, CallFinalize, DigestMatches
  <2>2. call' = [call EXCEPT ![t] = k] /\ transfers[i].place # "none"
    BY <1>1 DEF CallFinalize, StatusWorks, Active, Published, InPlace
  <2> HIDE DEF k
  <2>3. OnlyThread(t) /\ Arguments' /\ Locked' /\ Linking' /\ Fresh'
    BY <1>1, <2>1, <2>2, BeginKeeps DEF CallFinalize, LockedCalls, WithId
  <2> QED  BY <1>1, <2>3 DEF CallFinalize, BaseInv, TransferTypeOK, OnlyThread
<1> DEFINE i == call[t].id
<1>2. CASE PublishObject(t)
  <2>1. PICK step \in {"unlinkObject", "completion"} : Proceed(t, step)
    BY <1>2 DEF PublishObject
  <2>2. OnlyThread(t) /\ call'[t].step = step /\ call'[t].id = i
    BY <1>0, <2>1, ProceedTo DEF OnlyThread, CallSteps, LockedCalls
  <2>3. storeLock' = t /\ StoreFree /\ UNCHANGED transfers
        /\ (step = "unlinkObject" => object'.links = 2)
    BY <1>0, <1>2, <2>1, <2>2 DEF PublishObject, TakesLock, NoChunk, Proceed, TransferTypeOK, Calls
  <2>4. ArgumentsOf(t)' /\ LockedOf(t)' /\ LinkingOf(t)'
    BY <1>2, <2>2, <2>3 DEF PublishObject, StepOf, BaseInv, Arguments, ArgumentsOf, LockedOf, LinkingOf, WithId
  <2>5. Arguments' /\ Locked' /\ Linking'
    BY <2>2, <2>3, <2>4, ThreadKeeps
  <2>6. object' \in ChunkFiles
    <3>1. call[t].data \in ChunkData
      BY <1>2 DEF PublishObject, StepOf, BaseInv, Arguments, ArgumentsOf, ChunkData
    <3> QED  BY <1>0, <1>2, <3>1 DEF PublishObject, TransferTypeOK, ChunkFiles
  <2> QED
    BY <1>2, <2>2, <2>3, <2>5, <2>6 DEF PublishObject, BaseInv, TransferTypeOK, OnlyThread, Fresh
<1>3. CASE UnlinkObject(t)
  <2>1. OnlyThread(t) /\ call'[t].step = "completion" /\ call'[t].id = i
    BY <1>0, <1>3, ProceedTo DEF UnlinkObject, OnlyThread, CallSteps, LockedCalls
  <2>2. object \in [data: ChunkData, links: {1, 2}]
    BY <1>0, <1>3 DEF UnlinkObject, StepOf, BaseInv, Arguments, ArgumentsOf, TransferTypeOK, ChunkFiles, NoChunk
  <2>3. object' \in [data: ChunkData, links: {1, 2}] /\ object' # NoChunk
    BY <1>3, <2>2 DEF UnlinkObject, NoChunk
  <2>4. ArgumentsOf(t)' /\ LockedOf(t)' /\ LinkingOf(t)'
    BY <1>3, <2>1 DEF UnlinkObject, StepOf, BaseInv, Arguments, ArgumentsOf, Locked, LockedOf,
       LinkingOf, WithId, LockedCalls
  <2>5. UNCHANGED <<transfers, storeLock>> /\ storeLock = t
    BY <1>3 DEF UnlinkObject, StepOf, BaseInv, Locked, LockedOf, LockedCalls
  <2>6. Arguments' /\ Locked' /\ Linking'
    BY <2>1, <2>3, <2>4, <2>5, ThreadKeeps
  <2> QED
    BY <1>3, <2>1, <2>3, <2>6 DEF UnlinkObject, BaseInv, TransferTypeOK, OnlyThread, Fresh, ChunkFiles
<1>4. CASE WriteCompletion(t)
  <2>1. i \in TransferIds /\ storeLock = t
    BY <1>4 DEF WriteCompletion, StepOf, BaseInv, Arguments, ArgumentsOf, WithId, Locked, LockedOf, LockedCalls
  <2>2. CASE InPlace(i)
    <3>1. OnlySession(i) /\ KeepsPlace(i) /\ KeepsManifest(i) /\ KeepsExpired(i)
      BY <1>0, <1>4, <2>1, <2>2, FlagEffects DEF WriteCompletion
    <3>2. OnlyThread(t) /\ Arguments' /\ Locked' /\ Linking'
      BY <1>4, <2>1, <3>1, EndKeeps DEF WriteCompletion, OnlySession, KeepsPlace
    <3>3. Fresh'
      BY <3>1 DEF BaseInv, Fresh, OnlySession, KeepsExpired, KeepsPlace, KeepsManifest
    <3> QED
      BY <1>4, <3>1, <3>2, <3>3 DEF WriteCompletion, Unlock, BaseInv, TransferTypeOK,
         OnlyThread, OnlySession
  <2>3. CASE ~InPlace(i)
    <3>1. OnlyThread(t) /\ Arguments' /\ Locked' /\ Linking'
      BY <1>4, <2>1, <2>3, EndKeeps DEF WriteCompletion
    <3> QED
      BY <1>4, <2>3, <3>1 DEF WriteCompletion, Unlock, BaseInv, TransferTypeOK, OnlyThread, Fresh
  <2> QED  BY <2>2, <2>3
<1> QED  BY <1>1, <1>2, <1>3, <1>4

LEMMA PurgeKeeps ==
  ASSUME BaseInv, NEW t \in Threads,
         \/ CallPurge(t) \/ PurgeRemove(t) \/ EndPurge(t)
         \/ \E i \in TransferIds : PurgeRename(t, i)
  PROVE  BaseInv'
<1>0. TransferTypeOK
  BY DEF BaseInv
<1>1. CASE CallPurge(t)
  <2> DEFINE k == [NoCall EXCEPT !.step = "purge", !.due = {j \in TransferIds : Purgeable(j)}]
  <2>1. k \in Calls /\ k.step = "purge"
    BY NoCallTyped DEF Calls, CallSteps, LockedCalls
  <2>2. call' = [call EXCEPT ![t] = k]
    BY <1>1 DEF CallPurge
  <2> HIDE DEF k
  <2>3. OnlyThread(t) /\ call'[t].step = "purge"
    BY <1>0, <2>1, <2>2, CallTyped
  <2>4. storeLock' = t /\ StoreFree /\ UNCHANGED <<transfers, object>>
    BY <1>1 DEF CallPurge, TakesLock
  <2>5. ArgumentsOf(t)' /\ LockedOf(t)' /\ LinkingOf(t)'
    BY <2>3, <2>4 DEF ArgumentsOf, LockedOf, LinkingOf, WithId
  <2>6. Arguments' /\ Locked' /\ Linking'
    BY <2>3, <2>4, <2>5, ThreadKeeps
  <2> QED  BY <1>1, <2>3, <2>4, <2>6 DEF CallPurge, BaseInv, TransferTypeOK, OnlyThread, Fresh
<1>2. ASSUME NEW i \in TransferIds, PurgeRename(t, i)
      PROVE  BaseInv'
  <2>1. storeLock = t
    BY <1>2 DEF PurgeRename, StepOf, BaseInv, Locked, LockedOf, LockedCalls
  <2>2. CASE transfers[i].place = "swept"
    <3>1. OnlyThread(t) /\ Arguments' /\ Locked' /\ Linking'
      BY <1>2, <2>1, <2>2, EndKeeps DEF PurgeRename
    <3> QED
      BY <1>2, <2>2, <3>1 DEF PurgeRename, Unlock, BaseInv, TransferTypeOK, OnlyThread, Fresh
  <2>3. CASE transfers[i].place # "swept"
    <3>1. /\ OnlySession(i) /\ KeepsManifest(i) /\ KeepsExpired(i) /\ transfers'[i].place = "purged"
      BY <1>0, <1>2, <2>3, FlagEffects DEF PurgeRename
    <3> DEFINE k == [call[t] EXCEPT !.step = "remove", !.id = i, !.due = call[t].due \ {i}]
    <3>2. call[t] \in Calls
      BY <1>0 DEF TransferTypeOK
    <3>3. k \in Calls /\ k.step = "remove" /\ k.id = i
      BY <3>2 DEF Calls, CallSteps, LockedCalls
    <3>4. call' = [call EXCEPT ![t] = k]
      BY <1>0, <1>2, <2>3, <3>2 DEF PurgeRename, TransferTypeOK, Calls
    <3> HIDE DEF k
    <3>5. OnlyThread(t) /\ call'[t].step = "remove" /\ call'[t].id = i
      BY <1>0, <3>3, <3>4, CallTyped
    <3>6. UNCHANGED <<storeLock, object>>
      BY <1>2, <2>3 DEF PurgeRename
    <3>7. ArgumentsOf(t)' /\ LockedOf(t)' /\ LinkingOf(t)'
      BY <2>1, <3>1, <3>5, <3>6 DEF ArgumentsOf, LockedOf, LinkingOf
    <3>8. \A j \in TransferIds : transfers[j].place # "none" => transfers'[j].place # "none"
      BY <3>1 DEF OnlySession
    <3>9. Arguments' /\ Locked' /\ Linking'
      BY <2>1, <3>5, <3>6, <3>7, <3>8, ThreadKeeps
    <3>10. Fresh'
      BY <3>1 DEF BaseInv, Fresh, OnlySession, KeepsExpired, KeepsManifest
    <3> QED
      BY <1>2, <3>1, <3>5, <3>6, <3>9, <3>10 DEF PurgeRename, BaseInv, TransferTypeOK,
         OnlyThread, OnlySession
  <2> QED  BY <2>2, <2>3
<1>3. CASE PurgeRemove(t)
  <2> DEFINE i == call[t].id
  <2>1. i \in TransferIds /\ storeLock = t /\ UNCHANGED object
    BY <1>3 DEF PurgeRemove, StepOf, BaseInv, Arguments, ArgumentsOf, WithId, Locked, LockedOf, LockedCalls
  <2>2. transfers' = [transfers EXCEPT ![i] = Left("gone")]
    BY <1>3 DEF PurgeRemove
  <2>3. OnlySession(i) /\ transfers'[i] = Left("gone")
    BY <1>0, <2>1, <2>2, LeftTyped, Changes DEF OnlySession
  <2>4. Proceed(t, "purge") /\ UNCHANGED storeLock
    BY <1>3 DEF PurgeRemove
  <2>5. OnlyThread(t) /\ call'[t].step = "purge"
    BY <1>0, <2>4, ProceedTo DEF OnlyThread, CallSteps, LockedCalls
  <2>6. ArgumentsOf(t)' /\ LockedOf(t)' /\ LinkingOf(t)'
    BY <2>1, <2>4, <2>5 DEF ArgumentsOf, LockedOf, LinkingOf, WithId
  <2>7. \A j \in TransferIds : transfers[j].place # "none" => transfers'[j].place # "none"
    BY <2>3, LeftTyped DEF OnlySession
  <2>8. Arguments' /\ Locked' /\ Linking'
    BY <2>1, <2>4, <2>5, <2>6, <2>7, ThreadKeeps
  <2>9. Fresh'
    BY <2>3, LeftTyped DEF BaseInv, Fresh, OnlySession
  <2> QED
    BY <1>3, <2>3, <2>4, <2>5, <2>8, <2>9 DEF PurgeRemove, BaseInv, TransferTypeOK,
       OnlyThread, OnlySession
<1>4. CASE EndPurge(t)
  <2>1. storeLock = t
    BY <1>4 DEF EndPurge, StepOf, BaseInv, Locked, LockedOf, LockedCalls
  <2>2. OnlyThread(t) /\ Arguments' /\ Locked' /\ Linking'
    BY <1>4, <2>1, EndKeeps DEF EndPurge
  <2> QED  BY <1>4, <2>2 DEF EndPurge, Unlock, BaseInv, TransferTypeOK, OnlyThread, Fresh
<1> QED  BY <1>1, <1>2, <1>3, <1>4

\* The repair and the clock take no lock: what they do to a session spares
\* nobody, but a session they move is no longer at its place.
LEMMA OthersKeep ==
  ASSUME BaseInv,
         Audit \/ (\E i \in TransferIds : Sweep(i) \/ Expire(i)) \/ ServerDies \/ UNCHANGED transferVars
  PROVE  BaseInv'
<1>0. TransferTypeOK
  BY DEF BaseInv
<1> USE DEF ArgumentsOf, LockedOf, LinkingOf, ChunkOf, InPlace
<1>1. CASE Audit \/ UNCHANGED transferVars
  <2>1. UNCHANGED <<transfers, object, storeLock, call, told, storeTroubles, cutShort>> /\ sweep' \subseteq TransferIds
    BY <1>0, <1>1 DEF Audit, transferVars, NoManifest, TransferTypeOK
  <2> QED  BY <2>1 DEF BaseInv, TransferTypeOK, Arguments, Locked, Linking, Fresh
<1>2. ASSUME NEW i \in TransferIds, Sweep(i)
      PROVE  BaseInv'
  <2>1. UNCHANGED <<object, storeLock, call, told, storeTroubles, cutShort>> /\ sweep' \subseteq TransferIds
    BY <1>0, <1>2 DEF Sweep, TransferTypeOK
  <2>2. CASE UNCHANGED transfers
    BY <2>1, <2>2 DEF BaseInv, TransferTypeOK, Arguments, Locked, Linking, Fresh
  <2>3. CASE transfers' = [transfers EXCEPT ![i] = Left("swept")]
    <3>1. OnlySession(i) /\ transfers'[i] = Left("swept")
      BY <1>0, <2>3, LeftTyped, Changes DEF OnlySession
    <3>2. transfers'[i].place = "swept" /\ ~transfers'[i].manifest /\ ~transfers'[i].expired
      BY <3>1, LeftTyped
    <3>3. Arguments' /\ Locked' /\ Linking'
      <4> SUFFICES ASSUME NEW u \in Threads
                   PROVE  ArgumentsOf(u)' /\ LockedOf(u)' /\ LinkingOf(u)'
        BY DEF Arguments, Locked, Linking
      <4>1. ArgumentsOf(u) /\ LockedOf(u) /\ LinkingOf(u)
        BY DEF BaseInv, Arguments, Locked, Linking
      <4>2. CASE call[u].id = i
        BY <2>1, <3>2, <4>1, <4>2 DEF OnlySession
      <4>3. CASE call[u].id # i
        <5>1. call[u].step \in WithId => transfers'[call[u].id] = transfers[call[u].id]
          BY <3>1, <4>1, <4>3 DEF OnlySession
        <5> QED  BY <2>1, <4>1, <5>1 DEF WithId
      <4> QED  BY <4>2, <4>3
    <3>4. Fresh'
      BY <3>1, <3>2 DEF OnlySession, BaseInv, Fresh
    <3> QED  BY <2>1, <3>1, <3>3, <3>4 DEF BaseInv, TransferTypeOK, OnlySession
  <2> QED  BY <1>2, <2>2, <2>3 DEF Sweep
<1>3. ASSUME NEW i \in TransferIds, Expire(i)
      PROVE  BaseInv'
  <2>1. UNCHANGED <<object, storeLock, call, sweep, storeTroubles, cutShort>>
    BY <1>3 DEF Expire
  <2>2. OnlySession(i) /\ KeepsPlace(i) /\ KeepsManifest(i) /\ KeepsChunks(i)
    BY <1>0, <1>3, FlagEffects DEF Expire
  <2>3. told' \in [sessions: SUBSET TransferIds, chunks: SUBSET (TransferIds \X Chunks \X ChunkData)]
    BY <1>0, <1>3 DEF Expire, TransferTypeOK
  <2>4. \A j \in TransferIds : transfers'[j].place = transfers[j].place /\ transfers'[j].chunks = transfers[j].chunks
    BY <2>2 DEF OnlySession, KeepsPlace, KeepsChunks
  <2>5. Arguments' /\ Locked' /\ Linking'
    <3> SUFFICES ASSUME NEW u \in Threads
                 PROVE  ArgumentsOf(u)' /\ LockedOf(u)' /\ LinkingOf(u)'
      BY DEF Arguments, Locked, Linking
    <3>1. ArgumentsOf(u) /\ LockedOf(u) /\ LinkingOf(u)
      BY DEF BaseInv, Arguments, Locked, Linking
    <3> QED  BY <2>1, <2>4, <3>1 DEF WithId
  <2>6. Fresh'
    BY <1>3, <2>2 DEF Expire, Active, Published, OnlySession, KeepsPlace, KeepsManifest, BaseInv, Fresh
  <2> QED  BY <2>1, <2>2, <2>3, <2>5, <2>6 DEF BaseInv, TransferTypeOK, OnlySession
<1>4. CASE ServerDies
  <2>1. /\ UNCHANGED <<object, sweep, told>> /\ storeLock' = NoThread
        /\ storeTroubles' \in 0..MaxStoreTroubles /\ cutShort' \subseteq TransferIds \cup {TheObject}
    BY <1>0, <1>4, StoreTroubleTyped DEF ServerDies, Unlock, TransferTypeOK
  <2>2. call' \in [Threads -> Calls] /\ \A u \in Threads : call'[u].step = "idle"
    BY <1>4, NoCallTyped DEF ServerDies
  <2>3. Arguments' /\ Locked' /\ Linking'
    BY <2>2 DEF Arguments, Locked, Linking, WithId, LockedCalls
  <2>4. transfers' \in [TransferIds -> Transfer] /\ Fresh'
    <3>1. CASE UNCHANGED transfers
      BY <1>0, <3>1 DEF TransferTypeOK, BaseInv, Fresh
    <3>2. ASSUME NEW t \in Threads, call[t].step \in {"manifest", "completion"},
                 transfers' = [transfers EXCEPT ![call[t].id].litter = TRUE]
          PROVE  transfers' \in [TransferIds -> Transfer] /\ Fresh'
      <4>1. call[t].id \in TransferIds
        BY <3>2 DEF BaseInv, Arguments, WithId
      <4>2. OnlySession(call[t].id) /\ KeepsPlace(call[t].id) /\ KeepsManifest(call[t].id) /\ KeepsExpired(call[t].id)
        BY <1>0, <3>2, <4>1, FlagEffects
      <4> QED
        BY <4>1, <4>2 DEF OnlySession, KeepsPlace, KeepsManifest, KeepsExpired, BaseInv, Fresh
    <3> QED  BY <1>4, <3>1, <3>2 DEF ServerDies
  <2> QED  BY <2>1, <2>2, <2>3, <2>4 DEF BaseInv, TransferTypeOK
<1> QED  BY <1>1, <1>2, <1>3, <1>4

LEMMA NextKeeps ==
  ASSUME BaseInv, [TransferNext]_transferVars
  PROVE  BaseInv'
  BY CreateKeeps, PutKeeps, FinalizeKeeps, PurgeKeeps, FailuresKeep, OthersKeep
     DEF TransferNext, ThreadStep, SessionStep, Fails

LEMMA InitBase == TransferInit => BaseInv
<1> SUFFICES ASSUME TransferInit
             PROVE  BaseInv
  OBVIOUS
<1>1. NoTransfer \in Transfer /\ NoTransfer.place = "none" /\ ~NoTransfer.manifest /\ ~NoTransfer.expired
  BY DEF NoTransfer, Transfer, ChunkFiles, NoController
<1>2. TransferTypeOK
  BY <1>1, NoCallTyped, TransferAssumption DEF TransferInit, TransferTypeOK, ChunkFiles
<1>3. \A t \in Threads : call[t].step = "idle"
  BY NoCallTyped DEF TransferInit
<1>4. Arguments /\ Locked /\ Linking
  BY <1>3 DEF Arguments, ArgumentsOf, Locked, LockedOf, Linking, LinkingOf, WithId, LockedCalls
<1>5. Fresh
  BY <1>1 DEF TransferInit, Fresh
<1> QED  BY <1>2, <1>4, <1>5 DEF BaseInv

LEMMA BaseHolds == TransferSpec => []BaseInv
<1>1. BaseInv /\ [TransferNext]_transferVars => BaseInv'
  BY NextKeeps
<1> QED  BY <1>1, InitBase, PTL DEF TransferSpec

\* The sessions, chunks, object and calls of the store have their types, and
\* its lock belongs to one thread of the server, after any interleaving of
\* create, put_chunk, finalize, purge_expired, repair and death.
THEOREM TransferTypeCorrect == TransferSpec => []TransferTypeOK
<1>1. BaseInv => TransferTypeOK
  BY DEF BaseInv
<1> QED  BY <1>1, BaseHolds, PTL

-----------------------------------------------------------------------------
(* What a step may do to one session, and to the call of one thread.        *)

\* Nothing else happens to a session.
SessionChanges(i) ==
    \/ transfers'[i] = transfers[i]
    \/ \E t \in Threads : \/ SessionMade(t, i) \/ Manifested(t, i) \/ Discarded(t, i)
                          \/ Completed(t, i)
                          \/ Renamed(t, i) \/ SessionRemoved(t, i) \/ Emptied(t, i)
                          \/ \E c \in Chunks : Linked(t, i, c) \/ Unlinked(t, i, c)
    \/ Swept(i) \/ Expiring(i) \/ Littered(i)

LEMMA SessionChange ==
  ASSUME BaseInv, [TransferNext]_transferVars
  PROVE  \A i \in TransferIds : SessionChanges(i)
<1>0. TransferTypeOK
  BY DEF BaseInv
<1>1. CASE UNCHANGED transfers
  BY <1>1 DEF SessionChanges
<1> USE DEF KeepsFlags
<1>10. ASSUME NEW j \in TransferIds, OnlySession(j), SessionChanges(j)
       PROVE  \A i \in TransferIds : SessionChanges(i)
  BY <1>10 DEF OnlySession, SessionChanges
<1>2. ASSUME ~UNCHANGED transfers, NEW t \in Threads, ThreadStep(t)
      PROVE  \A i \in TransferIds : SessionChanges(i)
  <2> DEFINE i == call[t].id
             c == call[t].chunk
  <2>a. CASE MakeSession(t) /\ StoreFree
    <3>1. PICK j \in TransferIds : SessionMade(t, j)
      BY <1>0, <2>a, MakeSessionEffect DEF SessionMade
    <3> QED  BY <1>10, <3>1 DEF SessionMade, SessionChanges
  <2>b. CASE PublishManifest(t)
    <3>1. i \in TransferIds /\ storeLock = t /\ InPlace(i)
      BY <1>2, <2>b DEF PublishManifest, StepOf, BaseInv, Arguments, ArgumentsOf, WithId, Locked, LockedOf, LockedCalls
    <3>2. /\ OnlySession(i) /\ transfers'[i].manifest /\ KeepsPlace(i) /\ KeepsExpired(i)
          /\ KeepsComplete(i) /\ KeepsLitter(i) /\ KeepsChunks(i)
      BY <1>0, <2>b, <3>1, FlagEffects DEF PublishManifest
    <3>3. OnlyThread(t) /\ call'[t].step = "idle" /\ StepOf(t, "manifest")
      BY <1>0, <2>b, EndsCall DEF PublishManifest, OnlyThread
    <3>4. Manifested(t, i)
      BY <2>b, <3>1, <3>2, <3>3 DEF Manifested
    <3> QED  BY <1>10, <3>1, <3>2, <3>4 DEF SessionChanges
  <2>c. CASE LinkChunk(t)
    <3> DEFINE k == [data |-> call[t].data, links |-> 2]
    <3>1. i \in TransferIds /\ c \in Chunks /\ call[t].data \in ChunkData /\ k \in ChunkFiles
      BY <2>c DEF LinkChunk, StepOf, BaseInv, Arguments, ArgumentsOf, WithId, ChunkFiles
    <3>2. ChunkBecomes(i, c, k) /\ StoreFree /\ InPlace(i) /\ transfers[i].chunks[c] = NoChunk
      BY <2>c DEF LinkChunk, ChunkBecomes, ChunkOf
    <3> HIDE DEF k
    <3>3. /\ OnlySession(i) /\ KeepsPlace(i) /\ KeepsManifest(i) /\ KeepsExpired(i)
          /\ KeepsComplete(i) /\ KeepsLitter(i)
          /\ transfers'[i].chunks[c] = k
          /\ \A d \in Chunks \ {c} : transfers'[i].chunks[d] = transfers[i].chunks[d]
      BY <1>0, <3>1, <3>2, ChunkEffect
    <3>4. OnlyThread(t) /\ call'[t].step = "unlink" /\ call'[t].id = i
      BY <1>0, <2>c, ProceedTo DEF LinkChunk, OnlyThread, CallSteps, LockedCalls
    <3>5. Linked(t, i, c)
      BY <2>c, <3>1, <3>2, <3>3, <3>4 DEF Linked, k
    <3> QED  BY <1>10, <3>1, <3>3, <3>5 DEF SessionChanges
  <2>d. CASE UnlinkTemp(t)
    <3>1. i \in TransferIds /\ c \in Chunks /\ call[t].data \in ChunkData /\ storeLock = t /\ InPlace(i)
      BY <1>2, <2>d DEF UnlinkTemp, StepOf, BaseInv, Arguments, ArgumentsOf, WithId, Locked, LockedOf, LockedCalls
    <3>2. /\ transfers[i].chunks[c] = [data |-> call[t].data, links |-> 2]
          /\ transfers' = [transfers EXCEPT ![i].chunks[c].links = 1]
      BY <2>d, <3>1 DEF UnlinkTemp, StepOf, BaseInv, Linking, LinkingOf, ChunkOf
    <3>3. /\ OnlySession(i) /\ KeepsPlace(i) /\ KeepsManifest(i) /\ KeepsExpired(i)
          /\ KeepsComplete(i) /\ KeepsLitter(i)
          /\ transfers'[i].chunks[c] = [data |-> call[t].data, links |-> 1]
          /\ \A d \in Chunks \ {c} : transfers'[i].chunks[d] = transfers[i].chunks[d]
      BY <1>0, <3>1, <3>2, UnlinkEffect
    <3>4. OnlyThread(t) /\ StepOf(t, "unlink")
      BY <1>0, <2>d, <3>1, ProceedTo DEF UnlinkTemp, OnlyThread, CallSteps
    <3>5. Unlinked(t, i, c)
      BY <2>d, <3>1, <3>2, <3>3, <3>4 DEF Unlinked
    <3> QED  BY <1>10, <3>1, <3>3, <3>5 DEF SessionChanges
  <2>e. CASE WriteCompletion(t)
    <3>1. i \in TransferIds /\ storeLock = t /\ InPlace(i) /\ StepOf(t, "completion")
      BY <1>2, <2>e DEF WriteCompletion, StepOf, BaseInv, Arguments, ArgumentsOf, WithId, Locked, LockedOf, LockedCalls
    <3>2. /\ OnlySession(i) /\ KeepsPlace(i) /\ KeepsManifest(i) /\ KeepsExpired(i)
          /\ KeepsLitter(i) /\ KeepsChunks(i)
      BY <1>0, <2>e, <3>1, FlagEffects DEF WriteCompletion
    <3>3. OnlyThread(t)
      BY <1>0, <2>e, EndsCall DEF WriteCompletion, OnlyThread
    <3>4. Completed(t, i)
      BY <2>e, <3>1, <3>2, <3>3 DEF Completed
    <3> QED  BY <1>10, <3>1, <3>2, <3>4 DEF SessionChanges
  <2>f. CASE PurgeRemove(t)
    <3>1. i \in TransferIds /\ storeLock = t /\ StepOf(t, "remove")
      BY <2>f DEF PurgeRemove, StepOf, BaseInv, Arguments, ArgumentsOf, WithId, Locked, LockedOf, LockedCalls
    <3>2. /\ transfers[i].place # "swept" /\ Proceed(t, "purge")
          /\ transfers' = [transfers EXCEPT ![i] = Left("gone")]
      BY <1>2, <2>f DEF PurgeRemove, Removable
    <3>3. OnlySession(i) /\ transfers'[i] = Left("gone")
      BY <1>0, <3>1, <3>2, LeftTyped, Changes DEF OnlySession
    <3>4. OnlyThread(t)
      BY <1>0, <3>2, ProceedTo DEF OnlyThread, CallSteps, LockedCalls
    <3>5. SessionRemoved(t, i)
      BY <2>f, <3>1, <3>2, <3>3, <3>4 DEF SessionRemoved
    <3> QED  BY <1>10, <3>1, <3>3, <3>5 DEF SessionChanges
  <2>g. CASE Fails(t)
    <3>1. FailureChanges(t)
      BY <1>2, <2>g, FailureEffect DEF BaseInv
    <3>2. i \in TransferIds
      BY <2>g, FailureEnds DEF BaseInv
    <3>3. OnlySession(i)
      BY <3>1 DEF FailureChanges, Discarded, Manifested, Littered, Completed, Emptied, Unlinked
    <3>4. SessionChanges(i)
      BY <3>1 DEF FailureChanges, SessionChanges
    <3> QED  BY <1>10, <3>2, <3>3, <3>4
  <2> QED
    BY <1>2, <2>a, <2>b, <2>c, <2>d, <2>e, <2>f, <2>g DEF ThreadStep, Fails, CallCreate, Scan, ScanAgain, Reuse,
       MatchChunk, AnswerPut, PublishObject, UnlinkObject, CallPurge, EndPurge
<1>3. ASSUME ~UNCHANGED transfers, NEW t \in Threads, NEW i \in TransferIds, SessionStep(t, i)
      PROVE  \A j \in TransferIds : SessionChanges(j)
  <2>1. PurgeRename(t, i) /\ transfers[i].place # "swept"
    BY <1>3 DEF SessionStep, CallPut, CallFinalize, PurgeRename
  <2>2. storeLock = t /\ i \in call[t].due
    BY <2>1 DEF PurgeRename, StepOf, BaseInv, Locked, LockedOf, LockedCalls
  <2>3. /\ OnlySession(i) /\ KeepsManifest(i) /\ KeepsExpired(i) /\ transfers'[i].place = "purged"
        /\ KeepsComplete(i) /\ KeepsLitter(i) /\ KeepsChunks(i)
    BY <1>0, <2>1, FlagEffects DEF PurgeRename
  <2>4. OnlyThread(t) /\ call'[t].step = "remove" /\ call'[t].id = i
    <3> DEFINE k == [call[t] EXCEPT !.step = "remove", !.id = i, !.due = call[t].due \ {i}]
    <3>1. call[t] \in Calls
      BY <1>0 DEF TransferTypeOK
    <3>2. k \in Calls /\ k.step = "remove" /\ k.id = i
      BY <3>1 DEF Calls, CallSteps, LockedCalls
    <3>3. call' = [call EXCEPT ![t] = k]
      BY <1>0, <2>1, <3>1 DEF PurgeRename, TransferTypeOK, Calls
    <3> HIDE DEF k
    <3> QED  BY <1>0, <3>2, <3>3, CallTyped
  <2>5. Renamed(t, i)
    BY <2>1, <2>2, <2>3, <2>4 DEF Renamed
  <2> QED  BY <1>10, <2>3, <2>5 DEF SessionChanges
<1>4. ASSUME ~UNCHANGED transfers, NEW i \in TransferIds, Sweep(i)
      PROVE  \A j \in TransferIds : SessionChanges(j)
  <2>1. OnlySession(i) /\ transfers'[i] = Left("swept")
    BY <1>0, <1>4, LeftTyped, Changes DEF Sweep, OnlySession
  <2> QED  BY <1>4, <1>10, <2>1 DEF SessionChanges, Swept
<1>5. ASSUME NEW i \in TransferIds, Expire(i)
      PROVE  \A j \in TransferIds : SessionChanges(j)
  <2>1. Expiring(i)
    BY <1>0, <1>5, FlagEffects DEF Expire, Expiring
  <2> QED  BY <1>10, <2>1 DEF SessionChanges, Expiring
<1>6. ASSUME ~UNCHANGED transfers, ServerDies
      PROVE  \A j \in TransferIds : SessionChanges(j)
  <2>1. PICK t \in Threads :
           /\ call[t].step \in {"manifest", "completion"}
           /\ transfers' = [transfers EXCEPT ![call[t].id].litter = TRUE]
           /\ cutShort' = cutShort \cup {x \in TransferIds \cup {TheObject} : \E u \in Threads : Within(u, x)}
    BY <1>6 DEF ServerDies
  <2> DEFINE i == call[t].id
  <2>2. i \in TransferIds
    BY <2>1 DEF BaseInv, Arguments, ArgumentsOf, WithId
  <2>3. Littered(i)
    <3>1. Within(t, i)
      BY <2>1 DEF Within
    <3> QED  BY <1>0, <2>1, <2>2, <3>1, FlagEffects DEF Littered
  <2> QED  BY <1>10, <2>2, <2>3 DEF SessionChanges, Littered
<1> QED
  BY <1>1, <1>2, <1>3, <1>4, <1>5, <1>6 DEF TransferNext, Audit, transferVars

\* How the call of a thread comes to the steps that follow another.
CallChanges(t) ==
    \/ call'[t] = call[t]
    \/ call'[t].step \in {"idle", "scan", "scanAgain", "put", "publish"}
    \/ MakeSession(t) /\ StoreFree /\ call'[t].step = "manifest"
    \/ LinkChunk(t) /\ call'[t].step = "unlink"
    \/ /\ MatchChunk(t) /\ SameBytes(t) /\ InPlace(call[t].id)
       /\ call'[t].step = "stored" /\ call'[t].id = call[t].id
       /\ call'[t].chunk = call[t].chunk /\ call'[t].data = call[t].data
    \/ /\ UnlinkTemp(t) /\ StepOf(t, "unlink") /\ InPlace(call[t].id)
       /\ call'[t].step = "stored" /\ call'[t].id = call[t].id
       /\ call'[t].chunk = call[t].chunk /\ call'[t].data = call[t].data
    \/ PublishObject(t) /\ object = NoChunk /\ call'[t].step = "unlinkObject"
    \/ PublishObject(t) /\ object.links = 1 /\ UNCHANGED object /\ call'[t].step = "completion"
    \/ UnlinkObject(t) /\ StepOf(t, "unlinkObject") /\ call'[t].step = "completion"
    \/ /\ CallPurge(t) /\ StoreFree
       /\ call'[t].step = "purge" /\ call'[t].due = {i \in TransferIds : Purgeable(i)}
    \/ \E i \in TransferIds :
          /\ Renamed(t, i) /\ StepOf(t, "purge") /\ call'[t].due = call[t].due \ {i}
    \/ \E i \in TransferIds :
          /\ SessionRemoved(t, i) /\ call'[t].step = "purge" /\ call'[t].due = call[t].due

LEMMA CallChange ==
  ASSUME BaseInv, [TransferNext]_transferVars
  PROVE  \A u \in Threads : CallChanges(u)
<1>0. TransferTypeOK
  BY DEF BaseInv
<1>1. CASE UNCHANGED call
  BY <1>1 DEF CallChanges
<1>2. ASSUME NEW t \in Threads, OnlyThread(t), CallChanges(t)
      PROVE  \A u \in Threads : CallChanges(u)
  BY <1>2 DEF OnlyThread, CallChanges
<1>3. ASSUME NEW t \in Threads, EndCall(t)
      PROVE  \A u \in Threads : CallChanges(u)
  BY <1>0, <1>2, <1>3, EndsCall DEF OnlyThread, CallChanges
<1>4. ASSUME NEW t \in Threads, ThreadStep(t)
      PROVE  \A u \in Threads : CallChanges(u)
  <2>a. ASSUME NEW who \in Controllers, CallCreate(t, who)
        PROVE  \A u \in Threads : CallChanges(u)
    <3> DEFINE k == [NoCall EXCEPT !.step = "scan", !.owner = who]
    <3>1. k \in Calls /\ k.step = "scan"
      BY NoCallTyped DEF Calls, CallSteps
    <3>2. call' = [call EXCEPT ![t] = k]
      BY <2>a DEF CallCreate
    <3> HIDE DEF k
    <3> QED  BY <1>0, <1>2, <3>1, <3>2, CallTyped DEF CallChanges
  <2>b. CASE Proceed(t, "scanAgain")
    BY <1>0, <1>2, <2>b, ProceedTo DEF CallChanges, OnlyThread, CallSteps
  <2>c. CASE MakeSession(t) /\ StoreFree
    BY <1>0, <1>2, <2>c, MakeSessionEffect DEF CallChanges
  <2>d. CASE MatchChunk(t) /\ SameBytes(t) /\ InPlace(call[t].id)
    <3>1. Proceed(t, "stored")
      BY <2>d DEF MatchChunk
    <3> QED  BY <1>0, <1>2, <2>d, <3>1, ProceedTo DEF CallChanges, OnlyThread, CallSteps
  <2>e. CASE LinkChunk(t)
    <3>1. Proceed(t, "unlink")
      BY <2>e DEF LinkChunk
    <3> QED  BY <1>0, <1>2, <2>e, <3>1, ProceedTo DEF CallChanges, OnlyThread, CallSteps, LockedCalls
  <2>f. CASE UnlinkTemp(t) /\ InPlace(call[t].id)
    <3>1. Proceed(t, "stored") /\ StepOf(t, "unlink")
      BY <2>f DEF UnlinkTemp
    <3> QED  BY <1>0, <1>2, <2>f, <3>1, ProceedTo DEF CallChanges, OnlyThread, CallSteps
  <2>g. CASE PublishObject(t)
    <3>1. CASE object = NoChunk /\ Proceed(t, "unlinkObject")
      BY <1>0, <1>2, <2>g, <3>1, ProceedTo DEF CallChanges, OnlyThread, CallSteps, LockedCalls
    <3>2. CASE object.links = 1 /\ Proceed(t, "completion") /\ UNCHANGED object
      BY <1>0, <1>2, <2>g, <3>2, ProceedTo DEF CallChanges, OnlyThread, CallSteps, LockedCalls
    <3> QED  BY <2>g, <3>1, <3>2 DEF PublishObject
  <2>h. CASE UnlinkObject(t)
    <3>1. Proceed(t, "completion") /\ StepOf(t, "unlinkObject")
      BY <2>h DEF UnlinkObject
    <3> QED  BY <1>0, <1>2, <2>h, <3>1, ProceedTo DEF CallChanges, OnlyThread, CallSteps, LockedCalls
  <2>i. CASE CallPurge(t)
    <3> DEFINE k == [NoCall EXCEPT !.step = "purge", !.due = {j \in TransferIds : Purgeable(j)}]
    <3>1. k \in Calls /\ k.step = "purge" /\ k.due = {j \in TransferIds : Purgeable(j)}
      BY NoCallTyped DEF Calls, CallSteps, LockedCalls, NoCall
    <3>2. call' = [call EXCEPT ![t] = k] /\ StoreFree
      BY <2>i DEF CallPurge
    <3> HIDE DEF k
    <3>3. OnlyThread(t) /\ call'[t] = k
      BY <1>0, <3>1, <3>2, CallTyped
    <3> QED  BY <1>2, <2>i, <3>1, <3>2, <3>3 DEF CallChanges
  <2>j. CASE PurgeRemove(t)
    <3>1. Proceed(t, "purge") /\ StepOf(t, "remove") /\ transfers[call[t].id].place # "swept"
          /\ transfers' = [transfers EXCEPT ![call[t].id] = Left("gone")]
      BY <2>j DEF PurgeRemove, Removable
    <3>2. storeLock = t /\ call[t].id \in TransferIds
      BY <3>1 DEF StepOf, BaseInv, Arguments, ArgumentsOf, WithId, Locked, LockedOf, LockedCalls
    <3>3. OnlySession(call[t].id) /\ transfers'[call[t].id] = Left("gone")
      BY <1>0, <3>1, <3>2, LeftTyped, Changes DEF OnlySession
    <3>4. OnlyThread(t) /\ call'[t].step = "purge" /\ call'[t].due = call[t].due
      BY <1>0, <3>1, ProceedTo DEF OnlyThread, CallSteps, LockedCalls
    <3>5. SessionRemoved(t, call[t].id)
      BY <2>j, <3>1, <3>2, <3>3, <3>4 DEF SessionRemoved
    <3> QED  BY <1>2, <3>2, <3>4, <3>5 DEF CallChanges
  <2> QED
    BY <1>3, <1>4, <2>a, <2>b, <2>c, <2>d, <2>e, <2>f, <2>g, <2>h, <2>i, <2>j, <1>1
       DEF ThreadStep, Scan, ScanAgain, Reuse, PublishManifest, MatchChunk, UnlinkTemp, AnswerPut,
       WriteCompletion, EndPurge, FailCreate, FailPut, FailPublish, FailCompletion, PurgeRefused, FailPurge
<1>5. ASSUME NEW t \in Threads, NEW i \in TransferIds, SessionStep(t, i)
      PROVE  \A u \in Threads : CallChanges(u)
  <2>a. ASSUME NEW c \in Chunks, NEW data \in ChunkData, CallPut(t, i, c, data)
        PROVE  \A u \in Threads : CallChanges(u)
    <3> DEFINE k == [NoCall EXCEPT !.step = "put", !.id = i, !.chunk = c, !.data = data]
    <3>1. k \in Calls /\ k.step = "put"
      BY NoCallTyped DEF Calls, CallSteps
    <3>2. call' = [call EXCEPT ![t] = k]
      BY <2>a DEF CallPut
    <3> HIDE DEF k
    <3> QED  BY <1>0, <1>2, <3>1, <3>2, CallTyped DEF CallChanges
  <2>b. CASE CallFinalize(t, i)
    <3> DEFINE k == [NoCall EXCEPT !.step = "publish", !.id = i, !.data = Joined(i)]
    <3>1. k \in Calls /\ k.step = "publish"
      BY <2>b, NoCallTyped DEF Calls, CallSteps, ChunkData, CallFinalize, DigestMatches
    <3>2. call' = [call EXCEPT ![t] = k]
      BY <2>b DEF CallFinalize
    <3> HIDE DEF k
    <3> QED  BY <1>0, <1>2, <3>1, <3>2, CallTyped DEF CallChanges
  <2>c. CASE PurgeRename(t, i) /\ transfers[i].place # "swept"
    <3>1. storeLock = t /\ i \in call[t].due /\ StepOf(t, "purge")
      BY <2>c DEF PurgeRename, StepOf, BaseInv, Locked, LockedOf, LockedCalls
    <3>2. /\ OnlySession(i) /\ KeepsManifest(i) /\ KeepsExpired(i) /\ transfers'[i].place = "purged"
          /\ KeepsComplete(i) /\ KeepsLitter(i) /\ KeepsChunks(i)
      BY <1>0, <2>c, FlagEffects DEF PurgeRename
    <3> DEFINE k == [call[t] EXCEPT !.step = "remove", !.id = i, !.due = call[t].due \ {i}]
    <3>3. call[t] \in Calls
      BY <1>0 DEF TransferTypeOK
    <3>4. k \in Calls /\ k.step = "remove" /\ k.id = i /\ k.due = call[t].due \ {i}
      BY <3>3 DEF Calls, CallSteps, LockedCalls
    <3>5. call' = [call EXCEPT ![t] = k]
      BY <1>0, <2>c, <3>3 DEF PurgeRename, TransferTypeOK, Calls
    <3> HIDE DEF k
    <3>6. OnlyThread(t) /\ call'[t] = k
      BY <1>0, <3>4, <3>5, CallTyped
    <3>7. Renamed(t, i)
      BY <2>c, <3>1, <3>2, <3>4, <3>6 DEF Renamed
    <3> QED  BY <1>2, <3>1, <3>4, <3>6, <3>7 DEF CallChanges
  <2>d. CASE PurgeRename(t, i) /\ transfers[i].place = "swept"
    BY <1>3, <2>d DEF PurgeRename
  <2> QED  BY <1>5, <2>a, <2>b, <2>c, <2>d DEF SessionStep
<1>6. CASE ServerDies
  BY <1>6, NoCallTyped DEF ServerDies, CallChanges
<1> QED
  BY <1>1, <1>4, <1>5, <1>6 DEF TransferNext, Audit, Sweep, Expire, transferVars

-----------------------------------------------------------------------------
(* The object is published before a session is complete, and stays.        *)

WholeObject == [data |-> "right", links |-> 1]

ObjectInv ==
    /\ object = NoChunk \/ object.data = "right"
    /\ \A t \in Threads : call[t].step = "completion" => object = WholeObject
    /\ CompletionFollowsTheObject

\* The object changes in finalize only.
LEMMA ObjectSteps ==
  ASSUME BaseInv, [TransferNext]_transferVars
  PROVE  \/ UNCHANGED object
         \/ \E t \in Threads : PublishObject(t)
         \/ object.links = 2 /\ (object' = [object EXCEPT !.links = 1] \/ object' = NoChunk)
<1>1. ASSUME NEW t \in Threads, UnlinkObject(t) \/ FailPublish(t)
      PROVE  object.links = 2 /\ (UNCHANGED object \/ object' = [object EXCEPT !.links = 1] \/ object' = NoChunk)
  BY <1>1 DEF UnlinkObject, FailPublish, StepOf, BaseInv, Arguments, ArgumentsOf
<1>2. ASSUME NEW t \in Threads, Fails(t), ~FailPublish(t)
      PROVE  UNCHANGED object
  BY <1>2 DEF Fails, FailCreate, FailPut, FailCompletion, PurgeRefused, FailPurge
<1>3. ASSUME NEW t \in Threads, ThreadStep(t), ~Fails(t), ~PublishObject(t), ~UnlinkObject(t)
      PROVE  UNCHANGED object
  BY <1>3 DEF Fails, ThreadStep, CallCreate, Scan, ScanAgain, Reuse, MakeSession, PublishManifest, MatchChunk,
     LinkChunk, UnlinkTemp, AnswerPut, WriteCompletion, CallPurge, PurgeRemove, EndPurge
<1>4. ASSUME \/ \E t \in Threads, i \in TransferIds : SessionStep(t, i)
             \/ Audit \/ ServerDies \/ (\E i \in TransferIds : Sweep(i) \/ Expire(i)) \/ UNCHANGED transferVars
      PROVE  UNCHANGED object
  BY <1>4 DEF SessionStep, CallPut, CallFinalize, PurgeRename, Audit, Sweep, Expire, ServerDies, transferVars
<1> QED  BY <1>1, <1>2, <1>3, <1>4 DEF TransferNext

LEMMA ObjectOnly ==
  ASSUME BaseInv, [TransferNext]_transferVars
  PROVE  \/ UNCHANGED object
         \/ object = NoChunk /\ object' = [data |-> "right", links |-> 2]
         \/ object.links = 2 /\ (object' = [object EXCEPT !.links = 1] \/ object' = NoChunk)
<1>1. ASSUME NEW t \in Threads, PublishObject(t)
      PROVE  UNCHANGED object \/ (object = NoChunk /\ object' = [data |-> "right", links |-> 2])
  BY <1>1 DEF PublishObject, StepOf, BaseInv, Arguments, ArgumentsOf
<1> QED  BY <1>1, ObjectSteps

LEMMA ObjectKept ==
  ASSUME BaseInv, ObjectInv, [TransferNext]_transferVars
  PROVE  ObjectInv'
<1>1. object' = NoChunk \/ object'.data = "right"
  BY ObjectOnly DEF ObjectInv, BaseInv, TransferTypeOK, ChunkFiles, NoChunk
<1>2. object = WholeObject => object' = WholeObject
  BY ObjectOnly DEF WholeObject, NoChunk
<1>3. object # NoChunk => object.data = "right" /\ object.links \in {1, 2} /\ object \in [data: ChunkData, links: {1, 2}]
  BY DEF ObjectInv, BaseInv, TransferTypeOK, ChunkFiles
<1>4. ASSUME NEW t \in Threads, call'[t].step = "completion"
      PROVE  object' = WholeObject
  <2>1. CASE call'[t] = call[t]
    BY <1>2, <1>4, <2>1 DEF ObjectInv
  <2>2. CASE PublishObject(t) /\ object.links = 1 /\ UNCHANGED object
    BY <1>3, <2>2 DEF WholeObject, NoChunk
  <2>3. CASE UnlinkObject(t) /\ StepOf(t, "unlinkObject")
    <3>1. object # NoChunk /\ object' = [object EXCEPT !.links = 1]
      BY <2>3 DEF UnlinkObject, StepOf, BaseInv, Arguments, ArgumentsOf, NoChunk
    <3> QED  BY <1>3, <3>1 DEF WholeObject
  <2>4. CallChanges(t)
    BY CallChange
  <2> QED  BY <1>4, <2>1, <2>2, <2>3, <2>4 DEF CallChanges, Renamed
<1>5. ASSUME NEW i \in TransferIds, transfers'[i].complete
      PROVE  object' = WholeObject
  <2>1. CASE transfers[i].complete
    BY <1>2, <2>1 DEF ObjectInv, CompletionFollowsTheObject, WholeObject
  <2>2. CASE \E t \in Threads : Completed(t, i)
    BY <1>2, <2>2 DEF Completed, StepOf, ObjectInv
  <2>3. SessionChanges(i)
    BY SessionChange
  <2> QED
    BY <1>5, <2>1, <2>2, <2>3, LeftTyped DEF SessionChanges, SessionMade, Manifested, Discarded, Linked, Unlinked,
       Renamed, SessionRemoved, Emptied, Swept, Expiring, Littered, KeepsComplete
<1> QED  BY <1>1, <1>4, <1>5 DEF ObjectInv, CompletionFollowsTheObject, WholeObject

\* No session is ever complete before the artifact's object is there, whole
\* and with one link; nothing that happens later (purges, repairs, deaths of
\* the server in any window of finalize) takes it away.
THEOREM CompletionFollowsTheObjectHolds == TransferSpec => []CompletionFollowsTheObject
<1>1. TransferInit => ObjectInv
  BY NoCallTyped DEF TransferInit, ObjectInv, CompletionFollowsTheObject, NoTransfer
<1>2. BaseInv /\ ObjectInv /\ [TransferNext]_transferVars => ObjectInv'
  BY ObjectKept
<1>3. ObjectInv => CompletionFollowsTheObject
  BY DEF ObjectInv
<1> QED  BY <1>1, <1>2, <1>3, BaseHolds, PTL DEF TransferSpec

-----------------------------------------------------------------------------
(* One active session per controller.                                      *)

\* A session that is being made finds no active one of its controller.
Claims ==
    \A t \in Threads : call[t].step = "manifest" /\ InPlace(call[t].id) =>
        \A j \in TransferIds :
            Active(j) /\ transfers[j].owner = transfers[call[t].id].owner => j = call[t].id

LEMMA ActiveOnly ==
  ASSUME BaseInv, [TransferNext]_transferVars, NEW i \in TransferIds, Active(i)'
  PROVE  /\ InPlace(i) /\ transfers'[i].owner = transfers[i].owner
         /\ Active(i) \/ \E t \in Threads : Manifested(t, i)
<1>1. SessionChanges(i)
  BY SessionChange
<1>2. ~\E t \in Threads : SessionMade(t, i)
  BY DEF SessionMade, KeepsManifest, Active, Published, BaseInv, Fresh
<1>3. ~Swept(i) /\ ~\E t \in Threads : SessionRemoved(t, i) \/ Discarded(t, i) \/ Renamed(t, i)
  BY LeftTyped DEF Swept, SessionRemoved, Discarded, Renamed, Active, Published, InPlace
<1> QED
  BY <1>1, <1>2, <1>3 DEF SessionChanges, Active, Published, InPlace, Manifested, Completed, Emptied, Linked,
     Unlinked, Expiring, Littered, KeepsFlags, KeepsPlace, KeepsManifest, KeepsExpired

LEMMA PlaceOnly ==
  ASSUME BaseInv, [TransferNext]_transferVars, NEW i \in TransferIds, InPlace(i)'
  PROVE  \/ InPlace(i) /\ transfers'[i].owner = transfers[i].owner
         \/ \E t \in Threads : SessionMade(t, i)
<1>1. SessionChanges(i)
  BY SessionChange
<1>2. ~Swept(i) /\ ~\E t \in Threads : SessionRemoved(t, i) \/ Discarded(t, i) \/ Renamed(t, i)
  BY LeftTyped DEF Swept, SessionRemoved, Discarded, Renamed, InPlace
<1> QED
  BY <1>1, <1>2 DEF SessionChanges, InPlace, Manifested, Completed, Emptied, Linked,
     Unlinked, Expiring, Littered, KeepsFlags, KeepsPlace

LEMMA ClaimsKept ==
  ASSUME BaseInv, OneActiveSession, Claims, [TransferNext]_transferVars
  PROVE  OneActiveSession' /\ Claims'
<1>1. OneActiveSession'
  <2> SUFFICES ASSUME NEW i \in TransferIds, NEW j \in TransferIds, Active(i)', Active(j)',
                      transfers'[i].owner = transfers'[j].owner
               PROVE  i = j
    BY DEF OneActiveSession
  <2>1. /\ InPlace(i) /\ InPlace(j) /\ transfers[i].owner = transfers[j].owner
        /\ Active(i) \/ \E t \in Threads : Manifested(t, i)
        /\ Active(j) \/ \E t \in Threads : Manifested(t, j)
    BY ActiveOnly
  <2>2. CASE Active(i) /\ Active(j)
    BY <2>1, <2>2 DEF OneActiveSession
  <2>3. ASSUME NEW t \in Threads, Manifested(t, i), Active(j)
        PROVE  i = j
    BY <2>1, <2>3 DEF Manifested, StepOf, Claims
  <2>4. ASSUME NEW t \in Threads, Manifested(t, j), Active(i)
        PROVE  i = j
    BY <2>1, <2>4 DEF Manifested, StepOf, Claims
  <2>5. ASSUME NEW t \in Threads, NEW u \in Threads, Manifested(t, i), Manifested(u, j)
        PROVE  i = j
    BY <2>5 DEF Manifested
  <2> QED  BY <2>1, <2>2, <2>3, <2>4, <2>5
<1>2. Claims'
  <2> SUFFICES ASSUME NEW t \in Threads, call'[t].step = "manifest",
                      transfers'[call'[t].id].place = "sessions",
                      NEW j \in TransferIds, Active(j)',
                      transfers'[j].owner = transfers'[call'[t].id].owner
               PROVE  j = call'[t].id
    BY DEF Claims, InPlace
  <2>1. /\ InPlace(j) /\ transfers'[j].owner = transfers[j].owner
        /\ Active(j) \/ \E u \in Threads : Manifested(u, j)
    BY ActiveOnly
  <2>2. CASE call'[t] = call[t]
    <3>1. storeLock = t /\ call[t].id \in TransferIds
      BY <2>2 DEF BaseInv, Locked, LockedOf, LockedCalls, Arguments, ArgumentsOf, WithId
    <3>2. ~\E u \in Threads : SessionMade(u, call[t].id)
      BY <3>1, NoThreadAssumption DEF SessionMade, StoreFree
    <3>3. InPlace(call[t].id) /\ transfers'[call[t].id].owner = transfers[call[t].id].owner
      <4>1. \A i \in TransferIds : transfers'[i].place = "sessions" =>
               \/ InPlace(i) /\ transfers'[i].owner = transfers[i].owner
               \/ \E u \in Threads : SessionMade(u, i)
        BY PlaceOnly DEF InPlace
      <4> QED  BY <2>2, <3>1, <3>2, <4>1
    <3>4. CASE Active(j)
      BY <2>1, <2>2, <3>1, <3>3, <3>4 DEF Claims
    <3>5. ASSUME NEW u \in Threads, Manifested(u, j)
          PROVE  j = call[t].id
      BY <3>1, <3>5 DEF Manifested
    <3> QED  BY <2>1, <2>2, <3>4, <3>5
  <2>3. CASE MakeSession(t) /\ StoreFree
    <3>1. PICK i \in TransferIds : SessionMade(t, i)
      BY <2>3, MakeSessionEffect DEF SessionMade, BaseInv
    <3>2. call'[t].id = i /\ transfers'[i].owner = call[t].owner
      BY <3>1 DEF SessionMade
    <3>3. ~Active(j) \/ transfers[j].owner # call[t].owner
      BY <2>3 DEF MakeSession, NothingToReuse, Reusable
    <3>4. ~\E u \in Threads : Manifested(u, j)
      BY <2>3, NoThreadAssumption DEF Manifested, StoreFree
    <3> QED  BY <2>1, <3>2, <3>3, <3>4
  <2>4. CallChanges(t)
    BY CallChange
  <2> QED  BY <2>2, <2>3, <2>4 DEF CallChanges, Renamed
<1> QED  BY <1>1, <1>2

\* However many creates of one controller race, and whenever the lock is
\* released between their two scans, at most one active session comes of them:
\* the second scan, under the lock that is then kept, is what decides.
THEOREM OneActiveSessionHolds == TransferSpec => []OneActiveSession
<1>1. TransferInit => OneActiveSession /\ Claims
  BY NoCallTyped DEF TransferInit, OneActiveSession, Claims, Active, Published, InPlace, NoTransfer
<1>2. BaseInv /\ OneActiveSession /\ Claims /\ [TransferNext]_transferVars
        => OneActiveSession' /\ Claims'
  BY ClaimsKept
<1> QED  BY <1>1, <1>2, BaseHolds, PTL DEF TransferSpec

-----------------------------------------------------------------------------
(* What a client was told is stored stays.                                 *)

\* A purge removes what was not active when it looked, and still is not; what
\* it removes has left its place; a chunk reported as stored is there; a
\* session that is being made has no manifest and no expiry yet.
Dues ==
    \A t \in Threads : call[t].step \in {"purge", "remove"} => \A i \in call[t].due : ~Active(i)
Removes == \A t \in Threads : call[t].step = "remove" => ~InPlace(call[t].id)
StoredChunks ==
    \A t \in Threads : call[t].step = "stored" /\ InPlace(call[t].id) => SameBytes(t)
Unnamed ==
    \A t \in Threads : call[t].step = "manifest" =>
        ~transfers[call[t].id].manifest /\ ~transfers[call[t].id].expired

AckInv == AcknowledgedUploadsStay /\ Dues /\ Removes /\ StoredChunks /\ Unnamed

LEMMA ToldOnly ==
  ASSUME BaseInv, [TransferNext]_transferVars, NEW i \in TransferIds
  PROVE  /\ i \in told'.sessions =>
               \/ i \in told.sessions
               \/ Active(i) /\ UNCHANGED transfers
               \/ \E t \in Threads : Manifested(t, i)
         /\ \A c \in Chunks, data \in ChunkData : <<i, c, data>> \in told'.chunks =>
               \/ <<i, c, data>> \in told.chunks
               \/ /\ Active(i) /\ UNCHANGED transfers
                  /\ \E t \in Threads : /\ StepOf(t, "stored") /\ call[t].id = i
                                        /\ call[t].chunk = c /\ call[t].data = data
         /\ Expire(i) => i \notin told'.sessions /\ \A u \in told'.chunks : u[1] # i
<1>0. told \in [sessions: SUBSET TransferIds, chunks: SUBSET (TransferIds \X Chunks \X ChunkData)]
  BY DEF BaseInv, TransferTypeOK
<1>1. CASE UNCHANGED told /\ ~Expire(i)
  BY <1>1
<1>2. ASSUME NEW t \in Threads, Reuse(t), ~Expire(i)
      PROVE  /\ i \in told'.sessions => i \in told.sessions \/ (Active(i) /\ UNCHANGED transfers)
             /\ told'.chunks = told.chunks
  BY <1>0, <1>2 DEF Reuse, Reusable
<1>3. ASSUME NEW t \in Threads, PublishManifest(t), ~Expire(i)
      PROVE  /\ i \in told'.sessions => i \in told.sessions \/ Manifested(t, i)
             /\ told'.chunks = told.chunks
  <2> DEFINE j == call[t].id
  <2>1. j \in TransferIds /\ storeLock = t /\ StepOf(t, "manifest")
    BY <1>3 DEF PublishManifest, StepOf, BaseInv, Arguments, ArgumentsOf, WithId, Locked, LockedOf, LockedCalls
  <2>2. CASE ~InPlace(j)
    BY <1>3, <2>2 DEF PublishManifest
  <2>3. CASE InPlace(j)
    <3>1. /\ OnlySession(j) /\ transfers'[j].manifest /\ KeepsPlace(j) /\ KeepsExpired(j)
          /\ KeepsComplete(j) /\ KeepsLitter(j) /\ KeepsChunks(j)
      BY <1>3, <2>1, <2>3, FlagEffects DEF PublishManifest, BaseInv
    <3>2. OnlyThread(t) /\ call'[t].step = "idle"
      BY <1>3, EndsCall DEF PublishManifest, OnlyThread, BaseInv
    <3>3. Manifested(t, j)
      BY <1>3, <2>1, <2>3, <3>1, <3>2 DEF Manifested, KeepsFlags
    <3>4. told' = [told EXCEPT !.sessions = @ \cup {j}]
      BY <1>3, <2>3 DEF PublishManifest
    <3> QED  BY <1>0, <3>3, <3>4
  <2> QED  BY <2>2, <2>3
<1>4. ASSUME NEW t \in Threads, AnswerPut(t), ~Expire(i)
      PROVE  /\ told'.sessions = told.sessions
             /\ \A c \in Chunks, data \in ChunkData : <<i, c, data>> \in told'.chunks =>
                   \/ <<i, c, data>> \in told.chunks
                   \/ /\ Active(i) /\ UNCHANGED transfers
                      /\ StepOf(t, "stored") /\ call[t].id = i
                      /\ call[t].chunk = c /\ call[t].data = data
  BY <1>0, <1>4 DEF AnswerPut, StatusWorks
<1>5. ASSUME NEW j \in TransferIds, Expire(j)
      PROVE  /\ i \in told'.sessions => i \in told.sessions /\ i # j
             /\ \A u \in told'.chunks : u \in told.chunks /\ u[1] # j
  BY <1>0, <1>5 DEF Expire
<1>6. CASE Expire(i)
  BY <1>5, <1>6
<1>7. \/ UNCHANGED told
      \/ \E t \in Threads : Reuse(t) \/ PublishManifest(t) \/ AnswerPut(t)
      \/ \E j \in TransferIds : Expire(j)
  <2>1. ASSUME NEW t \in Threads, Fails(t)
        PROVE  UNCHANGED told
    BY <2>1, FailureEnds DEF BaseInv
  <2>2. ASSUME NEW t \in Threads, ThreadStep(t), ~Fails(t), ~Reuse(t), ~PublishManifest(t), ~AnswerPut(t)
        PROVE  UNCHANGED told
    BY <2>2 DEF Fails, ThreadStep, CallCreate, Scan, ScanAgain, MakeSession, MatchChunk, LinkChunk, UnlinkTemp,
       PublishObject, UnlinkObject, WriteCompletion, CallPurge, PurgeRemove, EndPurge
  <2>3. ASSUME \/ \E t \in Threads, j \in TransferIds : SessionStep(t, j)
               \/ Audit \/ ServerDies \/ (\E j \in TransferIds : Sweep(j)) \/ UNCHANGED transferVars
        PROVE  UNCHANGED told
    BY <2>3 DEF SessionStep, CallPut, CallFinalize, PurgeRename, Audit, Sweep, ServerDies, transferVars
  <2> QED  BY <2>1, <2>2, <2>3 DEF TransferNext
<1> QED  BY <1>1, <1>2, <1>3, <1>4, <1>5, <1>6, <1>7

\* An active session stays active, and its chunks as they were, in every step
\* but its expiry, the repair and the steps of put_chunk.
LEMMA ActiveStays ==
  ASSUME BaseInv, AckInv, [TransferNext]_transferVars, NEW i \in TransferIds, Active(i),
         ~Expire(i), transfers'[i].place # "swept"
  PROVE  /\ Active(i)'
         /\ \A c \in Chunks : transfers[i].chunks[c].links = 1 =>
               transfers'[i].chunks[c] = transfers[i].chunks[c]
<1>1. SessionChanges(i)
  BY SessionChange
<1>2. ~Swept(i) /\ ~Expiring(i)
  BY LeftTyped DEF Swept, Expiring
<1>3. ASSUME NEW t \in Threads
      PROVE  /\ ~SessionMade(t, i) /\ ~Discarded(t, i)
             /\ ~Renamed(t, i) /\ ~SessionRemoved(t, i) /\ ~Emptied(t, i)
  BY DEF SessionMade, Discarded, Renamed, SessionRemoved, Emptied, PurgeRename, StepOf, Active, Published, InPlace,
     AckInv, Dues, Removes, Unnamed
<1>4. ASSUME NEW t \in Threads, NEW c \in Chunks, Linked(t, i, c) \/ Unlinked(t, i, c)
      PROVE  \A d \in Chunks : transfers[i].chunks[d].links = 1 =>
               transfers'[i].chunks[d] = transfers[i].chunks[d]
  BY <1>4 DEF Linked, Unlinked, NoChunk
<1>5. \A c \in Chunks : transfers[i].chunks[c].links = 1 =>
               transfers'[i].chunks[c] = transfers[i].chunks[c]
  BY <1>1, <1>2, <1>3, <1>4 DEF SessionChanges, Manifested, Completed, Littered, KeepsChunks
<1>6. Active(i)'
  BY <1>1, <1>2, <1>3 DEF SessionChanges, Active, Published, InPlace, Manifested, Completed, Littered,
     Linked, Unlinked, KeepsFlags, KeepsPlace, KeepsManifest, KeepsExpired
<1> QED  BY <1>5, <1>6

\* A session that was moved away stays moved away.
LEMMA SweptStays ==
  ASSUME BaseInv, [TransferNext]_transferVars, NEW i \in TransferIds, transfers[i].place = "swept"
  PROVE  transfers'[i].place = "swept"
<1>1. SessionChanges(i)
  BY SessionChange
<1> QED
  BY <1>1, LeftTyped DEF SessionChanges, SessionMade, Manifested, Discarded, Completed, Renamed, SessionRemoved,
     Emptied, Linked, Unlinked, Swept, Expiring, Littered, InPlace, KeepsFlags, KeepsPlace

LEMMA AckKept ==
  ASSUME BaseInv, AckInv, [TransferNext]_transferVars
  PROVE  AckInv'
<1>1. AcknowledgedUploadsStay'
  <2> SUFFICES ASSUME NEW i \in TransferIds, transfers'[i].place # "swept"
               PROVE  /\ i \in told'.sessions => Active(i)'
                      /\ \A c \in Chunks, data \in ChunkData : <<i, c, data>> \in told'.chunks =>
                           Active(i)' /\ transfers'[i].chunks[c] = [data |-> data, links |-> 1]
    BY DEF AcknowledgedUploadsStay
  <2>1. transfers[i].place # "swept"
    BY SweptStays
  <2>2. ASSUME i \in told'.sessions
        PROVE  Active(i)'
    <3>1. ~Expire(i)
      BY <2>2, ToldOnly
    <3>2. CASE i \in told.sessions \/ Active(i)
      BY <2>1, <3>1, <3>2, ActiveStays DEF AckInv, AcknowledgedUploadsStay
    <3>3. ASSUME NEW t \in Threads, Manifested(t, i), ~Active(i)
          PROVE  Active(i)'
      BY <3>3 DEF Manifested, Active, Published, InPlace, KeepsFlags, KeepsPlace, KeepsExpired,
         AckInv, Unnamed, StepOf
    <3> QED  BY <2>2, <3>2, <3>3, ToldOnly
  <2>3. ASSUME NEW c \in Chunks, NEW data \in ChunkData, <<i, c, data>> \in told'.chunks
        PROVE  Active(i)' /\ transfers'[i].chunks[c] = [data |-> data, links |-> 1]
    <3>1. ~Expire(i)
      <4>1. <<i, c, data>>[1] = i
        OBVIOUS
      <4> QED  BY <2>3, <4>1, ToldOnly
    <3>2. CASE <<i, c, data>> \in told.chunks
      <4>1. Active(i) /\ transfers[i].chunks[c] = [data |-> data, links |-> 1]
        BY <2>1, <3>2 DEF AckInv, AcknowledgedUploadsStay
      <4> QED  BY <3>1, <4>1, ActiveStays
    <3>3. ASSUME NEW t \in Threads, Active(i), UNCHANGED transfers, StepOf(t, "stored"),
                 call[t].id = i, call[t].chunk = c, call[t].data = data
          PROVE  Active(i)' /\ transfers'[i].chunks[c] = [data |-> data, links |-> 1]
      <4>1. transfers[i].chunks[c] = [data |-> data, links |-> 1]
        BY <3>3 DEF AckInv, StoredChunks, SameBytes, ChunkOf, StepOf, Active, Published
      <4> QED  BY <3>1, <3>3, <4>1, ActiveStays
    <3> QED  BY <2>3, <3>2, <3>3, ToldOnly
  <2> QED  BY <2>2, <2>3
<1>2. Dues'
  <2> SUFFICES ASSUME NEW t \in Threads, call'[t].step \in {"purge", "remove"},
                      NEW i \in call'[t].due, Active(i)'
               PROVE  FALSE
    BY DEF Dues
  <2>0. i \in TransferIds
    BY NextKeeps DEF BaseInv, TransferTypeOK, Calls
  <2>1. Active(i) \/ \E u \in Threads : Manifested(u, i)
    BY <2>0, ActiveOnly
  <2>2. CASE call[t].step \in {"purge", "remove"} /\ i \in call[t].due
    <3>1. ~Active(i) /\ storeLock = t
      BY <2>2 DEF AckInv, Dues, BaseInv, Locked, LockedOf, LockedCalls
    <3> QED  BY <2>1, <2>2, <3>1 DEF Manifested, StepOf
  <2>3. CASE CallPurge(t) /\ StoreFree /\ call'[t].due = {j \in TransferIds : Purgeable(j)}
    <3>1. ~Active(i)
      BY <2>3 DEF Purgeable, Active, Published, InPlace
    <3> QED  BY <2>1, <2>3, <3>1, NoThreadAssumption DEF Manifested, StoreFree
  <2>4. CallChanges(t)
    BY CallChange
  <2> QED  BY <2>2, <2>3, <2>4 DEF CallChanges, StepOf, SessionRemoved
<1>3. Removes'
  <2> SUFFICES ASSUME NEW t \in Threads, call'[t].step = "remove",
                      transfers'[call'[t].id].place = "sessions"
               PROVE  FALSE
    BY DEF Removes, InPlace
  <2>1. CASE call'[t] = call[t]
    <3>1. storeLock = t /\ call[t].id \in TransferIds /\ ~InPlace(call[t].id)
      BY <2>1 DEF BaseInv, Locked, LockedOf, LockedCalls, Arguments, ArgumentsOf, WithId, AckInv, Removes
    <3>2. ~\E u \in Threads : SessionMade(u, call[t].id)
      BY <3>1, NoThreadAssumption DEF SessionMade, StoreFree
    <3>3. \A i \in TransferIds : transfers'[i].place = "sessions" =>
             InPlace(i) \/ \E u \in Threads : SessionMade(u, i)
      BY PlaceOnly DEF InPlace
    <3> QED  BY <2>1, <3>1, <3>2, <3>3
  <2>2. CASE \E i \in TransferIds : Renamed(t, i)
    BY <2>2 DEF Renamed
  <2>3. CallChanges(t)
    BY CallChange
  <2> QED  BY <2>1, <2>2, <2>3 DEF CallChanges
<1>4. StoredChunks'
  <2> SUFFICES ASSUME NEW t \in Threads, call'[t].step = "stored",
                      transfers'[call'[t].id].place = "sessions"
               PROVE  transfers'[call'[t].id].chunks[call'[t].chunk] = [data |-> call'[t].data, links |-> 1]
    BY DEF StoredChunks, InPlace, SameBytes, ChunkOf
  <2> DEFINE i == call[t].id
             c == call[t].chunk
             k == [data |-> call[t].data, links |-> 1]
  <2>1. ASSUME call[t].step \in {"stored", "put"}, InPlace(i) => transfers[i].chunks[c] = k,
               transfers'[i].place = "sessions"
        PROVE  transfers'[i].chunks[c] = k
    <3>1. i \in TransferIds /\ transfers[i].place # "none" /\ c \in Chunks
      BY <2>1 DEF BaseInv, Arguments, ArgumentsOf, WithId
    <3>2. ~\E u \in Threads : SessionMade(u, i)
      BY <3>1 DEF SessionMade
    <3>3. InPlace(i)
      <4>1. \A j \in TransferIds : transfers'[j].place = "sessions" =>
               InPlace(j) \/ \E u \in Threads : SessionMade(u, j)
        BY PlaceOnly DEF InPlace
      <4> QED  BY <2>1, <3>1, <3>2, <4>1
    <3>4. SessionChanges(i)
      BY <3>1, SessionChange
    <3>5. ~Swept(i) /\ ~\E u \in Threads : SessionRemoved(u, i) \/ Discarded(u, i) \/ Renamed(u, i) \/ Emptied(u, i)
      BY <2>1, <3>3, LeftTyped DEF Swept, SessionRemoved, Discarded, Renamed, Emptied, StepOf, AckInv, Removes
    <3>6. ASSUME NEW u \in Threads, NEW d \in Chunks, Linked(u, i, d) \/ Unlinked(u, i, d)
          PROVE  transfers'[i].chunks[c] = k
      <4>1. transfers[i].chunks[c] = k /\ k.links = 1
        BY <2>1, <3>3
      <4>2. transfers[i].chunks[d] = NoChunk \/ transfers[i].chunks[d].links = 2
        BY <3>6 DEF Linked, Unlinked
      <4>3. transfers[i].chunks[d].links # 1
        BY <4>2 DEF NoChunk
      <4>4. \A e \in Chunks \ {d} : transfers'[i].chunks[e] = transfers[i].chunks[e]
        BY <3>6 DEF Linked, Unlinked
      <4> QED  BY <3>1, <4>1, <4>3, <4>4
    <3>7. ASSUME transfers'[i] = transfers[i] \/ KeepsChunks(i)
          PROVE  transfers'[i].chunks[c] = k
      BY <2>1, <3>3, <3>7 DEF KeepsChunks
    <3>8. \A u \in Threads : Manifested(u, i) \/ Completed(u, i) => KeepsChunks(i)
      BY DEF Manifested, Completed
    <3>9. Expiring(i) \/ Littered(i) => KeepsChunks(i)
      BY DEF Expiring, Littered
    <3> HIDE DEF i, c, k
    <3> QED
      BY <3>2, <3>4, <3>5, <3>6, <3>7, <3>8, <3>9 DEF SessionChanges
  <2>2. CASE call'[t] = call[t]
    BY <2>1, <2>2 DEF AckInv, StoredChunks, SameBytes, ChunkOf
  <2>3. CASE /\ MatchChunk(t) /\ SameBytes(t) /\ InPlace(call[t].id) /\ call'[t].id = i
             /\ call'[t].chunk = c /\ call'[t].data = call[t].data
    BY <2>1, <2>3 DEF MatchChunk, StepOf, SameBytes, ChunkOf
  <2>4. CASE /\ UnlinkTemp(t) /\ StepOf(t, "unlink") /\ InPlace(i) /\ call'[t].id = i
             /\ call'[t].chunk = c /\ call'[t].data = call[t].data
    <3>1. i \in TransferIds /\ c \in Chunks /\ call[t].data \in ChunkData
      BY <2>4 DEF StepOf, BaseInv, Arguments, ArgumentsOf, WithId
    <3>2. /\ transfers[i].chunks[c] = [data |-> call[t].data, links |-> 2]
          /\ transfers' = [transfers EXCEPT ![i].chunks[c].links = 1]
      BY <2>4 DEF UnlinkTemp, StepOf, BaseInv, Linking, LinkingOf, ChunkOf
    <3>3. transfers'[i].chunks[c] = k
      BY <3>1, <3>2, UnlinkEffect DEF BaseInv
    <3> QED  BY <2>4, <3>3
  <2>5. CallChanges(t)
    BY CallChange
  <2> QED  BY <2>2, <2>3, <2>4, <2>5 DEF CallChanges, Renamed
<1>5. Unnamed'
  <2> SUFFICES ASSUME NEW t \in Threads, call'[t].step = "manifest"
               PROVE  ~transfers'[call'[t].id].manifest /\ ~transfers'[call'[t].id].expired
    BY DEF Unnamed
  <2>1. CASE call'[t] = call[t]
    <3>1. /\ storeLock = t /\ call[t].id \in TransferIds /\ transfers[call[t].id].place # "none"
          /\ ~transfers[call[t].id].manifest /\ ~transfers[call[t].id].expired
      BY <2>1 DEF BaseInv, Locked, LockedOf, LockedCalls, Arguments, ArgumentsOf, WithId, AckInv, Unnamed
    <3>2. ~Expiring(call[t].id) /\ ~\E u \in Threads : Manifested(u, call[t].id) \/ Emptied(u, call[t].id)
      BY <2>1, <3>1 DEF Manifested, Emptied, StepOf, Expiring, Expire, Active, Published
    <3>3. SessionChanges(call[t].id)
      BY <3>1, SessionChange
    <3> QED
      BY <2>1, <3>1, <3>2, <3>3, LeftTyped DEF SessionChanges, SessionMade, Discarded, Completed, Renamed,
         SessionRemoved, Linked, Unlinked, Swept, Littered, KeepsFlags, KeepsManifest, KeepsExpired
  <2>2. CASE MakeSession(t) /\ StoreFree
    BY <2>2, MakeSessionEffect DEF BaseInv, Fresh, KeepsManifest, KeepsExpired
  <2>3. CallChanges(t)
    BY CallChange
  <2> QED  BY <2>1, <2>2, <2>3 DEF CallChanges, Renamed
<1> QED  BY <1>1, <1>2, <1>3, <1>4, <1>5 DEF AckInv

\* A session and the chunks a client was told are stored stay, with the same
\* bytes, through racing uploads, purges and deaths of the server, until the
\* session expires or the repair, which takes no lock, moves it away.
THEOREM AcknowledgedUploadsStayHolds == TransferSpec => []AcknowledgedUploadsStay
<1>1. TransferInit => AckInv
  BY NoCallTyped DEF TransferInit, AckInv, AcknowledgedUploadsStay, Dues, Removes, StoredChunks, Unnamed
<1>2. BaseInv /\ AckInv /\ [TransferNext]_transferVars => AckInv'
  BY AckKept
<1>3. AckInv => AcknowledgedUploadsStay
  BY DEF AckInv
<1> QED  BY <1>1, <1>2, <1>3, BaseHolds, PTL DEF TransferSpec

-----------------------------------------------------------------------------
(* What is half done is being done by the thread that has the lock, or was  *)
(* cut short.                                                              *)

In(t, step, i) == call[t].step = step /\ call[t].id = i

BeingDone(i) ==
    /\ InPlace(i) /\ ~transfers[i].manifest => \E t \in Threads : In(t, "manifest", i)
    /\ \A c \in Chunks : transfers[i].chunks[c].links = 2 =>
          InPlace(i) /\ \E t \in Threads : In(t, "unlink", i) /\ call[t].chunk = c
    /\ ~transfers[i].litter
    /\ transfers[i].place = "purged" => \E t \in Threads : In(t, "remove", i)

HalfObject ==
    object.links = 2 => TheObject \in cutShort \/ \E t \in Threads : call[t].step = "unlinkObject"
HalfInv == HalfObject /\ \A i \in TransferIds \ cutShort : BeingDone(i)

\* What was cut short is remembered.
LEMMA CutGrows ==
  ASSUME BaseInv, [TransferNext]_transferVars
  PROVE  cutShort \subseteq cutShort'
<1>1. ASSUME NEW t \in Threads, ThreadStep(t), ~Fails(t)
      PROVE  UNCHANGED cutShort
  <2>1. ASSUME Scan(t) \/ ScanAgain(t)
        PROVE  UNCHANGED cutShort
    BY <2>1 DEF Scan, ScanAgain, Reuse, MakeSession
  <2>2. ASSUME PublishManifest(t) \/ UnlinkTemp(t) \/ WriteCompletion(t) \/ PurgeRemove(t)
        PROVE  UNCHANGED cutShort
    BY <2>2 DEF PublishManifest, UnlinkTemp, WriteCompletion, PurgeRemove
  <2>3. ASSUME MatchChunk(t) \/ LinkChunk(t) \/ AnswerPut(t)
        PROVE  UNCHANGED cutShort
    BY <2>3 DEF MatchChunk, LinkChunk, AnswerPut
  <2>4. ASSUME PublishObject(t) \/ UnlinkObject(t) \/ CallPurge(t) \/ EndPurge(t)
        PROVE  UNCHANGED cutShort
    BY <2>4 DEF PublishObject, UnlinkObject, CallPurge, EndPurge
  <2>5. ASSUME NEW who \in Controllers, CallCreate(t, who)
        PROVE  UNCHANGED cutShort
    BY <2>5 DEF CallCreate
  <2> QED  BY <1>1, <2>1, <2>2, <2>3, <2>4, <2>5 DEF ThreadStep, Fails
<1>2. ASSUME NEW t \in Threads, Fails(t)
      PROVE  cutShort \subseteq cutShort'
  BY <1>2, FailureEnds DEF BaseInv
<1>3. ASSUME NEW t \in Threads, NEW i \in TransferIds, SessionStep(t, i)
      PROVE  UNCHANGED cutShort
  BY <1>3 DEF SessionStep, CallPut, CallFinalize, PurgeRename
<1>4. ASSUME Audit \/ ServerDies \/ \E i \in TransferIds : Sweep(i) \/ Expire(i)
      PROVE  cutShort \subseteq cutShort'
  BY <1>4 DEF Audit, Sweep, Expire, ServerDies
<1> QED  BY <1>1, <1>2, <1>3, <1>4 DEF TransferNext, transferVars

\* A thread leaves a section by the step that ends it, or fails.
LEMMA LeavesSection ==
  ASSUME BaseInv, [TransferNext]_transferVars, ~ServerDies, NEW t \in Threads, call'[t] # call[t]
  PROVE  /\ call[t].step = "manifest" => PublishManifest(t) \/ FailCreate(t)
         /\ call[t].step = "unlink" => UnlinkTemp(t) \/ FailPut(t)
         /\ call[t].step = "unlinkObject" => UnlinkObject(t) \/ FailPublish(t)
         /\ call[t].step = "remove" => PurgeRemove(t) \/ PurgeRefused(t) \/ FailPurge(t)
<1>0. call \in [Threads -> Calls]
  BY DEF BaseInv, TransferTypeOK
<1>1. ASSUME NEW u \in Threads, ThreadStep(u)
      PROVE  u = t
  <2>1. ASSUME Fails(u)
        PROVE  u = t
    <3>1. EndCall(u)
      BY <2>1 DEF Fails, FailCreate, FailPut, FailPublish, FailCompletion, PurgeRefused, FailPurge
    <3> QED  BY <1>0, <3>1 DEF EndCall
  <2>2. ASSUME ~Fails(u)
        PROVE  u = t
    BY <1>0, <1>1, <2>2 DEF Fails, ThreadStep, CallCreate, Scan, ScanAgain, Reuse, MakeSession, PublishManifest,
       MatchChunk, LinkChunk, UnlinkTemp, AnswerPut, PublishObject, UnlinkObject, WriteCompletion, CallPurge,
       PurgeRemove, EndPurge, Proceed, EndCall
  <2> QED  BY <2>1, <2>2
<1>2. ASSUME NEW u \in Threads, NEW i \in TransferIds, SessionStep(u, i)
      PROVE  u = t
  BY <1>0, <1>2 DEF SessionStep, CallPut, CallFinalize, PurgeRename, EndCall
<1>3. ThreadStep(t) \/ \E i \in TransferIds : SessionStep(t, i)
  BY <1>1, <1>2 DEF TransferNext, Audit, Sweep, Expire, transferVars
<1>4. \/ call[t].step \in {"idle", "scan", "scanAgain", "put", "stored", "publish", "completion", "purge"}
      \/ (PublishManifest(t) \/ FailCreate(t)) /\ call[t].step = "manifest"
      \/ (UnlinkTemp(t) \/ FailPut(t)) /\ call[t].step = "unlink"
      \/ (UnlinkObject(t) \/ FailPublish(t)) /\ call[t].step = "unlinkObject"
      \/ (PurgeRemove(t) \/ PurgeRefused(t) \/ FailPurge(t)) /\ call[t].step = "remove"
  BY <1>3 DEF ThreadStep, SessionStep, StepOf, CallCreate, Scan, ScanAgain, PublishManifest, MatchChunk,
     LinkChunk, UnlinkTemp, AnswerPut, PublishObject, UnlinkObject, WriteCompletion, CallPurge, PurgeRemove,
     EndPurge, CallPut, CallFinalize, PurgeRename, FailCreate, FailPut, FailPublish, FailCompletion,
     PurgeRefused, FailPurge
<1> QED  BY <1>4

\* The death of the server cuts short what was being done, and nothing else.
LEMMA DeathCuts ==
  ASSUME BaseInv, HalfInv, ServerDies
  PROVE  HalfInv'
<1>1. /\ cutShort' = cutShort \cup {x \in TransferIds \cup {TheObject} : \E t \in Threads : Within(t, x)}
      /\ UNCHANGED object
  BY DEF ServerDies
<1>2. HalfObject'
  BY <1>1 DEF HalfInv, HalfObject, Within
<1>3. ASSUME NEW i \in TransferIds \ cutShort'
      PROVE  BeingDone(i)'
  <2>1. i \notin cutShort /\ ~\E t \in Threads : Within(t, i)
    BY <1>1, <1>3
  <2>2. transfers'[i] = transfers[i]
    <3>1. ASSUME NEW t \in Threads, call[t].step \in {"manifest", "completion"},
                 transfers' = [transfers EXCEPT ![call[t].id].litter = TRUE]
          PROVE  transfers'[i] = transfers[i]
      <4>1. call[t].id \in TransferIds /\ call[t].id # i
        BY <2>1, <3>1 DEF Within, BaseInv, Arguments, ArgumentsOf, WithId
      <4> QED  BY <3>1, <4>1, FlagEffects DEF OnlySession, BaseInv
    <3> QED  BY <3>1 DEF ServerDies
  <2>3. BeingDone(i) /\ \A t \in Threads : ~In(t, "manifest", i) /\ ~In(t, "unlink", i) /\ ~In(t, "remove", i)
    BY <2>1 DEF HalfInv, In, Within
  <2> QED  BY <2>2, <2>3 DEF BeingDone, InPlace
<1> QED  BY <1>2, <1>3 DEF HalfInv

LEMMA HalfKept ==
  ASSUME BaseInv, AckInv, HalfInv, [TransferNext]_transferVars
  PROVE  HalfInv'
<1>0. TransferTypeOK /\ cutShort \subseteq cutShort'
  BY CutGrows DEF BaseInv
<1>1. CASE ServerDies
  BY <1>1, DeathCuts
<1> SUFFICES ASSUME ~ServerDies
             PROVE  HalfObject' /\ \A i \in TransferIds \ cutShort' : BeingDone(i)'
  BY <1>1 DEF HalfInv
<1>3. HalfObject /\ \A i \in TransferIds \ cutShort : BeingDone(i)
  BY DEF HalfInv
<1>4. HalfObject'
  <2> SUFFICES ASSUME object'.links = 2, TheObject \notin cutShort'
               PROVE  \E t \in Threads : call'[t].step = "unlinkObject"
    BY DEF HalfObject
  <2>1. CASE object.links = 2
    <3>1. PICK t \in Threads : call[t].step = "unlinkObject"
      BY <1>0, <1>3, <2>1 DEF HalfObject
    <3>2. ~UnlinkObject(t)
      BY <1>0, <2>1 DEF UnlinkObject, TransferTypeOK, ChunkFiles, NoChunk
    <3>3. ~FailPublish(t)
      BY DEF FailPublish, CutShort, NoChunk
    <3> QED  BY <3>1, <3>2, <3>3, LeavesSection
  <2>2. CASE object.links # 2
    <3>1. ~UNCHANGED object /\ object' # [object EXCEPT !.links = 1] /\ object' # NoChunk
      BY <1>0, <2>2 DEF TransferTypeOK, ChunkFiles, NoChunk
    <3>2. PICK t \in Threads : PublishObject(t)
      BY <3>1, ObjectSteps
    <3>3. Proceed(t, "unlinkObject")
      BY <3>1, <3>2 DEF PublishObject
    <3> QED  BY <1>0, <3>3, ProceedTo DEF CallSteps, LockedCalls
  <2> QED  BY <2>1, <2>2
<1>5. ASSUME NEW i \in TransferIds \ cutShort'
      PROVE  BeingDone(i)'
  <2>0. SessionChanges(i) /\ BeingDone(i) /\ ~Littered(i)
    BY <1>0, <1>3, <1>5, SessionChange DEF Littered
  <2> USE DEF KeepsFlags
  <2>1. ASSUME transfers'[i].place = "sessions", ~transfers'[i].manifest
        PROVE  \E t \in Threads : call'[t].step = "manifest" /\ call'[t].id = i
    <3>1. CASE \E t \in Threads : SessionMade(t, i)
      BY <3>1 DEF SessionMade
    <3>2. CASE InPlace(i) /\ ~transfers[i].manifest
      <4>1. PICK t \in Threads : In(t, "manifest", i)
        BY <2>0, <3>2 DEF BeingDone
      <4>2. ~PublishManifest(t)
        BY <1>0, <2>1, <3>2, <4>1, FlagEffects DEF PublishManifest, In
      <4>3. ~FailCreate(t)
        BY <1>0, <1>5, <2>1, <4>1, FlagEffects, LeftTyped, Changes DEF FailCreate, In, CutShort
      <4> QED  BY <4>1, <4>2, <4>3, LeavesSection DEF In
    <3>3. CASE InPlace(i) /\ transfers[i].manifest
      <4>1. PICK t \in Threads : Emptied(t, i)
        BY <2>0, <2>1, <3>3, LeftTyped DEF SessionChanges, SessionMade, Manifested, Discarded, Completed, Linked,
           Unlinked, Renamed, SessionRemoved, Swept, Expiring, KeepsManifest
      <4>2. FALSE
        BY <3>3, <4>1 DEF Emptied, InPlace, StepOf, AckInv, Removes
      <4> QED  BY <4>2
    <3>4. InPlace(i)'
      BY <2>1 DEF InPlace
    <3> QED  BY <3>1, <3>2, <3>3, <3>4, PlaceOnly
  <2>2. ASSUME NEW c \in Chunks, transfers'[i].chunks[c].links = 2
        PROVE  /\ transfers'[i].place = "sessions"
               /\ \E t \in Threads : call'[t].step = "unlink" /\ call'[t].id = i /\ call'[t].chunk = c
    <3>1. CASE \E t \in Threads : Linked(t, i, c)
      <4>1. PICK t \in Threads : Linked(t, i, c)
        BY <3>1
      <4>2. Proceed(t, "unlink") /\ call[t].chunk = c /\ call[t].id = i
        BY <4>1 DEF Linked, LinkChunk
      <4>3. call'[t].step = "unlink" /\ call'[t].id = i /\ call'[t].chunk = c
        BY <1>0, <4>2, ProceedTo DEF CallSteps, LockedCalls
      <4> QED  BY <4>1, <4>3 DEF Linked, InPlace, KeepsPlace
    <3>2. ~Swept(i) /\ ~\E t \in Threads : SessionRemoved(t, i) \/ Discarded(t, i)
      BY <2>2, LeftTyped DEF Swept, SessionRemoved, Discarded, NoChunk
    <3>3. CASE ~\E t \in Threads : Linked(t, i, c)
      <4>1. transfers[i].chunks[c].links = 2
        <5>1. ASSUME NEW t \in Threads, NEW d \in Chunks, Linked(t, i, d) \/ Unlinked(t, i, d)
              PROVE  transfers[i].chunks[c].links = 2
          BY <2>2, <3>3, <5>1 DEF Linked, Unlinked, NoChunk
        <5>2. ASSUME NEW t \in Threads, Emptied(t, i)
              PROVE  transfers[i].chunks[c].links = 2
          BY <2>2, <5>2 DEF Emptied, NoChunk
        <5> QED
          BY <2>0, <2>2, <3>2, <5>1, <5>2 DEF SessionChanges, SessionMade, Manifested, Completed, Renamed, Expiring,
             KeepsChunks
      <4>2. InPlace(i)
        BY <2>0, <4>1 DEF BeingDone
      <4>3. PICK t \in Threads : In(t, "unlink", i) /\ call[t].chunk = c
        BY <2>0, <4>1 DEF BeingDone
      <4>4. ~UnlinkTemp(t)
        <5>1. ASSUME UnlinkTemp(t)
              PROVE  transfers'[i].chunks[c].links = 1
          <6>1. call[t].data \in ChunkData
            BY <4>3 DEF In, BaseInv, Arguments, ArgumentsOf
          <6>2. /\ transfers[i].chunks[c] = [data |-> call[t].data, links |-> 2]
                /\ transfers' = [transfers EXCEPT ![i].chunks[c].links = 1]
            BY <4>2, <4>3, <5>1 DEF In, UnlinkTemp, StepOf, BaseInv, Linking, LinkingOf, ChunkOf
          <6>3. transfers'[i].chunks[c] = [data |-> call[t].data, links |-> 1]
            BY <1>0, <6>1, <6>2, UnlinkEffect
          <6> QED  BY <6>3
        <5> QED  BY <2>2, <5>1
      <4>5. ~FailPut(t)
        <5>1. ASSUME transfers' = [transfers EXCEPT ![i].chunks[c] = NoChunk]
              PROVE  FALSE
          <6>1. ChunkBecomes(i, c, NoChunk) /\ NoChunk \in ChunkFiles
            BY <5>1 DEF ChunkBecomes, ChunkFiles
          <6>2. transfers'[i].chunks[c] = NoChunk
            BY <1>0, <6>1, ChunkEffect
          <6> QED  BY <2>2, <6>2 DEF NoChunk
        <5> QED  BY <1>5, <4>3, <5>1 DEF FailPut, In, CutShort
      <4>6. storeLock = t
        BY <4>3 DEF In, BaseInv, Locked, LockedOf, LockedCalls
      <4>7. ~\E u \in Threads : Renamed(u, i)
        BY <4>3, <4>6 DEF In, Renamed, PurgeRename, StepOf
      <4>8. transfers'[i].place = "sessions"
        BY <2>0, <3>2, <4>2, <4>7 DEF SessionChanges, SessionMade, Manifested, Completed, Emptied, Linked, Unlinked,
           Expiring, InPlace, KeepsPlace
      <4>9. call'[t] = call[t]
        BY <4>3, <4>4, <4>5, LeavesSection DEF In
      <4> QED  BY <4>3, <4>8, <4>9 DEF In
    <3> QED  BY <3>1, <3>3
  <2>3. ~transfers'[i].litter
    BY <2>0, LeftTyped DEF BeingDone, SessionChanges, SessionMade, Manifested, Discarded, Completed, Linked, Unlinked,
       Renamed, SessionRemoved, Emptied, Swept, Expiring, KeepsLitter
  <2>4. ASSUME transfers'[i].place = "purged"
        PROVE  \E t \in Threads : call'[t].step = "remove" /\ call'[t].id = i
    <3>1. CASE \E t \in Threads : Renamed(t, i)
      BY <3>1 DEF Renamed
    <3>2. CASE ~\E t \in Threads : Renamed(t, i)
      <4>1. transfers[i].place = "purged"
        BY <2>0, <2>4, <3>2, LeftTyped DEF SessionChanges, SessionMade, Manifested, Discarded, Completed, Linked,
           Unlinked, SessionRemoved, Emptied, Swept, Expiring, KeepsPlace
      <4>2. PICK t \in Threads : In(t, "remove", i)
        BY <2>0, <4>1 DEF BeingDone
      <4>3. Removable(i)
        BY <2>0, <4>1 DEF BeingDone, HalfLinked, InPlace, Removable
      <4>4. ~PurgeRemove(t)
        <5>1. ASSUME PurgeRemove(t)
              PROVE  transfers'[i].place = "gone"
          <6>1. transfers' = [transfers EXCEPT ![i] = Left("gone")]
            BY <4>2, <5>1 DEF In, PurgeRemove
          <6>2. transfers'[i] = Left("gone")
            BY <1>0, <6>1, LeftTyped, Changes
          <6> QED  BY <6>2, LeftTyped
        <5> QED  BY <2>4, <5>1
      <4>5. ~PurgeRefused(t) /\ ~FailPurge(t)
        BY <1>5, <4>2, <4>3 DEF In, PurgeRefused, FailPurge, CutShort
      <4> QED  BY <4>2, <4>4, <4>5, LeavesSection DEF In
    <3> QED  BY <3>1, <3>2
  <2> QED  BY <2>1, <2>2, <2>3, <2>4 DEF BeingDone, In, InPlace
<1> QED  BY <1>4, <1>5

\* Whoever takes the lock meets nothing half done but what a death, a failure
\* that could not clean up, or a failed purge cut short: no file with two links,
\* no session without its manifest, no purge that was not finished comes of
\* anything else, whatever the repair moves away meanwhile.
THEOREM OnlyCutWorkIsHalfDoneHolds == TransferSpec => []OnlyCutWorkIsHalfDone
<1>1. TransferInit => HalfInv
  BY DEF TransferInit, HalfInv, HalfObject, BeingDone, InPlace, NoTransfer, NoChunk
<1>2. BaseInv /\ AckInv /\ HalfInv /\ [TransferNext]_transferVars => HalfInv'
  BY HalfKept
<1>3. BaseInv /\ HalfInv => OnlyCutWorkIsHalfDone
  <2> SUFFICES ASSUME BaseInv, HalfInv, StoreFree
               PROVE  /\ object.links = 2 => TheObject \in cutShort
                      /\ \A i \in TransferIds \ cutShort :
                            /\ InPlace(i) => Published(i) /\ ~HalfLinked(i) /\ ~transfers[i].litter
                            /\ transfers[i].place # "purged"
    BY DEF OnlyCutWorkIsHalfDone
  <2>1. \A t \in Threads : call[t].step \notin LockedCalls
    BY NoThreadAssumption DEF BaseInv, Locked, LockedOf, StoreFree
  <2>2. HalfObject /\ \A i \in TransferIds \ cutShort : BeingDone(i)
    BY DEF HalfInv
  <2>3. object.links = 2 => TheObject \in cutShort
    BY <2>1, <2>2 DEF HalfObject, LockedCalls
  <2>4. ASSUME NEW i \in TransferIds \ cutShort
        PROVE  /\ InPlace(i) => Published(i) /\ ~HalfLinked(i) /\ ~transfers[i].litter
               /\ transfers[i].place # "purged"
    BY <2>1, <2>2 DEF BeingDone, In, LockedCalls, Published, HalfLinked
  <2> QED  BY <2>3, <2>4
<1>4. TransferInit => AckInv
  BY NoCallTyped DEF TransferInit, AckInv, AcknowledgedUploadsStay, Dues, Removes, StoredChunks, Unnamed
<1>5. BaseInv /\ AckInv /\ [TransferNext]_transferVars => AckInv'
  BY AckKept
<1> QED  BY <1>1, <1>2, <1>3, <1>4, <1>5, BaseHolds, PTL DEF TransferSpec

-----------------------------------------------------------------------------
(* The project sessions.                                                   *)

HandlerStates == [step: Requests, job: Jobs \cup {NoJob}, source: SourceStates,
                  reports: ReportWrites, gate: Gates]
JobSteps == Running \cup {"none", "queued", "failed", "passed", "finalized"}
Validations == [step: JobSteps, full: SourceStates, standard: SourceStates]

HandlerType == handler \in [Handlers -> HandlerStates]
ValidationType == validation \in [Jobs -> Validations]
ProjectType ==
    /\ project \in {"there", "gone", "revived"}
    /\ source \in SourceStates /\ reports \in ReportWrites /\ gate \in Gates
    /\ receipt \in [source: SourceStates, reports: ReportWrites, gate: Gates]
HistoryType ==
    /\ record \in {"open", "expired", "terminated"}
    /\ tokens \subseteq Uploads /\ delivered \subseteq Uploads /\ validated \subseteq Uploads
    /\ raced \in BOOLEAN
    /\ dead \in [answered: BOOLEAN, survivors: BOOLEAN]

Types == HandlerType /\ ValidationType /\ ProjectType /\ HistoryType

\* A download names an upload, and a validation past its first stage has read one.
SourcesRead ==
    /\ \A h \in Handlers : handler[h].step \in {"gateCheck", "snapshot"} => handler[h].source \in Uploads
    /\ \A j \in Jobs : validation[j].step \in Running \ {"compat", "full"} => validation[j].full \in Uploads

\* The parts are the type invariant of the module.
LEMMA TypesAreAll == DeliveryTypeOK <=> Types
  BY DEF DeliveryTypeOK, Types, HandlerType, ValidationType, ProjectType, HistoryType,
         HandlerStates, Validations, JobSteps

-----------------------------------------------------------------------------
LEMMA IdleTyped == IdleHandler \in HandlerStates
  BY DEF IdleHandler, HandlerStates, Requests, NoJob, SourceStates, ReportWrites, Gates

\* What a thread may do to its own state.
LEMMA EnterTyped ==
  ASSUME HandlerType, NEW h \in Handlers, NEW step \in Requests, Enter(h, step)
  PROVE  HandlerType'
  BY DEF HandlerType, Enter, HandlerStates

LEMMA AnswerTyped ==
  ASSUME HandlerType, NEW h \in Handlers, Answer(h)
  PROVE  HandlerType'
  BY IdleTyped DEF HandlerType, Answer

LEMMA EnterAt ==
  ASSUME HandlerType, NEW h \in Handlers, NEW step, Enter(h, step)
  PROVE  handler'[h].step = step /\ \A g \in Handlers \ {h} : handler'[g] = handler[g]
  BY DEF HandlerType, Enter, HandlerStates

LEMMA AnswerAt ==
  ASSUME HandlerType, NEW h \in Handlers, Answer(h)
  PROVE  handler'[h].step = "idle" /\ \A g \in Handlers \ {h} : handler'[g] = handler[g]
  BY DEF HandlerType, Answer, IdleHandler

LEMMA GotoTyped ==
  ASSUME ValidationType, NEW j \in Jobs, NEW step \in JobSteps, JobGoto(j, step)
  PROVE  ValidationType'
  BY DEF ValidationType, JobGoto, Validations

\* The steps of a handler keep the types of the handlers ...
LEMMA HandlersTyped ==
  ASSUME Types, NEW h \in Handlers, HandlerStep(h)
  PROVE  HandlerType'
<1> USE DEF Types
<1>r. {"idle", "upload", "submit", "verify", "bind", "record", "issue", "gateCheck",
       "snapshot", "terminate", "purge"} \subseteq Requests
  BY DEF Requests
<1>1. CASE CallValidate(h)
  BY <1>1, <1>r, EnterTyped DEF CallValidate
<1>2. CASE CallPrepare(h)
  BY <1>2, <1>r, EnterTyped DEF CallPrepare
<1>3. CASE CallTerminate(h)
  BY <1>3, <1>r, EnterTyped DEF CallTerminate
<1>4. CASE PublishUpload(h)
  BY <1>4, AnswerTyped DEF PublishUpload
<1>5. CASE VerifyGate(h)
  BY <1>5, <1>r, AnswerTyped, EnterTyped DEF VerifyGate
<1>6. CASE BindGate(h)
  <2>1. CASE gate = NoGate
    BY <1>6, <2>1, AnswerTyped DEF BindGate
  <2>2. CASE gate # NoGate
    BY <1>6, <2>2, <1>r DEF BindGate, HandlerType, HandlerStates, ProjectType
  <2> QED BY <2>1, <2>2
<1>7. CASE RecordReceipt(h)
  BY <1>7, AnswerTyped DEF RecordReceipt
<1>8. CASE IssueToken(h)
  BY <1>8, AnswerTyped DEF IssueToken
<1>9. CASE CheckGateAgain(h)
  BY <1>9, <1>r, AnswerTyped, EnterTyped DEF CheckGateAgain
<1>10. CASE SendSnapshot(h)
  BY <1>10, AnswerTyped DEF SendSnapshot
<1>11. CASE MarkTerminated(h)
  BY <1>11, <1>r, AnswerTyped, EnterTyped DEF MarkTerminated
<1>12. CASE PurgeProject(h)
  BY <1>12, AnswerTyped DEF PurgeProject
<1>13. ASSUME NEW s \in Uploads, CallUpload(h, s)
       PROVE  HandlerType'
  BY <1>13, <1>r DEF CallUpload, HandlerType, HandlerStates, SourceStates
<1>14. ASSUME NEW s \in Uploads, CallDownload(h, s)
       PROVE  HandlerType'
  BY <1>14, <1>r DEF CallDownload, HandlerType, HandlerStates, SourceStates
<1>15. ASSUME NEW j \in Jobs, SubmitJob(h, j)
       PROVE  HandlerType'
  BY <1>15, AnswerTyped DEF SubmitJob
<1>16. ASSUME NEW j \in Jobs, CallPoll(h, j)
       PROVE  HandlerType'
  BY <1>16, <1>r DEF CallPoll, HandlerType, HandlerStates, ProjectType
<1> QED
  BY <1>1, <1>2, <1>3, <1>4, <1>5, <1>6, <1>7, <1>8, <1>9, <1>10, <1>11, <1>12,
     <1>13, <1>14, <1>15, <1>16 DEF HandlerStep

\* ... of the validations ...
LEMMA ValidationsTyped ==
  ASSUME Types, NEW h \in Handlers, HandlerStep(h)
  PROVE  ValidationType'
<1>1. CASE RecordReceipt(h)
  <2>1. handler[h].job \in Jobs => ValidationType'
    BY <1>1 DEF RecordReceipt, Types, ValidationType, Validations, JobSteps
  <2>2. handler[h].job \notin Jobs => ValidationType'
    BY <1>1 DEF RecordReceipt, Types, ValidationType, Validations, JobSteps
  <2> QED  BY <2>1, <2>2
<1>2. ASSUME NEW j \in Jobs, SubmitJob(h, j)
      PROVE  ValidationType'
  BY <1>2 DEF SubmitJob, Types, ValidationType, Validations, JobSteps
<1>3. CASE UNCHANGED validation
  BY <1>3 DEF Types, ValidationType
<1> QED
  BY <1>1, <1>2, <1>3 DEF HandlerStep, CallValidate, CallPrepare, CallTerminate, PublishUpload,
     VerifyGate, BindGate, IssueToken, CheckGateAgain, SendSnapshot, MarkTerminated,
     PurgeProject, CallUpload, CallDownload, CallPoll

\* ... of the project ...
LEMMA ProjectTyped ==
  ASSUME Types, NEW h \in Handlers, HandlerStep(h)
  PROVE  ProjectType'
<1> USE DEF Types
<1>1. CASE PublishUpload(h)
  BY <1>1 DEF PublishUpload, ProjectType, MakesDirectories, HandlerType, HandlerStates
<1>2. ASSUME NEW j \in Jobs, SubmitJob(h, j)
      PROVE  ProjectType'
  BY <1>2 DEF SubmitJob, ProjectType, MakesDirectories
<1>3. CASE RecordReceipt(h)
  BY <1>3 DEF RecordReceipt, ProjectType, MakesDirectories, HandlerType, HandlerStates
<1>4. CASE PurgeProject(h)
  BY <1>4 DEF PurgeProject, ProjectType, SourceStates, ReportWrites, Gates, NoReceipt
<1>5. CASE UNCHANGED projectVars
  BY <1>5 DEF ProjectType, projectVars
<1> QED
  BY <1>1, <1>2, <1>3, <1>4, <1>5 DEF HandlerStep, CallValidate, CallPrepare, CallTerminate,
     VerifyGate, BindGate, IssueToken, CheckGateAgain, SendSnapshot, MarkTerminated,
     CallUpload, CallDownload, CallPoll

\* ... and of the record and the history.
LEMMA HistoryTyped ==
  ASSUME Types, SourcesRead, NEW h \in Handlers, HandlerStep(h)
  PROVE  HistoryType'
<1> DEFINE others == <<record, tokens, delivered, validated, raced, dead>>
<1> USE DEF Types
<1>1. CASE PublishUpload(h)
  <2>1. raced' \in BOOLEAN
    BY <1>1 DEF PublishUpload, HistoryType
  <2> QED  BY <1>1, <2>1 DEF PublishUpload, HistoryType
<1>2. CASE IssueToken(h)
  <2>1. tokens' \subseteq Uploads
    BY <1>2 DEF IssueToken, HistoryType, ProjectType, SourceStates
  <2> QED  BY <1>2, <2>1 DEF IssueToken, HistoryType
<1>3. CASE SendSnapshot(h)
  BY <1>3 DEF SendSnapshot, HistoryType, SourcesRead, InStep
<1>4. CASE MarkTerminated(h)
  BY <1>4 DEF MarkTerminated, HistoryType
<1>5. CASE PurgeProject(h)
  <2>1. dead' \in [answered: BOOLEAN, survivors: BOOLEAN]
    BY <1>5 DEF PurgeProject
  <2> QED  BY <1>5, <2>1 DEF PurgeProject, HistoryType
<1>6. CASE UNCHANGED others
  BY <1>6 DEF HistoryType
<1> QED
  BY <1>1, <1>2, <1>3, <1>4, <1>5, <1>6 DEF HandlerStep, CallValidate, CallPrepare, CallTerminate,
     VerifyGate, BindGate, RecordReceipt, CheckGateAgain, CallUpload, CallDownload, CallPoll, SubmitJob

\* The stages of a validation.
LEMMA StagesTyped ==
  ASSUME Types, SourcesRead, NEW j \in Jobs, StageStep(j)
  PROVE  Types' /\ SourcesRead'
<1> USE DEF Types
<1>s. JobSteps = {"compat", "full", "fullReport", "standard", "standardReport", "gate",
                  "none", "queued", "failed", "passed", "finalized"}
  BY DEF JobSteps, Running
<1>1. CASE StartJob(j)
  <2>1. ValidationType'
    BY <1>1, <1>s, GotoTyped DEF StartJob
  <2>2. SourcesRead'
    BY <1>1 DEF StartJob, JobGoto, SourcesRead, ValidationType, Validations, Running
  <2> QED
    BY <1>1, <2>1, <2>2 DEF StartJob, HandlerType, ProjectType, HistoryType, projectVars
<1>2. CASE RunStage(j)
  <2>1. CASE source = Absent
    <3>1. JobGoto(j, "failed")
      BY <1>2, <2>1 DEF RunStage
    <3>2. ValidationType'
      BY <3>1, <1>s, GotoTyped
    <3>3. SourcesRead'
      BY <1>2, <3>1 DEF RunStage, JobGoto, SourcesRead, ValidationType, Validations, Running
    <3> QED
      BY <1>2, <3>2, <3>3 DEF RunStage, HandlerType, ProjectType, HistoryType, projectVars
  <2>2. CASE source # Absent
    <3>1. source \in Uploads
      BY <2>2 DEF ProjectType, SourceStates
    <3>2. PICK v \in Validations :
             /\ validation' = [validation EXCEPT ![j] = v]
             /\ v.full \in Uploads
      <4>1. validation[j] \in Validations
        BY DEF ValidationType
      <4>2. CASE validation[j].step = "full"
        <5> DEFINE v == [step |-> "fullReport", full |-> source, standard |-> validation[j].standard]
        <5>1. v \in Validations /\ v.full \in Uploads
          BY <3>1, <4>1, <1>s DEF Validations, SourceStates
        <5>2. validation' = [validation EXCEPT ![j] = v]
          BY <1>2, <2>2, <4>1, <4>2 DEF RunStage, ValidationType, Validations
        <5> QED  BY <5>1, <5>2
      <4>3. CASE validation[j].step = "standard"
        <5> DEFINE v == [step |-> "standardReport", full |-> validation[j].full, standard |-> source]
        <5>1. v \in Validations /\ v.full \in Uploads
          BY <3>1, <4>1, <4>3, <1>s DEF Validations, SourceStates, SourcesRead, Running
        <5>2. validation' = [validation EXCEPT ![j] = v]
          BY <1>2, <2>2, <4>1, <4>3 DEF RunStage, ValidationType, Validations
        <5> QED  BY <5>1, <5>2
      <4> QED  BY <1>2, <4>2, <4>3 DEF RunStage
    <3>3. ValidationType' /\ SourcesRead'
      BY <1>2, <3>2 DEF RunStage, ValidationType, SourcesRead
    <3> QED
      BY <1>2, <3>3 DEF RunStage, HandlerType, ProjectType, HistoryType, projectVars
  <2> QED  BY <2>1, <2>2
<1>3. CASE WriteReport(j)
  <2>1. PICK step \in JobSteps :
           /\ JobGoto(j, step)
           /\ step \in Running \ {"compat", "full"} =>
                 validation[j].step \in Running \ {"compat", "full"}
    BY <1>3, <1>s DEF WriteReport, Follows, Running
  <2>2. ValidationType'
    BY <2>1, GotoTyped
  <2>3. SourcesRead'
    BY <1>3, <2>1 DEF WriteReport, JobGoto, SourcesRead, ValidationType, Validations
  <2>4. ProjectType'
    BY <1>3 DEF WriteReport, Follows, ProjectType, ReportWrites, MakesDirectories
  <2> QED  BY <1>3, <2>2, <2>3, <2>4 DEF WriteReport, HandlerType, HistoryType
<1>4. CASE WriteGate(j)
  <2>1. PICK step \in {"failed", "passed"} : JobGoto(j, step)
    BY <1>4 DEF WriteGate
  <2>2. ValidationType'
    BY <2>1, <1>s, GotoTyped
  <2>3. SourcesRead'
    BY <1>4, <2>1 DEF WriteGate, JobGoto, SourcesRead, ValidationType, Validations, Running
  <2>4. ProjectType'
    BY <1>4 DEF WriteGate, ProjectType, SourceStates, Gates
  <2>5. HistoryType'
    BY <1>4 DEF WriteGate, HistoryType, SourcesRead, Running
  <2> QED  BY <1>4, <2>2, <2>3, <2>4, <2>5 DEF WriteGate, HandlerType
<1> QED  BY <1>1, <1>2, <1>3, <1>4 DEF StageStep

LEMMA SourcesReadKept ==
  ASSUME Types, SourcesRead, NEW h \in Handlers, HandlerStep(h)
  PROVE  SourcesRead'
<1> USE DEF Types
<1>1. \A g \in Handlers : handler'[g].step \in {"gateCheck", "snapshot"} => handler'[g].source \in Uploads
  <2> SUFFICES ASSUME NEW g \in Handlers, handler'[g].step \in {"gateCheck", "snapshot"}
               PROVE  handler'[g].source \in Uploads
    OBVIOUS
  <2>1. CASE g # h
    <3>1. handler'[g] = handler[g]
      BY <2>1 DEF HandlerStep, CallValidate, CallPrepare, CallTerminate, PublishUpload,
         VerifyGate, BindGate, RecordReceipt, IssueToken, CheckGateAgain, SendSnapshot,
         MarkTerminated, PurgeProject, CallUpload, CallDownload, SubmitJob, CallPoll,
         Enter, Answer, HandlerType
    <3> QED  BY <3>1 DEF SourcesRead
  <2>2. CASE g = h /\ CheckGateAgain(h)
    BY <2>2 DEF CheckGateAgain, InStep, Enter, Answer, IdleHandler, SourcesRead, HandlerType, HandlerStates
  <2>3. ASSUME NEW s \in Uploads, g = h, CallDownload(h, s)
        PROVE  handler'[g].source \in Uploads
    BY <2>3 DEF CallDownload, HandlerType, HandlerStates
  <2>4. CASE g = h /\ ~CheckGateAgain(h) /\ \A s \in Uploads : ~CallDownload(h, s)
    <3>1. CASE Answer(h)
      BY <2>4, <3>1, AnswerAt
    <3>2. CASE \E step \in {"submit", "issue", "terminate", "bind", "purge"} : Enter(h, step)
      BY <2>4, <3>2, EnterAt
    <3>3. CASE BindGate(h)
      BY <2>4, <3>1, <3>3 DEF BindGate, HandlerType, HandlerStates
    <3>4. ASSUME NEW s \in Uploads, CallUpload(h, s)
          PROVE  FALSE
      BY <2>4, <3>4 DEF CallUpload, HandlerType, HandlerStates
    <3>5. ASSUME NEW j \in Jobs, CallPoll(h, j)
          PROVE  FALSE
      BY <2>4, <3>5 DEF CallPoll, HandlerType, HandlerStates
    <3> QED
      BY <2>4, <3>1, <3>2, <3>3, <3>4, <3>5
      DEF HandlerStep, CallValidate, CallPrepare, CallTerminate, PublishUpload,
          VerifyGate, RecordReceipt, IssueToken, SendSnapshot, MarkTerminated,
          PurgeProject, SubmitJob
  <2> QED  BY <2>1, <2>2, <2>3, <2>4
<1>2. \A j \in Jobs : validation'[j].step \in Running \ {"compat", "full"} => validation'[j].full \in Uploads
  <2>1. CASE RecordReceipt(h)
    BY <2>1 DEF RecordReceipt, SourcesRead, ValidationType, Validations, Running
  <2>2. ASSUME NEW j \in Jobs, SubmitJob(h, j)
        PROVE  \A k \in Jobs : validation'[k].step \in Running \ {"compat", "full"}
                                  => validation'[k].full \in Uploads
    BY <2>2 DEF SubmitJob, SourcesRead, ValidationType, Validations, Running
  <2>3. CASE UNCHANGED validation
    BY <2>3 DEF SourcesRead
  <2> QED
    BY <2>1, <2>2, <2>3 DEF HandlerStep, CallValidate, CallPrepare, CallTerminate, PublishUpload,
       VerifyGate, BindGate, IssueToken, CheckGateAgain, SendSnapshot, MarkTerminated,
       PurgeProject, CallUpload, CallDownload, CallPoll
<1> QED  BY <1>1, <1>2 DEF SourcesRead

LEMMA TypesInit == DeliveryInit => Types /\ SourcesRead
<1> SUFFICES ASSUME DeliveryInit PROVE Types /\ SourcesRead
  OBVIOUS
<1>1. HandlerType
  BY IdleTyped DEF DeliveryInit, HandlerType
<1>2. ValidationType
  BY DEF DeliveryInit, ValidationType, Validations, JobSteps, SourceStates
<1>3. ProjectType
  BY DEF DeliveryInit, ProjectType, SourceStates, ReportWrites, Gates, NoReceipt
<1>4. HistoryType
  BY DEF DeliveryInit, HistoryType
<1>5. SourcesRead
  BY DEF DeliveryInit, SourcesRead, IdleHandler, Running
<1> QED  BY <1>1, <1>2, <1>3, <1>4, <1>5 DEF Types

LEMMA TypesStep ==
  ASSUME Types, SourcesRead, [DeliveryNext]_deliveryVars
  PROVE  Types' /\ SourcesRead'
<1>1. CASE ExpireSession
  BY <1>1 DEF ExpireSession, Types, SourcesRead, HandlerType, ValidationType, ProjectType,
              HistoryType, projectVars
<1>2. ASSUME NEW j \in Jobs, StageStep(j)
      PROVE  Types' /\ SourcesRead'
  BY <1>2, StagesTyped
<1>3. ASSUME NEW h \in Handlers, HandlerStep(h)
      PROVE  Types' /\ SourcesRead'
  BY <1>3, HandlersTyped, ValidationsTyped, ProjectTyped, HistoryTyped, SourcesReadKept DEF Types
<1>4. CASE UNCHANGED deliveryVars
  BY <1>4 DEF deliveryVars, projectVars, Types, SourcesRead, HandlerType, ValidationType,
              ProjectType, HistoryType
<1> QED  BY <1>1, <1>2, <1>3, <1>4 DEF DeliveryNext

\* The state of a session keeps its types: what is bound, downloaded and
\* validated is always something that was uploaded.
THEOREM DeliveryTypeCorrect == DeliverySpec => []DeliveryTypeOK
<1>1. DeliveryInit => Types /\ SourcesRead
  BY TypesInit
<1>2. (Types /\ SourcesRead) /\ [DeliveryNext]_deliveryVars => (Types /\ SourcesRead)'
  BY TypesStep
<1>3. Types => DeliveryTypeOK
  BY TypesAreAll
<1> QED  BY <1>1, <1>2, <1>3, PTL DEF DeliverySpec

-----------------------------------------------------------------------------
(* What is left of a session once its termination is answered: unless       *)
(* something was at work on the project that makes its directories, nothing *)
(* that could.                                                             *)

AllGone ==
    /\ project = "gone" /\ gate = NoGate
    /\ \A j \in Jobs : validation[j].step \notin Running
    /\ \A h \in Handlers : handler[h].step \notin {"submit", "record"}

RemovalInv ==
    /\ \A h \in Handlers : handler[h].step = "purge" => record = "terminated"
    /\ dead.answered => record = "terminated"
    /\ dead.answered /\ ~dead.survivors => AllGone

\* A thread that is not being terminated stays out of "purge".
LEMMA OnlyMarkedPurge ==
  ASSUME Types, RemovalInv, NEW h \in Handlers, HandlerStep(h)
  PROVE  /\ \A g \in Handlers : handler'[g].step = "purge" => record' = "terminated"
         /\ record = "terminated" => record' = "terminated"
<1> USE DEF Types
<1>1. CASE MarkTerminated(h)
  BY <1>1, EnterAt, AnswerAt DEF MarkTerminated, RemovalInv
<1>2. CASE ~MarkTerminated(h)
  <2>1. UNCHANGED record
    BY <1>2 DEF HandlerStep, CallValidate, CallPrepare, CallTerminate, PublishUpload,
       VerifyGate, BindGate, RecordReceipt, IssueToken, CheckGateAgain, SendSnapshot,
       PurgeProject, CallUpload, CallDownload, SubmitJob, CallPoll
  <2>2. \A g \in Handlers : handler'[g].step = "purge" => handler[g].step = "purge"
    <3>1. CASE Answer(h)
      BY <3>1, AnswerAt
    <3>2. CASE \E step \in Requests \ {"purge"} : Enter(h, step)
      BY <3>2, EnterAt
    <3>3. CASE BindGate(h)
      BY <3>1, <3>3 DEF BindGate, HandlerType, HandlerStates
    <3>4. ASSUME NEW s \in Uploads, CallUpload(h, s) \/ CallDownload(h, s)
          PROVE  \A g \in Handlers : handler'[g].step = "purge" => handler[g].step = "purge"
      BY <3>4 DEF CallUpload, CallDownload, HandlerType, HandlerStates
    <3>5. ASSUME NEW j \in Jobs, CallPoll(h, j)
          PROVE  \A g \in Handlers : handler'[g].step = "purge" => handler[g].step = "purge"
      BY <3>5 DEF CallPoll, HandlerType, HandlerStates
    <3>6. {"submit", "issue", "terminate", "bind", "snapshot"} \subseteq Requests \ {"purge"}
      BY DEF Requests
    <3> QED
      BY <1>2, <3>1, <3>2, <3>3, <3>4, <3>5, <3>6
      DEF HandlerStep, CallValidate, CallPrepare, CallTerminate, PublishUpload, VerifyGate,
          RecordReceipt, IssueToken, CheckGateAgain, SendSnapshot, PurgeProject, SubmitJob
  <2> QED  BY <2>1, <2>2 DEF RemovalInv
<1> QED  BY <1>1, <1>2

LEMMA RemovalByThread ==
  ASSUME Types, RemovalInv, NEW h \in Handlers, HandlerStep(h)
  PROVE  RemovalInv'
<1> USE DEF Types
<1>1. CASE PurgeProject(h)
  <2>1. record = "terminated"
    BY <1>1 DEF PurgeProject, InStep, RemovalInv
  <2>2. handler'[h].step = "idle" /\ \A g \in Handlers \ {h} : handler'[g] = handler[g]
    BY <1>1, AnswerAt DEF PurgeProject
  <2>3. dead'.survivors = (\/ \E j \in Jobs : validation[j].step \in Running
                           \/ \E g \in Handlers : handler[g].step \in {"submit", "record"})
    BY <1>1 DEF PurgeProject
  <2>4. ~dead'.survivors => AllGone'
    BY <1>1, <2>2, <2>3 DEF PurgeProject, AllGone
  <2> QED  BY <1>1, <2>1, <2>2, <2>4 DEF PurgeProject, RemovalInv
<1>2. CASE ~PurgeProject(h)
  <2>1. UNCHANGED dead
    BY <1>2 DEF HandlerStep, CallValidate, CallPrepare, CallTerminate, PublishUpload,
       VerifyGate, BindGate, RecordReceipt, IssueToken, CheckGateAgain, SendSnapshot,
       MarkTerminated, CallUpload, CallDownload, SubmitJob, CallPoll
  <2>2. ASSUME AllGone, record = "terminated"
        PROVE  AllGone'
    <3>1. ~Lookup(h) /\ ~GateCurrent /\ ~RootThere /\ ~Ready
      BY <2>2 DEF Lookup, AllGone, GateCurrent, RootThere, Ready, ReadyWith
    <3>2. CASE PublishUpload(h) \/ VerifyGate(h) \/ BindGate(h) \/ IssueToken(h)
                 \/ CheckGateAgain(h) \/ SendSnapshot(h) \/ MarkTerminated(h)
      <4>1. Answer(h)
        BY <2>2, <3>1, <3>2 DEF PublishUpload, VerifyGate, BindGate, IssueToken, CheckGateAgain,
           SendSnapshot, MarkTerminated, AllGone, StillReady
      <4>2. UNCHANGED <<project, gate, validation>>
        BY <2>2, <3>1, <3>2 DEF PublishUpload, VerifyGate, BindGate, IssueToken, CheckGateAgain,
           SendSnapshot, MarkTerminated, projectVars
      <4> QED  BY <2>2, <4>1, <4>2, AnswerAt DEF AllGone
    <3>3. CASE RecordReceipt(h) \/ \E j \in Jobs : SubmitJob(h, j)
      BY <2>2, <3>3 DEF RecordReceipt, SubmitJob, InStep, AllGone
    <3> QED
      BY <1>2, <3>1, <3>2, <3>3 DEF HandlerStep, CallValidate, CallPrepare, CallTerminate,
         CallUpload, CallDownload, CallPoll
  <2> QED  BY <2>1, <2>2, OnlyMarkedPurge DEF RemovalInv
<1> QED  BY <1>1, <1>2

LEMMA RemovalByStage ==
  ASSUME Types, RemovalInv, NEW j \in Jobs, StageStep(j)
  PROVE  RemovalInv'
<1>1. UNCHANGED <<record, handler, dead>>
  BY DEF StageStep, StartJob, RunStage, WriteReport, WriteGate
<1>2. ASSUME AllGone PROVE AllGone'
  <2>1. validation[j].step \notin Running
    BY <1>2 DEF AllGone
  <2>2. StartJob(j)
    BY <2>1 DEF StageStep, RunStage, WriteReport, WriteGate, Running, Follows
  <2>3. JobGoto(j, "failed")
    BY <1>2, <2>2 DEF StartJob, AllGone
  <2> QED
    BY <1>2, <2>2, <2>3 DEF StartJob, AllGone, JobGoto, Running, Types, ValidationType,
       Validations, projectVars
<1> QED  BY <1>1, <1>2 DEF RemovalInv

\* Once a termination is answered, no request that was under way and no
\* validation that had not started brings the project back.
THEOREM TerminatedStaysRemovedHolds == DeliverySpec => []TerminatedStaysRemoved
<1> DEFINE IInv == Types /\ SourcesRead /\ RemovalInv
<1>1. DeliveryInit => IInv
  BY TypesInit DEF DeliveryInit, RemovalInv, IdleHandler
<1>2. IInv /\ [DeliveryNext]_deliveryVars => IInv'
  <2> SUFFICES ASSUME IInv, [DeliveryNext]_deliveryVars PROVE IInv'
    OBVIOUS
  <2>1. CASE ExpireSession
    <3>1. RemovalInv'
      BY <2>1 DEF ExpireSession, RemovalInv, AllGone, SessionsFree, projectVars
    <3> QED  BY <3>1, TypesStep
  <2>2. CASE UNCHANGED deliveryVars
    <3>1. RemovalInv'
      BY <2>2 DEF deliveryVars, projectVars, RemovalInv, AllGone
    <3> QED  BY <3>1, TypesStep
  <2> QED  BY <2>1, <2>2, TypesStep, RemovalByStage, RemovalByThread DEF DeliveryNext
<1>3. IInv => TerminatedStaysRemoved
  BY DEF RemovalInv, AllGone, TerminatedStaysRemoved
<1> QED  BY <1>1, <1>2, <1>3, PTL DEF DeliverySpec

-----------------------------------------------------------------------------
(* Until an upload races with a validation or a download: a validation at   *)
(* work has run the source there is, the gate covers a validated source,    *)
(* and a download past its check names one.                                *)

StagesAgree ==
    \A j \in Jobs :
        /\ validation[j].step \in Running \ {"compat", "full"} =>
              source = Absent \/ validation[j].full = source
        /\ validation[j].step \in {"standardReport", "gate"} =>
              source = Absent \/ validation[j].standard = source
GateValidated == gate # NoGate => gate.source # Absent /\ gate.source \in validated
DownloadsAgree ==
    \A h \in Handlers :
        /\ handler[h].step = "gateCheck" => source = Absent \/ handler[h].source = source
        /\ handler[h].step = "snapshot" => handler[h].source \in validated

NoRaceInv == StagesAgree /\ GateValidated /\ DownloadsAgree /\ delivered \subseteq validated

LEMMA NoRaceByStage ==
  ASSUME Types, NoRaceInv, NEW j \in Jobs, StageStep(j)
  PROVE  NoRaceInv'
<1> USE DEF Types
<1>1. CASE StartJob(j)
  <2>1. StagesAgree'
    BY <1>1 DEF StartJob, JobGoto, NoRaceInv, StagesAgree, ValidationType, Validations, Running, projectVars
  <2> QED
    BY <1>1, <2>1 DEF StartJob, NoRaceInv, GateValidated, DownloadsAgree, projectVars
<1>2. CASE RunStage(j)
  <2>1. StagesAgree'
    <3>1. CASE source = Absent
      BY <1>2, <3>1 DEF RunStage, StagesAgree, projectVars
    <3>2. CASE source # Absent
      <4> SUFFICES ASSUME NEW k \in Jobs PROVE StagesAgree!(k)'
        BY DEF StagesAgree
      <4>1. CASE k = j /\ validation[j].step = "full"
        <5>1. validation'[j].step = "fullReport" /\ validation'[j].full = source
          BY <1>2, <3>2, <4>1 DEF RunStage, ValidationType, Validations
        <5> QED  BY <1>2, <4>1, <5>1 DEF RunStage, projectVars
      <4>2. CASE k = j /\ validation[j].step = "standard"
        <5>1. validation'[j].step = "standardReport" /\ validation'[j].standard = source
              /\ validation'[j].full = validation[j].full
          BY <1>2, <3>2, <4>2 DEF RunStage, ValidationType, Validations
        <5> QED  BY <1>2, <4>2, <5>1 DEF RunStage, projectVars, NoRaceInv, StagesAgree, Running
      <4>3. CASE k # j
        <5>1. validation'[k] = validation[k]
          BY <1>2, <3>2, <4>3 DEF RunStage, ValidationType
        <5> QED  BY <1>2, <5>1 DEF RunStage, projectVars, NoRaceInv, StagesAgree
      <4> QED  BY <1>2, <4>1, <4>2, <4>3 DEF RunStage
    <3> QED  BY <3>1, <3>2
  <2> QED
    BY <1>2, <2>1 DEF RunStage, NoRaceInv, GateValidated, DownloadsAgree, projectVars
<1>3. CASE WriteReport(j)
  <2>1. PICK step :
           /\ JobGoto(j, step)
           /\ step \in Running \ {"compat", "full"} =>
                 validation[j].step \in Running \ {"compat", "full"}
           /\ step \in {"standardReport", "gate"} => validation[j].step \in {"standardReport", "gate"}
    BY <1>3 DEF WriteReport, Follows, Running
  <2>2. StagesAgree'
    BY <1>3, <2>1 DEF WriteReport, JobGoto, NoRaceInv, StagesAgree, ValidationType, Validations
  <2> QED
    BY <1>3, <2>2 DEF WriteReport, NoRaceInv, GateValidated, DownloadsAgree
<1>4. CASE WriteGate(j)
  <2>1. PICK step \in {"failed", "passed"} : JobGoto(j, step)
    BY <1>4 DEF WriteGate
  <2>2. StagesAgree'
    BY <1>4, <2>1 DEF WriteGate, JobGoto, NoRaceInv, StagesAgree, ValidationType, Validations, Running
  <2>3. validated \subseteq validated'
    BY <1>4 DEF WriteGate
  <2>4. GateValidated'
    <3>1. CASE source = Absent
      BY <1>4, <3>1 DEF WriteGate, NoRaceInv, GateValidated
    <3>2. CASE source # Absent
      <4>1. validation[j].full = source /\ validation[j].standard = source
        BY <1>4, <3>2 DEF WriteGate, NoRaceInv, StagesAgree, Running
      <4> QED  BY <1>4, <3>2, <4>1 DEF WriteGate, GateValidated
    <3> QED  BY <3>1, <3>2
  <2> QED
    BY <1>4, <2>2, <2>3, <2>4 DEF WriteGate, NoRaceInv, DownloadsAgree
<1> QED  BY <1>1, <1>2, <1>3, <1>4 DEF StageStep

LEMMA NoRaceByThread ==
  ASSUME Types, NoRaceInv, NEW h \in Handlers, HandlerStep(h), ~raced'
  PROVE  NoRaceInv'
<1> USE DEF Types
\* Only these three actions enter a step of a download, or leave one by it.
<1>1. CASE CheckGateAgain(h)
  <2>1. DownloadsAgree'
    <3>1. CASE Ready
      <4>1. handler[h].source = source /\ source \in validated
        BY <1>1, <3>1 DEF CheckGateAgain, InStep, Ready, ReadyWith, GateCurrent, NoRaceInv,
           GateValidated, DownloadsAgree
      <4>2. handler'[h].step = "snapshot" /\ handler'[h].source = handler[h].source
            /\ \A g \in Handlers \ {h} : handler'[g] = handler[g]
        BY <1>1, <3>1 DEF CheckGateAgain, StillReady, Enter, HandlerType, HandlerStates
      <4> QED  BY <1>1, <4>1, <4>2 DEF CheckGateAgain, NoRaceInv, DownloadsAgree, projectVars
    <3>2. CASE ~Ready
      <4>1. handler'[h].step = "idle" /\ \A g \in Handlers \ {h} : handler'[g] = handler[g]
        BY <1>1, <3>2, AnswerAt DEF CheckGateAgain, StillReady
      <4> QED  BY <1>1, <4>1 DEF CheckGateAgain, NoRaceInv, DownloadsAgree, projectVars
    <3> QED  BY <3>1, <3>2
  <2> QED  BY <1>1, <2>1 DEF CheckGateAgain, NoRaceInv, StagesAgree, GateValidated, projectVars
<1>2. ASSUME NEW s \in Uploads, CallDownload(h, s)
      PROVE  NoRaceInv'
  <2>1. handler'[h].step = "gateCheck" /\ handler'[h].source = s
        /\ \A g \in Handlers \ {h} : handler'[g] = handler[g]
    BY <1>2 DEF CallDownload, HandlerType, HandlerStates
  <2>2. DownloadsAgree'
    <3>1. source = s /\ UNCHANGED <<source, validated>>
      BY <1>2 DEF CallDownload, projectVars
    <3> QED  BY <2>1, <3>1 DEF NoRaceInv, DownloadsAgree
  <2> QED  BY <1>2, <2>2 DEF CallDownload, NoRaceInv, StagesAgree, GateValidated, projectVars
<1>3. CASE SendSnapshot(h)
  <2>1. delivered' \subseteq validated
    BY <1>3 DEF SendSnapshot, InStep, NoRaceInv, DownloadsAgree
  <2>2. handler'[h].step = "idle" /\ \A g \in Handlers \ {h} : handler'[g] = handler[g]
    BY <1>3, AnswerAt DEF SendSnapshot
  <2> QED
    BY <1>3, <2>1, <2>2 DEF SendSnapshot, NoRaceInv, StagesAgree, GateValidated, DownloadsAgree, projectVars
\* The source changes.
<1>4. CASE PublishUpload(h)
  <2>1. handler'[h].step = "idle" /\ \A g \in Handlers \ {h} : handler'[g] = handler[g]
    BY <1>4, AnswerAt DEF PublishUpload
  <2>2. CASE UNCHANGED source
    BY <1>4, <2>1, <2>2 DEF PublishUpload, NoRaceInv, StagesAgree, GateValidated, DownloadsAgree
  <2>3. CASE ~Validating /\ ~Downloading
    BY <1>4, <2>1, <2>3 DEF PublishUpload, NoRaceInv, StagesAgree, GateValidated, DownloadsAgree,
       Validating, Downloading, Running
  <2> QED  BY <1>4, <2>2, <2>3 DEF PublishUpload
<1>5. CASE PurgeProject(h)
  <2>1. handler'[h].step = "idle" /\ \A g \in Handlers \ {h} : handler'[g] = handler[g]
    BY <1>5, AnswerAt DEF PurgeProject
  <2> QED  BY <1>5, <2>1 DEF PurgeProject, NoRaceInv, StagesAgree, GateValidated, DownloadsAgree
\* Nothing the invariant names changes but the validation or the step of a thread.
<1>6. ASSUME UNCHANGED <<source, gate, validated, delivered>>,
             \A g \in Handlers \ {h} : handler'[g] = handler[g],
             handler'[h].step \notin {"gateCheck", "snapshot"},
             \A j \in Jobs :
                validation'[j] = validation[j] \/ validation'[j].step \notin Running
      PROVE  NoRaceInv'
  BY <1>6 DEF NoRaceInv, StagesAgree, GateValidated, DownloadsAgree, Running
<1>7. CASE CallValidate(h) \/ CallPrepare(h) \/ CallTerminate(h) \/ VerifyGate(h) \/ MarkTerminated(h)
             \/ IssueToken(h)
  <2>1. Answer(h) \/ \E step \in {"submit", "issue", "terminate", "bind", "purge"} : Enter(h, step)
    BY <1>7 DEF CallValidate, CallPrepare, CallTerminate, VerifyGate, MarkTerminated, IssueToken
  <2>2. /\ \A g \in Handlers \ {h} : handler'[g] = handler[g]
        /\ handler'[h].step \notin {"gateCheck", "snapshot"}
    BY <2>1, AnswerAt, EnterAt
  <2> QED
    BY <1>6, <1>7, <2>2 DEF CallValidate, CallPrepare, CallTerminate, VerifyGate, MarkTerminated,
       IssueToken, projectVars
<1>8. CASE BindGate(h)
  <2>1. /\ \A g \in Handlers \ {h} : handler'[g] = handler[g]
        /\ handler'[h].step \notin {"gateCheck", "snapshot"}
    <3>1. CASE gate = NoGate
      BY <1>8, <3>1, AnswerAt DEF BindGate
    <3>2. CASE gate # NoGate
      BY <1>8, <3>2 DEF BindGate, HandlerType, HandlerStates
    <3> QED  BY <3>1, <3>2
  <2> QED  BY <1>6, <1>8, <2>1 DEF BindGate, projectVars
<1>9. CASE RecordReceipt(h)
  <2>1. \A j \in Jobs : validation'[j] = validation[j] \/ validation'[j].step \notin Running
    BY <1>9 DEF RecordReceipt, ValidationType, Validations, Running
  <2>2. handler'[h].step = "idle" /\ \A g \in Handlers \ {h} : handler'[g] = handler[g]
    BY <1>9, AnswerAt DEF RecordReceipt
  <2> QED  BY <1>6, <1>9, <2>1, <2>2 DEF RecordReceipt
<1>10. ASSUME NEW j \in Jobs, SubmitJob(h, j)
       PROVE  NoRaceInv'
  <2>1. \A k \in Jobs : validation'[k] = validation[k] \/ validation'[k].step \notin Running
    BY <1>10 DEF SubmitJob, ValidationType, Validations, Running
  <2>2. handler'[h].step = "idle" /\ \A g \in Handlers \ {h} : handler'[g] = handler[g]
    BY <1>10, AnswerAt DEF SubmitJob
  <2> QED  BY <1>6, <1>10, <2>1, <2>2 DEF SubmitJob
<1>11. ASSUME NEW j \in Jobs, CallPoll(h, j)
       PROVE  NoRaceInv'
  <2>1. handler'[h].step = "verify" /\ \A g \in Handlers \ {h} : handler'[g] = handler[g]
    BY <1>11 DEF CallPoll, HandlerType, HandlerStates
  <2> QED  BY <1>6, <1>11, <2>1 DEF CallPoll, projectVars
<1>12. ASSUME NEW s \in Uploads, CallUpload(h, s)
       PROVE  NoRaceInv'
  <2>1. handler'[h].step = "upload" /\ \A g \in Handlers \ {h} : handler'[g] = handler[g]
    BY <1>12 DEF CallUpload, HandlerType, HandlerStates
  <2> QED  BY <1>6, <1>12, <2>1 DEF CallUpload, projectVars
<1> QED
  BY <1>1, <1>2, <1>3, <1>4, <1>5, <1>7, <1>8, <1>9, <1>10, <1>11, <1>12 DEF HandlerStep

\* The gate of delivery holds up against every interleaving but that of an
\* upload with a validation or with a download under way: what is downloaded
\* was run and passed in both stages.
THEOREM OnlyRacesDeliverUnvalidatedHolds == DeliverySpec => []OnlyRacesDeliverUnvalidated
<1> DEFINE IInv == Types /\ SourcesRead /\ (raced \/ NoRaceInv)
<1>1. DeliveryInit => IInv
  BY TypesInit DEF DeliveryInit, NoRaceInv, StagesAgree, GateValidated, DownloadsAgree,
     IdleHandler, Running
<1>2. IInv /\ [DeliveryNext]_deliveryVars => IInv'
  <2> SUFFICES ASSUME IInv, [DeliveryNext]_deliveryVars PROVE IInv'
    OBVIOUS
  <2>1. raced => raced'
    <3>1. CASE UNCHANGED raced
      BY <3>1
    <3>2. CASE \E h \in Handlers : PublishUpload(h)
      BY <3>2 DEF PublishUpload
    <3>3. ASSUME NEW h \in Handlers, HandlerStep(h), ~PublishUpload(h)
          PROVE  UNCHANGED raced
      BY <3>3 DEF HandlerStep, CallValidate, CallPrepare, CallTerminate, VerifyGate, BindGate,
         RecordReceipt, IssueToken, CheckGateAgain, SendSnapshot, MarkTerminated, PurgeProject,
         CallUpload, CallDownload, SubmitJob, CallPoll
    <3>4. ASSUME NEW j \in Jobs, StageStep(j)
          PROVE  UNCHANGED raced
      BY <3>4 DEF StageStep, StartJob, RunStage, WriteReport, WriteGate
    <3>5. ExpireSession \/ UNCHANGED deliveryVars => UNCHANGED raced
      BY DEF ExpireSession, deliveryVars
    <3> QED  BY <3>1, <3>2, <3>3, <3>4, <3>5 DEF DeliveryNext
  <2>2. CASE raced
    BY <2>1, <2>2, TypesStep
  <2>3. CASE ~raced /\ (ExpireSession \/ UNCHANGED deliveryVars)
    <3>1. NoRaceInv'
      BY <2>3 DEF ExpireSession, deliveryVars, projectVars, NoRaceInv, StagesAgree, GateValidated,
         DownloadsAgree
    <3> QED  BY <3>1, TypesStep
  <2>4. CASE ~raced /\ DeliveryNext /\ ~ExpireSession
    BY <2>4, TypesStep, NoRaceByStage, NoRaceByThread DEF DeliveryNext
  <2> QED  BY <2>2, <2>3, <2>4
<1>3. IInv => OnlyRacesDeliverUnvalidated
  BY DEF NoRaceInv, OnlyRacesDeliverUnvalidated
<1> QED  BY <1>1, <1>2, <1>3, PTL DEF DeliverySpec

==============================================================================
