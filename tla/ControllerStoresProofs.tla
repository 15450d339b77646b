------------------------ MODULE ControllerStoresProofs ------------------------
(***************************************************************************)
(* Theorems about the files of a controller: the journal (RecoveryJournal),  *)
(* the checkpoint and the cache of its test runs (ScheduledRun), and all of  *)
(* them together (ControllerStores), with the queue of QueueRecoveryProofs.  *)
(***************************************************************************)
EXTENDS ControllerStores, QueueRecoveryProofs, SequenceTheorems, FiniteSetTheorems


-----------------------------------------------------------------------------
(* The journal.  Only the process that holds the lock touches the file, so   *)
(* that what it read is what the file holds when it writes.                 *)

LockHeld == \A p \in Procs : proc[p].step # "idle" <=> lock = p

\* Line i holds, or begins with, the record that belongs there.
Links(f, i) ==
    /\ f[i].text[1] \in Record
    /\ f[i].text[1].sequence = i
    /\ f[i].text[1].previous = DigestAt(f, i - 1)

\* Every line but the last is one record, with its newline.  The last line may
\* be a cut record, one without its newline, or one with more behind it, which
\* is the record that comes next if a newline ends the line.
Chained(f) ==
    /\ \A i \in 1 .. Len(f) - 1 : f[i].ended /\ Len(f[i].text) = 1 /\ Links(f, i)
    /\ Len(f) > 0 =>
          LET n == Len(f)
              tail == f[n].text
          IN  \/ tail = <<Cut>> /\ ~f[n].ended
              \/ Len(tail) = 1 /\ Links(f, n)
              \/ /\ Len(tail) = 2 /\ Links(f, n)
                 /\ f[n].ended => /\ tail[2] \in Record
                                  /\ tail[2].sequence = n + 1
                                  /\ tail[2].previous = tail[1].digest

\* The records that a newline followed.
Ended(f) == {f[i].text[Len(f[i].text)] : i \in {j \in 1 .. Len(f) : f[j].ended}}

\* What the process in the lock knows of the file.
Informed ==
    \A p \in Procs :
        /\ proc[p].step = "loaded" =>
              /\ ~Malformed(file)
              /\ proc[p].entries = Entries(file)
              /\ proc[p].torn = Torn(file)
        /\ proc[p].step = "written" =>
              /\ proc[p].entries # <<>>
              /\ Last(proc[p].entries) \in Ended(file)

JournalInv == JournalTypeOK /\ LockHeld /\ Chained(file) /\ Informed /\ returned \subseteq Ended(file)

LEMMA CutIsNoRecord == Cut \notin Record
  BY JournalAssumption DEF Cut, Record

LEMMA LineFacts ==
    ASSUME NEW f \in Seq(Line)
    PROVE  /\ Len(f) \in Nat /\ DOMAIN f = 1 .. Len(f)
           /\ f = <<>> <=> Len(f) = 0
           /\ \A i \in 1 .. Len(f) : /\ f[i] \in Line
                                     /\ f[i].text \in Seq(Record \cup {Cut})
                                     /\ Len(f[i].text) \in Nat
                                     /\ f[i].ended \in BOOLEAN
  <1>1. Len(f) \in Nat /\ DOMAIN f = 1 .. Len(f) /\ (f = <<>> <=> Len(f) = 0)
    BY EmptySeq, LenProperties
  <1>2. ASSUME NEW i \in 1 .. Len(f)
        PROVE  /\ f[i] \in Line /\ f[i].text \in Seq(Record \cup {Cut})
               /\ Len(f[i].text) \in Nat /\ f[i].ended \in BOOLEAN
    <2>1. f[i] \in Line
      BY ElementOfSeq
    <2>2. f[i].text \in Seq(Record \cup {Cut}) /\ f[i].ended \in BOOLEAN
      BY <2>1 DEF Line
    <2> QED
      BY <2>1, <2>2, LenProperties
  <1> QED
    BY <1>1, <1>2

LEMMA FrontFacts ==
    ASSUME NEW S, NEW f \in Seq(S), Len(f) > 0
    PROVE  /\ Front(f) \in Seq(S) /\ Len(Front(f)) = Len(f) - 1
           /\ \A i \in 1 .. Len(f) - 1 : Front(f)[i] = f[i]
  <1>1. Len(f) \in Nat
    BY LenProperties
  <1>2. Len(f) - 1 \in Int /\ \A i \in 1 .. Len(f) - 1 : f[i] \in S
    BY <1>1, ElementOfSeq
  <1>3. /\ SubSeq(f, 1, Len(f) - 1) \in Seq(S)
        /\ Len(SubSeq(f, 1, Len(f) - 1)) = IF 1 <= Len(f) - 1 THEN Len(f) - 1 - 1 + 1 ELSE 0
        /\ \A i \in 1 .. Len(f) - 1 - 1 + 1 : SubSeq(f, 1, Len(f) - 1)[i] = f[1 + i - 1]
    BY <1>2, SubSeqProperties
  <1>4. \A n \in Nat \ {0} : /\ n - 1 - 1 + 1 = n - 1
                              /\ (IF 1 <= n - 1 THEN n - 1 - 1 + 1 ELSE 0) = n - 1
                              /\ \A i \in 1 .. n - 1 : 1 + i - 1 = i
    OBVIOUS
  <1>5. Len(f) \in Nat \ {0}
    BY <1>1
  <1>6. \A i \in 1 .. Len(f) - 1 : SubSeq(f, 1, Len(f) - 1)[i] = f[i]
    BY <1>3, <1>4, <1>5
  <1> QED
    BY <1>3, <1>4, <1>5, <1>6 DEF Front

LEMMA EndedFacts ==
    ASSUME NEW f, NEW i \in 1 .. Len(f), f[i].ended
    PROVE  f[i].text[Len(f[i].text)] \in Ended(f)
  BY DEF Ended

\* What a readable journal holds: the entries are the records in their places.
LEMMA ReadableFacts ==
    ASSUME NEW f \in Seq(Line), Chained(f), ~Malformed(f)
    PROVE  /\ Body(f) \in Seq(Line) /\ DOMAIN Body(f) = 1 .. Len(Body(f))
           /\ Len(Body(f)) \in Nat
           /\ \A i \in 1 .. Len(Body(f)) : Len(f[i].text) = 1 /\ Links(f, i)
           /\ IF Torn(f) THEN /\ Len(f) > 0 /\ ~f[Len(f)].ended
                              /\ Len(Body(f)) = Len(f) - 1
                         ELSE Body(f) = f
  <1> USE LineFacts
  <1>1. CASE Torn(f)
    <2>1. Len(f) > 0 /\ Body(f) = Front(f) /\ ~f[Len(f)].ended
      BY <1>1 DEF Torn, Body, Last
    <2>2. Body(f) \in Seq(Line) /\ Len(Body(f)) = Len(f) - 1
      BY <2>1, FrontFacts
    <2> QED
      BY <1>1, <2>1, <2>2, LineFacts DEF Chained
  <1>2. CASE ~Torn(f)
    <2>1. Body(f) = f
      BY <1>2 DEF Body
    <2>2. \A i \in 1 .. Len(f) : Parses(f[i])
      BY <2>1 DEF Malformed
    <2>3. \A i \in 1 .. Len(f) : Len(f[i].text) = 1 /\ f[i].text # <<Cut>>
      BY <2>2 DEF Parses
    <2>4. \A i \in 1 .. Len(f) : Links(f, i)
      BY <2>3 DEF Chained
    <2> QED
      BY <1>2, <2>1, <2>3, <2>4
  <1> QED
    BY <1>1, <1>2

LEMMA EntriesFacts ==
    ASSUME NEW f \in Seq(Line), Chained(f), ~Malformed(f)
    PROVE  /\ Entries(f) \in Seq(Record)
           /\ Len(Entries(f)) = Len(Body(f))
           /\ \A i \in 1 .. Len(Body(f)) : Entries(f)[i] = f[i].text[1]
  <1>1. /\ DOMAIN Body(f) = 1 .. Len(Body(f)) /\ Len(Body(f)) \in Nat
        /\ \A i \in 1 .. Len(Body(f)) : f[i].text[1] \in Record
    BY ReadableFacts DEF Links
  <1>2. Entries(f) = [i \in 1 .. Len(Body(f)) |-> f[i].text[1]]
    BY <1>1 DEF Entries
  <1>3. Entries(f) \in [1 .. Len(Body(f)) -> Record]
    BY <1>1, <1>2
  <1> QED
    BY <1>1, <1>2, <1>3

\* What os.write leaves in the file: a line of its own, or more of the last one.
LEMMA WrittenApart ==
    ASSUME NEW f \in Seq(Line), NEW piece \in Record \cup {Cut}, NEW ended \in BOOLEAN,
           Len(f) = 0 \/ f[Len(f)].ended
    PROVE  /\ Written(f, piece, ended) \in Seq(Line)
           /\ Len(Written(f, piece, ended)) = Len(f) + 1
           /\ \A i \in 1 .. Len(f) : Written(f, piece, ended)[i] = f[i]
           /\ Written(f, piece, ended)[Len(f) + 1] = [text |-> <<piece>>, ended |-> ended]
  <1>1. Written(f, piece, ended) = Append(f, [text |-> <<piece>>, ended |-> ended])
    BY LineFacts DEF Written, Last
  <1>2. [text |-> <<piece>>, ended |-> ended] \in Line
    BY DEF Line
  <1> QED
    BY <1>1, <1>2, AppendProperties

LEMMA WrittenGlued ==
    ASSUME NEW f \in Seq(Line), NEW piece \in Record \cup {Cut}, NEW ended \in BOOLEAN,
           Len(f) > 0, ~f[Len(f)].ended
    PROVE  /\ Written(f, piece, ended) \in Seq(Line)
           /\ Len(Written(f, piece, ended)) = Len(f)
           /\ \A i \in 1 .. Len(f) - 1 : Written(f, piece, ended)[i] = f[i]
           /\ Written(f, piece, ended)[Len(f)] =
                 [text |-> Append(f[Len(f)].text, piece), ended |-> ended]
  <1> DEFINE line == [text |-> Append(f[Len(f)].text, piece), ended |-> ended]
  <1>1. Written(f, piece, ended) = Append(Front(f), line)
    BY LineFacts DEF Written, Last
  <1>2. Len(f) \in Nat /\ f[Len(f)].text \in Seq(Record \cup {Cut})
    BY LineFacts
  <1>3. line \in Line
    BY <1>2 DEF Line
  <1>4. /\ Front(f) \in Seq(Line) /\ Len(Front(f)) = Len(f) - 1
        /\ \A i \in 1 .. Len(f) - 1 : Front(f)[i] = f[i]
    BY <1>2, FrontFacts
  <1> HIDE DEF line
  <1>5. /\ Append(Front(f), line) \in Seq(Line)
        /\ Len(Append(Front(f), line)) = Len(f)
        /\ \A i \in 1 .. Len(f) - 1 : Append(Front(f), line)[i] = Front(f)[i]
        /\ Append(Front(f), line)[Len(f)] = line
    BY <1>2, <1>3, <1>4, AppendProperties
  <1> QED
    BY <1>1, <1>4, <1>5 DEF line

\* A writer that read the whole journal keeps it chained, whether it writes its
\* record with the newline or dies with less than that in the file.
LEMMA ChainedWritten ==
    ASSUME NEW f \in Seq(Line), Chained(f), ~Malformed(f), ~Torn(f),
           NEW r \in Record, r.sequence = Len(f) + 1, r.previous = DigestAt(f, Len(f)),
           NEW piece \in {r, Cut}, NEW ended \in BOOLEAN, ended => piece = r
    PROVE  /\ Chained(Written(f, piece, ended))
           /\ Ended(f) \subseteq Ended(Written(f, piece, ended))
           /\ ended => r \in Ended(Written(f, piece, ended))
  <1> DEFINE g == Written(f, piece, ended)
             n == Len(f)
  <1>0. n \in Nat /\ (f = <<>> <=> n = 0)
    BY LineFacts
  <1>1. \A i \in 1 .. n : Len(f[i].text) = 1 /\ Links(f, i)
    BY ReadableFacts
  <1>2. \A i \in 1 .. n - 1 : f[i].ended
    BY DEF Chained
  <1>4. Cut \notin Record /\ piece \in Record \cup {Cut}
    BY CutIsNoRecord
  <1>5. CASE n = 0 \/ f[n].ended
    <2>1. /\ Len(g) = n + 1 /\ \A i \in 1 .. n : g[i] = f[i]
          /\ g[n + 1] = [text |-> <<piece>>, ended |-> ended]
      BY <1>4, <1>5, WrittenApart
    <2>2. \A i \in 1 .. n : Links(g, i) /\ Len(g[i].text) = 1 /\ g[i].ended
      BY <1>0, <1>1, <1>2, <1>5, <2>1 DEF Links, DigestAt
    <2>3. piece = r => Links(g, n + 1)
      BY <1>0, <2>1 DEF Links, DigestAt
    <2>4. Chained(g)
      BY <1>0, <2>1, <2>2, <2>3 DEF Chained
    <2>5. Ended(f) \subseteq Ended(g)
      BY <1>0, <2>1 DEF Ended
    <2>6. ended => r \in Ended(g)
      <3>1. n + 1 \in 1 .. Len(g) /\ g[n + 1].ended = ended
            /\ g[n + 1].text[Len(g[n + 1].text)] = piece
        BY <1>0, <2>1
      <3> QED
        BY <3>1, EndedFacts
    <2> QED
      BY <2>4, <2>5, <2>6
  <1>6. CASE n > 0 /\ ~f[n].ended
    <2> DEFINE tail == f[n].text
    <2>0. n > 0 /\ tail \in Seq(Record \cup {Cut}) /\ Len(tail) = 1 /\ Links(f, n)
      BY <1>0, <1>1, <1>6, LineFacts
    <2>1. /\ Len(g) = n /\ \A i \in 1 .. n - 1 : g[i] = f[i]
          /\ g[n] = [text |-> Append(tail, piece), ended |-> ended]
      BY <1>4, <1>6, WrittenGlued
    <2>2. Len(g[n].text) = 2 /\ g[n].text[1] = tail[1] /\ g[n].text[2] = piece
      BY <2>0, <2>1, AppendProperties
    <2>3. \A i \in 1 .. n - 1 : Links(g, i) /\ Len(g[i].text) = 1 /\ g[i].ended
      BY <1>0, <1>1, <1>2, <2>1 DEF Links, DigestAt
    <2>4. Links(g, n)
      BY <1>0, <2>0, <2>1, <2>2 DEF Links, DigestAt
    <2>5. r.previous = tail[1].digest
      BY <1>0, <2>0 DEF DigestAt
    <2>6. Chained(g)
      BY <1>0, <2>0, <2>1, <2>2, <2>3, <2>4, <2>5 DEF Chained
    <2>7. Ended(f) \subseteq Ended(g)
      BY <1>0, <1>6, <2>1 DEF Ended
    <2>8. ended => r \in Ended(g)
      <3>1. n \in 1 .. Len(g) /\ g[n].ended = ended /\ g[n].text[Len(g[n].text)] = piece
        BY <1>0, <2>0, <2>1, <2>2
      <3> QED
        BY <3>1, EndedFacts
    <2> QED
      BY <2>6, <2>7, <2>8
  <1> QED
    BY <1>5, <1>6

\* Dropping a torn tail drops no record that a newline followed, and leaves what
\* was read.
LEMMA ChainedRewritten ==
    ASSUME NEW f \in Seq(Line), Chained(f), ~Malformed(f)
    PROVE  /\ Lines(Entries(f)) \in Seq(Line)
           /\ Chained(Lines(Entries(f)))
           /\ Ended(f) \subseteq Ended(Lines(Entries(f)))
           /\ ~Malformed(Lines(Entries(f))) /\ ~Torn(Lines(Entries(f)))
           /\ Entries(Lines(Entries(f))) = Entries(f)
  <1> DEFINE e == Entries(f)
             g == Lines(e)
             k == Len(Body(f))
  <1>0. /\ k \in Nat
        /\ \A i \in 1 .. k : Len(f[i].text) = 1 /\ Links(f, i) /\ f[i].text[1] \in Record
        /\ e \in Seq(Record) /\ Len(e) = k /\ DOMAIN e = 1 .. k
        /\ \A i \in 1 .. k : e[i] = f[i].text[1]
    BY ReadableFacts, EntriesFacts, LenProperties DEF Links
  <1>1. g = [i \in 1 .. k |-> [text |-> <<e[i]>>, ended |-> TRUE]]
    BY <1>0 DEF Lines
  <1>2. \A i \in 1 .. k : [text |-> <<e[i]>>, ended |-> TRUE] \in Line
    BY <1>0 DEF Line
  <1>3. g \in Seq(Line) /\ Len(g) = k /\ DOMAIN g = 1 .. k
    BY <1>0, <1>1, <1>2
  <1>4. \A i \in 1 .. k : /\ g[i].ended /\ Len(g[i].text) = 1
                          /\ g[i].text[1] = f[i].text[1]
    BY <1>0, <1>1
  <1> HIDE DEF g
  <1>5. \A i \in 1 .. k : Links(g, i)
    <2> SUFFICES ASSUME NEW i \in 1 .. k PROVE Links(g, i)
      OBVIOUS
    <2>1. DigestAt(g, i - 1) = DigestAt(f, i - 1)
      <3>1. CASE i = 1
        BY <3>1 DEF DigestAt
      <3>2. CASE i # 1
        <4>1. i - 1 \in 1 .. k /\ i - 1 # 0
          BY <1>0, <3>2
        <4> QED
          BY <1>4, <4>1 DEF DigestAt
      <3> QED
        BY <3>1, <3>2
    <2> QED
      BY <1>0, <1>4, <2>1 DEF Links
  <1>6. Chained(g)
    BY <1>0, <1>3, <1>4, <1>5 DEF Chained
  <1>7. ~Torn(g) /\ Body(g) = g
    BY <1>0, <1>3, <1>4, LineFacts DEF Torn, Body, Last
  <1>8. ~Malformed(g)
    BY <1>3, <1>4, <1>5, <1>7, CutIsNoRecord DEF Malformed, Parses, Links
  <1>9. Entries(g) = e
    <2>1. Entries(g) \in Seq(Record) /\ Len(Entries(g)) = k
          /\ \A i \in 1 .. k : Entries(g)[i] = e[i]
      BY <1>0, <1>3, <1>4, <1>6, <1>7, <1>8, EntriesFacts
    <2> QED
      BY <1>0, <2>1, SeqEqual
  <1>10. Ended(f) \subseteq Ended(g)
    <2>1. \A j \in 1 .. Len(f) : f[j].ended => j \in 1 .. k
      BY <1>0, ReadableFacts, LineFacts
    <2> QED
      BY <1>0, <1>3, <1>4, <2>1 DEF Ended
  <1> QED
    BY <1>3, <1>6, <1>7, <1>8, <1>9, <1>10 DEF g

LEMMA WrittenType ==
    ASSUME NEW f \in Seq(Line), NEW piece \in Record \cup {Cut}, NEW ended \in BOOLEAN
    PROVE  Written(f, piece, ended) \in Seq(Line)
  <1>1. CASE Len(f) = 0 \/ f[Len(f)].ended
    BY <1>1, WrittenApart
  <1>2. CASE Len(f) # 0 /\ ~f[Len(f)].ended
    <2>1. Len(f) > 0
      BY <1>2, LineFacts
    <2> QED
      BY <1>2, <2>1, WrittenGlued
  <1> QED
    BY <1>1, <1>2

-----------------------------------------------------------------------------
(* The invariant of the journal.                                           *)

LEMMA InitJournalInv == JournalInit => JournalInv
  <1> SUFFICES ASSUME JournalInit PROVE JournalInv
    OBVIOUS
  <1>1. IdleProc \in Proc
    BY DEF IdleProc, Proc, JournalSteps, Tasks
  <1>2. JournalTypeOK
    BY <1>1, JournalAssumption DEF JournalInit, JournalTypeOK
  <1> QED
    BY <1>2, JournalAssumption
       DEF JournalInit, JournalInv, LockHeld, IdleProc, Chained, Informed, Ended

\* What a process that holds the lock leaves alone: the others are idle.
LEMMA OthersIdle ==
    ASSUME LockHeld, NEW p \in Procs, NEW q \in Procs \ {p}, proc[p].step # "idle"
    PROVE  proc[q].step = "idle"
  BY DEF LockHeld

LEMMA LeaveKeeps ==
    ASSUME JournalTypeOK, LockHeld, Informed, NEW p \in Procs, Leave(p)
    PROVE  /\ lock' \in Procs \cup {Nobody} /\ proc' \in [Procs -> Proc]
           /\ LockHeld'
           /\ \A q \in Procs : proc'[q].step = "idle" \/ (q # p /\ proc'[q] = proc[q])
  <1>1. IdleProc \in Proc /\ IdleProc.step = "idle"
    BY DEF IdleProc, Proc, JournalSteps, Tasks
  <1> QED
    BY <1>1, JournalAssumption DEF Leave, JournalTypeOK, LockHeld

LEMMA NextRecordFacts ==
    ASSUME JournalTypeOK, LockHeld, Chained(file), Informed, NEW p \in Procs, Writing(p)
    PROVE  /\ ~Malformed(file) /\ ~Torn(file) /\ proc[p].step = "loaded"
           /\ NextRecord(p) \in Record
           /\ NextRecord(p).sequence = Len(file) + 1
           /\ NextRecord(p).previous = DigestAt(file, Len(file))
           /\ built' \in 0 .. MaxRecords
  <1> DEFINE e == proc[p].entries
  <1>1. /\ proc[p].step = "loaded" /\ built < MaxRecords /\ built' = built + 1
        /\ ~Malformed(file) /\ e = Entries(file) /\ ~Torn(file)
    BY DEF Writing, Informed
  <1>2. file \in Seq(Line) /\ Len(file) \in Nat /\ Body(file) = file
    BY <1>1, LineFacts, ReadableFacts DEF JournalTypeOK
  <1>3. /\ e \in Seq(Record) /\ Len(e) = Len(file)
        /\ \A i \in 1 .. Len(file) : e[i] = file[i].text[1] /\ e[i] \in Record
    BY <1>1, <1>2, EntriesFacts, ReadableFacts DEF Links
  <1>4. e = <<>> <=> Len(file) = 0
    BY <1>3, EmptySeq
  <1>5. built \in 0 .. MaxRecords /\ MaxRecords \in Nat
    BY JournalAssumption DEF JournalTypeOK
  <1>6. NextRecord(p) = [digest |-> built + 1, sequence |-> Len(file) + 1,
                         previous |-> DigestAt(file, Len(file))]
    BY <1>2, <1>3, <1>4 DEF NextRecord, DigestAt, Last
  <1>7. DigestAt(file, Len(file)) \in 0 .. MaxRecords
    <2>1. CASE Len(file) = 0
      BY <1>5, <2>1 DEF DigestAt
    <2>2. CASE Len(file) # 0
      <3>1. Len(file) \in 1 .. Len(file)
        BY <1>2, <2>2
      <3>2. file[Len(file)].text[1] \in Record
        BY <1>3, <3>1
      <3>3. file[Len(file)].text[1].digest \in 1 .. MaxRecords
        BY <3>2 DEF Record
      <3> QED
        BY <1>5, <2>2, <3>3 DEF DigestAt
    <2> QED
      BY <2>1, <2>2
  <1>8. NextRecord(p) \in Record
    BY <1>1, <1>2, <1>5, <1>6, <1>7 DEF Record
  <1> QED
    BY <1>1, <1>5, <1>6, <1>8

LEMMA NextJournalInv == JournalInv /\ [JournalNext]_journalVars => JournalInv'
  <1> SUFFICES ASSUME JournalInv, [JournalNext]_journalVars PROVE JournalInv'
    OBVIOUS
  <1>0. /\ JournalTypeOK /\ LockHeld /\ Chained(file) /\ Informed /\ returned \subseteq Ended(file)
        /\ file \in Seq(Line) /\ proc \in [Procs -> Proc]
    BY DEF JournalInv, JournalTypeOK
  <1>idle. IdleProc \in Proc /\ IdleProc.step = "idle" /\ IdleProc.torn = FALSE
           /\ IdleProc.entries = <<>>
    BY DEF IdleProc, Proc, JournalSteps, Tasks
  <1>left. ASSUME NEW p \in Procs, Leave(p), file' = file, built' = built,
                  returned' \subseteq Ended(file), returned' \subseteq Record
           PROVE  JournalInv'
    <2>1. /\ lock' \in Procs \cup {Nobody} /\ proc' \in [Procs -> Proc] /\ LockHeld'
          /\ \A q \in Procs : proc'[q].step = "idle" \/ (q # p /\ proc'[q] = proc[q])
      BY <1>0, <1>left, LeaveKeeps
    <2> QED
      BY <1>0, <1>left, <2>1 DEF JournalInv, JournalTypeOK, Informed
  <1>1. CASE UNCHANGED journalVars
    BY <1>0, <1>1 DEF journalVars, JournalInv, JournalTypeOK, LockHeld, Informed
  <1>2. ASSUME NEW p \in Procs, NEW task \in Tasks, Acquire(p, task) PROVE JournalInv'
    <2>1. [step |-> "locked", task |-> task, entries |-> <<>>, torn |-> FALSE] \in Proc
      BY DEF Proc, JournalSteps
    <2>2. /\ proc'[p].step = "locked" /\ lock' = p /\ proc' \in [Procs -> Proc]
          /\ \A q \in Procs \ {p} : proc'[q] = proc[q]
      BY <1>0, <1>2, <2>1 DEF Acquire
    <2>3. LockHeld'
      BY <1>0, <1>2, <2>2, JournalAssumption DEF Acquire, LockFree, LockHeld
    <2> QED
      BY <1>0, <1>2, <2>2, <2>3 DEF Acquire, JournalInv, JournalTypeOK, Informed
  <1>3. ASSUME NEW p \in Procs, Load(p) PROVE JournalInv'
    <2>1. CASE Malformed(file)
      BY <1>0, <1>3, <1>left, <2>1 DEF Load, JournalTypeOK
    <2>2. CASE ~Malformed(file)
      <3>1. Entries(file) \in Seq(Record) /\ Torn(file) \in BOOLEAN
        BY <1>0, <2>2, EntriesFacts DEF Torn
      <3>2. /\ proc' = [proc EXCEPT ![p] = [proc[p] EXCEPT !.step = "loaded",
                                               !.entries = Entries(file), !.torn = Torn(file)]]
            /\ UNCHANGED <<file, lock, built, returned>>
        BY <1>0, <1>3, <2>2 DEF Load
      <3>3. /\ proc'[p].step = "loaded" /\ proc'[p].entries = Entries(file)
            /\ proc'[p].torn = Torn(file) /\ proc' \in [Procs -> Proc]
            /\ \A q \in Procs \ {p} : proc'[q] = proc[q]
        BY <1>0, <3>1, <3>2 DEF Proc, JournalSteps
      <3> QED
        BY <1>0, <1>3, <2>2, <3>2, <3>3
           DEF Load, JournalInv, JournalTypeOK, LockHeld, Informed
    <2> QED
      BY <2>1, <2>2
  <1>4. ASSUME NEW p \in Procs, Rewrite(p) PROVE JournalInv'
    <2>1. /\ proc[p].step = "loaded" /\ ~Malformed(file) /\ proc[p].entries = Entries(file)
          /\ file' = Lines(Entries(file)) /\ UNCHANGED <<lock, built, returned>>
      BY <1>0, <1>4 DEF Rewrite, Informed
    <2>2. /\ file' \in Seq(Line) /\ Chained(file)' /\ Ended(file) \subseteq Ended(file')
          /\ ~Malformed(file') /\ ~Torn(file') /\ Entries(file') = Entries(file)
      BY <1>0, <2>1, ChainedRewritten
    <2>3. /\ proc'[p].step = "loaded" /\ proc'[p].entries = proc[p].entries
          /\ proc'[p].torn = FALSE /\ proc' \in [Procs -> Proc]
          /\ \A q \in Procs \ {p} : proc'[q] = proc[q]
      BY <1>0, <1>4 DEF Rewrite, Proc
    <2>4. \A q \in Procs \ {p} : proc[q].step = "idle"
      BY <1>0, <2>1, OthersIdle
    <2>5. Informed'
      <3>1. \A q \in Procs : q = p \/ proc'[q].step = "idle"
        BY <2>3, <2>4
      <3>2. /\ ~Malformed(file)' /\ Entries(file)' = Entries(file) /\ Torn(file)' = FALSE
        BY <2>2 DEF Torn
      <3> QED
        BY <2>1, <2>3, <3>1, <3>2 DEF Informed
    <2> QED
      BY <1>0, <2>1, <2>2, <2>3, <2>5 DEF JournalInv, JournalTypeOK, LockHeld
  <1>5. ASSUME NEW p \in Procs, EndRepair(p) \/ Die(p) PROVE JournalInv'
    BY <1>0, <1>5, <1>left DEF EndRepair, Die, JournalTypeOK
  <1>6. ASSUME NEW p \in Procs, Write(p) PROVE JournalInv'
    <2> DEFINE r == NextRecord(p)
    <2>1. Writing(p) /\ file' = Written(file, r, TRUE) /\ UNCHANGED <<lock, returned>>
      BY <1>6 DEF Write
    <2>2. /\ ~Malformed(file) /\ ~Torn(file) /\ proc[p].step = "loaded" /\ r \in Record
          /\ r.sequence = Len(file) + 1 /\ r.previous = DigestAt(file, Len(file))
          /\ built' \in 0 .. MaxRecords
      BY <1>0, <2>1, NextRecordFacts
    <2> HIDE DEF r
    <2>3. /\ Chained(file)' /\ Ended(file) \subseteq Ended(file') /\ r \in Ended(file')
          /\ file' \in Seq(Line)
      BY <1>0, <2>1, <2>2, ChainedWritten, WrittenType
    <2>4. /\ proc'[p].step = "written" /\ proc'[p].entries = Append(proc[p].entries, r)
          /\ proc' \in [Procs -> Proc]
          /\ \A q \in Procs \ {p} : proc'[q] = proc[q]
      BY <1>0, <1>6, <2>2 DEF Write, Proc, JournalSteps, r
    <2>5. Last(proc'[p].entries) = r /\ proc'[p].entries # <<>>
      <3>1. proc[p].entries \in Seq(Record)
        BY <1>0 DEF Proc
      <3>2. /\ Len(Append(proc[p].entries, r)) = Len(proc[p].entries) + 1
            /\ Append(proc[p].entries, r)[Len(proc[p].entries) + 1] = r
            /\ Append(proc[p].entries, r) \in Seq(Record) /\ Len(proc[p].entries) \in Nat
        BY <2>2, <3>1, AppendProperties
      <3>3. Append(proc[p].entries, r) # <<>>
        BY <3>2, EmptySeq
      <3> QED
        BY <2>4, <3>2, <3>3 DEF Last
    <2>6. \A q \in Procs \ {p} : proc[q].step = "idle"
      BY <1>0, <2>2, OthersIdle
    <2>7. Informed'
      BY <2>3, <2>4, <2>5, <2>6 DEF Informed
    <2>8. LockHeld'
      BY <1>0, <2>1, <2>2, <2>4 DEF LockHeld
    <2> QED
      BY <1>0, <2>1, <2>2, <2>3, <2>4, <2>7, <2>8 DEF JournalInv, JournalTypeOK
  <1>7. ASSUME NEW p \in Procs, ReturnAppend(p) PROVE JournalInv'
    <2>1. Last(proc[p].entries) \in Ended(file) /\ Last(proc[p].entries) \in Record
      <3>1. proc[p].entries \in Seq(Record) /\ proc[p].entries # <<>>
            /\ Last(proc[p].entries) \in Ended(file)
        BY <1>0, <1>7 DEF ReturnAppend, Informed, Proc
      <3>2. Len(proc[p].entries) \in 1 .. Len(proc[p].entries)
        BY <3>1, EmptySeq
      <3> QED
        BY <3>1, <3>2, ElementOfSeq DEF Last
    <2> QED
      BY <1>0, <1>7, <1>left, <2>1 DEF ReturnAppend, JournalTypeOK
  <1>8. ASSUME NEW p \in Procs, DieWriting(p) PROVE JournalInv'
    <2> DEFINE r == NextRecord(p)
    <2>1. /\ ~Malformed(file) /\ ~Torn(file) /\ proc[p].step = "loaded" /\ r \in Record
          /\ r.sequence = Len(file) + 1 /\ r.previous = DigestAt(file, Len(file))
          /\ built' \in 0 .. MaxRecords
      BY <1>0, <1>8, NextRecordFacts DEF DieWriting
    <2>2. file' = file \/ file' = Written(file, Cut, FALSE) \/ file' = Written(file, r, FALSE)
      BY <1>8 DEF DieWriting
    <2> HIDE DEF r
    <2>3. Chained(file)' /\ Ended(file) \subseteq Ended(file') /\ file' \in Seq(Line)
      BY <1>0, <2>1, <2>2, ChainedWritten, WrittenType
    <2>4. /\ lock' \in Procs \cup {Nobody} /\ proc' \in [Procs -> Proc] /\ LockHeld'
          /\ \A q \in Procs : proc'[q].step = "idle" \/ (q # p /\ proc'[q] = proc[q])
      BY <1>0, <1>8, LeaveKeeps DEF DieWriting
    <2>5. \A q \in Procs : proc'[q].step = "idle"
      BY <1>0, <2>1, <2>4, OthersIdle
    <2> QED
      BY <1>0, <1>8, <2>1, <2>3, <2>4, <2>5
         DEF DieWriting, JournalInv, JournalTypeOK, Informed
  <1> QED
    BY <1>1, <1>2, <1>3, <1>4, <1>5, <1>6, <1>7, <1>8 DEF JournalNext

LEMMA JournalInvHolds == JournalSpec => []JournalInv
  BY InitJournalInv, NextJournalInv, PTL DEF JournalSpec

\* Every record, line and process of the journal has the shape its code gives it.
THEOREM JournalTypeCorrect == JournalSpec => []JournalTypeOK
  <1>1. JournalInv => JournalTypeOK
    BY DEF JournalInv
  <1> QED
    BY <1>1, JournalInvHolds, PTL

\* The place of an ended record, from the line it is in.
LEMMA EndedPlace ==
    ASSUME NEW f \in Seq(Line), Chained(f), NEW i \in 1 .. Len(f), f[i].ended
    PROVE  \/ Len(f[i].text) = 1 /\ Links(f, i)
           \/ /\ i = Len(f) /\ Len(f[i].text) = 2
              /\ f[i].text[2].sequence = i + 1
  <1>0. Len(f) \in Nat
    BY LineFacts
  <1>1. CASE i < Len(f)
    BY <1>0, <1>1 DEF Chained
  <1>2. CASE i = Len(f)
    <2>1. Len(f) > 0
      BY <1>0
    <2>2. \/ f[i].text = <<Cut>> /\ ~f[i].ended
          \/ Len(f[i].text) = 1 /\ Links(f, i)
          \/ Len(f[i].text) = 2 /\ (f[i].ended => f[i].text[2].sequence = i + 1)
      BY <1>2, <2>1 DEF Chained
    <2> QED
      BY <1>2, <2>2
  <1> QED
    BY <1>0, <1>1, <1>2

\* Nothing an append returned is lost or given a second place, and only a record
\* glued behind one without a newline makes the journal unreadable: for any
\* number of processes, however they die.
THEOREM JournalSoundHolds == JournalSpec => []JournalSound
  <1>1. ASSUME JournalInv PROVE JournalSound
    <2>0. /\ file \in Seq(Line) /\ Chained(file) /\ returned \subseteq Ended(file)
          /\ Len(file) \in Nat /\ DOMAIN file = 1 .. Len(file)
      BY <1>1, LineFacts DEF JournalInv, JournalTypeOK
    <2>1. ReturnedKept
      <3> SUFFICES ASSUME NEW r \in returned
                   PROVE  \E i \in DOMAIN file : r \in Range(file[i].text)
        BY DEF ReturnedKept
      <3>1. PICK i \in 1 .. Len(file) : file[i].ended /\ r = file[i].text[Len(file[i].text)]
        BY <2>0 DEF Ended
      <3>2. Len(file[i].text) \in DOMAIN file[i].text
        <4> DEFINE n == Len(file[i].text)
        <4>1. n = 1 \/ n = 2
          BY <2>0, <3>1, EndedPlace
        <4>2. DOMAIN file[i].text = 1 .. n
          <5>1. file[i].text \in Seq(Record \cup {Cut})
            BY <2>0, LineFacts
          <5> QED
            BY <5>1, LenProperties
        <4>3. n \in 1 .. n
          <5> HIDE DEF n
          <5> QED
            BY <4>1
        <4> QED
          BY <4>2, <4>3, Zenon
      <3> QED
        BY <2>0, <3>1, <3>2 DEF Range
    <2>2. OneChain
      <3> SUFFICES ASSUME NEW r \in returned, NEW s \in returned
                   PROVE  /\ r.sequence = s.sequence => r = s
                          /\ r.sequence = s.sequence + 1 => r.previous = s.digest
        BY DEF OneChain
      <3>1. PICK i \in 1 .. Len(file) : file[i].ended /\ r = file[i].text[Len(file[i].text)]
        BY <2>0 DEF Ended
      <3>2. PICK j \in 1 .. Len(file) : file[j].ended /\ s = file[j].text[Len(file[j].text)]
        BY <2>0 DEF Ended
      <3>3. /\ \/ /\ Len(file[i].text) = 1 /\ r = file[i].text[1] /\ r.sequence = i
                  /\ r.previous = DigestAt(file, i - 1)
               \/ Len(file[i].text) = 2 /\ i = Len(file) /\ r.sequence = i + 1
            /\ \/ Len(file[j].text) = 1 /\ s = file[j].text[1] /\ s.sequence = j
               \/ Len(file[j].text) = 2 /\ j = Len(file) /\ s.sequence = j + 1
        BY <2>0, <3>1, <3>2, EndedPlace DEF Links
      <3>0. /\ r.sequence \in Nat /\ s.sequence \in Nat /\ Len(file) \in Nat
            /\ i \in Nat /\ i <= Len(file) /\ j \in Nat /\ j <= Len(file) /\ j # 0
        <4>1. r \in Record /\ s \in Record
          BY <1>1 DEF JournalInv, JournalTypeOK
        <4> QED
          BY <2>0, <3>1, <3>2, <4>1 DEF Record
      <3> DEFINE a == r.sequence
                 b == s.sequence
                 n == Len(file)
                 k == Len(file[i].text)
                 m == Len(file[j].text)
      <3>4. /\ (k = 1 /\ a = i) \/ (k = 2 /\ i = n /\ a = i + 1)
            /\ (m = 1 /\ b = j) \/ (m = 2 /\ j = n /\ b = j + 1)
            /\ i = j => k = m
        BY <3>3
      <3> HIDE DEF a, b, n, k, m
      <3>5. a = b => i = j
        BY <3>0, <3>4 DEF a, b, n
      <3>6. a = b + 1 => k # 2 /\ m # 2 /\ i - 1 = j
        BY <3>0, <3>4 DEF a, b, n
      <3>7. a = b => r = s
        BY <3>1, <3>2, <3>5
      <3>8. a = b + 1 => r.previous = s.digest
        <4>1. ASSUME a = b + 1 PROVE r.previous = s.digest
          <5>1. r.previous = DigestAt(file, j) /\ s = file[j].text[1]
            <6>1. Len(file[i].text) # 2 /\ Len(file[j].text) # 2 /\ i - 1 = j
              BY <3>6, <4>1 DEF k, m
            <6> QED
              BY <3>3, <6>1, Zenon
          <5> QED
            BY <3>0, <5>1 DEF DigestAt
        <4> QED
          BY <4>1
      <3> QED
        BY <3>7, <3>8 DEF a, b
    <2>3. OnlyGluedRecordsHarm
      <3> SUFFICES ASSUME ~Glued(file), NEW i \in DOMAIN Body(file)
                   PROVE  Parses(file[i]) /\ file[i].text[1].previous = DigestAt(file, i - 1)
        BY DEF OnlyGluedRecordsHarm, Malformed
      <3>1. i \in 1 .. Len(file) /\ (Torn(file) => i < Len(file))
        <4>1. CASE Torn(file)
          <5>1. Len(file) > 0 /\ Body(file) = Front(file)
            BY <2>0, <4>1, LineFacts DEF Torn, Body
          <5>2. Front(file) \in Seq(Line) /\ Len(Front(file)) = Len(file) - 1
            BY <2>0, <5>1, FrontFacts
          <5>3. DOMAIN Front(file) = 1 .. Len(file) - 1
            BY <5>2, LineFacts
          <5> QED
            BY <2>0, <5>1, <5>3
        <4>2. CASE ~Torn(file)
          BY <2>0, <4>2 DEF Body
        <4> QED
          BY <4>1, <4>2
      <3>2. Len(file[i].text) = 1 /\ Links(file, i)
        <4>1. CASE i < Len(file)
          BY <2>0, <3>1, <4>1 DEF Chained
        <4>2. CASE i = Len(file)
          <5>1. /\ Len(file) > 0 /\ file # <<>> /\ Last(file) = file[i] /\ ~Torn(file)
            BY <2>0, <3>1, <4>2, LineFacts DEF Last
          <5>2. file[i].text # <<Cut>> \/ file[i].ended
            BY <5>1 DEF Torn, Parses
          <5>3. \/ Len(file[i].text) = 1 /\ Links(file, i)
                \/ Len(file[i].text) = 2 /\ Links(file, i)
            BY <2>0, <4>2, <5>1, <5>2 DEF Chained
          <5>4. Len(file[i].text) # 2
            <6>1. ASSUME Len(file[i].text) = 2 PROVE FALSE
              <7>1. file[i].text[1] # Cut
                BY <5>3, CutIsNoRecord DEF Links
              <7>2. Len(file[i].text) > 1 /\ i \in DOMAIN file
                BY <2>0, <3>1, <6>1
              <7> QED
                BY <7>1, <7>2 DEF Glued
            <6> QED
              BY <6>1
          <5> QED
            BY <5>3, <5>4
        <4> QED
          BY <2>0, <3>1, <4>1, <4>2
      <3> QED
        BY <3>2, CutIsNoRecord DEF Links, Parses
    <2> QED
      BY <2>1, <2>2, <2>3 DEF JournalSound
  <1> QED
    BY <1>1, JournalInvHolds, PTL


-----------------------------------------------------------------------------
(* The runs.  A run that has read the files follows every one of its jobs to *)
(* a report, or to the reason why there is none.                            *)

RunPhases == {"scan", "wait", "collect", "settle"}
Reportless == {"new", "pending", "submitted", "skipped"}

\* Where a run is, and where its jobs then are.
PhasesFit(r) ==
    /\ run[r].phase \in {"idle", "dead"} => \A s \in Sources : job[r][s] = "new"
    /\ run[r].phase \in {"wait", "collect", "settle", "done"} =>
          \A s \in Sources : job[r][s] # "new"
    /\ InPhase(r, "wait") => JobsIn(r, {"pending"}) = {} \/ Outstanding(r) # {}
    /\ InPhase(r, "done") => JobsIn(r, {"pending"} \cup Futures) = {}
    /\ run[r].batch \subseteq JobsIn(r, {"answered"})

\* A job has a report exactly from the moment somebody made it one.
ReportsFit(r) ==
    \A s \in Sources : job[r][s] \in Reportless <=> report[r][s] = NoReport

\* Jobs are given up only for a report of the run itself that is no PASS.
SkipsHaveReasons(r) ==
    /\ JobsIn(r, {"skipped"}) # {} => run[r].stop
    /\ run[r].stop => /\ run[r].mode.failFast
                      /\ \E s \in JobsIn(r, {"executed"}) : report[r][s].status # "PASS"

\* As long as nobody edits a source under a job, its worker runs what its key
\* was computed from.
KeysFit(r) ==
    \A s \in Sources :
        /\ run[r].phase \in RunPhases /\ job[r][s] \in {"new", "pending", "submitted"} =>
              content[s] = key[r][s] \/ key[r][s] \in overtaken
        /\ job[r][s] \in {"working", "answered"} =>
              report[r][s].ran = key[r][s] \/ key[r][s] \in overtaken

RunFits(r) == PhasesFit(r) /\ ReportsFit(r) /\ SkipsHaveReasons(r) /\ KeysFit(r)

RunInv ==
    /\ RunTypeOK
    /\ \A r \in Runs : RunFits(r)
    /\ ReportsReachTheCheckpoint
    /\ OnlyOvertakenKeysLie

LEMMA NoReportFacts ==
    /\ NoReport \notin Reports
    /\ \A v \in Reports : v.ran \in Contents /\ v.status \in {"PASS", "FAIL", "FAIL_WORKER"}
  BY DEF NoReport, Reports

LEMMA MergedFacts ==
    ASSUME NEW memory \in Records, NEW disk \in Records, NEW k \in Contents,
           NEW v \in Reports
    PROVE  /\ Merged(memory, disk, k, v) \in Records
           /\ Merged(memory, disk, k, v)[k] = v
           /\ \A c \in Contents \ {k} : disk[c] # NoReport => Merged(memory, disk, k, v)[c] = disk[c]
           /\ \A c \in Contents : disk[c] # NoReport => Merged(memory, disk, k, v)[c] # NoReport
  BY NoReportFacts DEF Merged, Records

-----------------------------------------------------------------------------
(* Type correctness.                                                       *)

LEMMA InitRunTypeOK == RunInit => RunTypeOK
  <1> SUFFICES ASSUME RunInit PROVE RunTypeOK
    OBVIOUS
  <1>1. [c \in Contents |-> NoReport] \in Records
    BY DEF Records
  <1>2. run \in [Runs -> RunStates]
    <2>1. \A m \in Modes : [phase |-> "idle", mode |-> m, memory |-> checkpoint,
                            stop |-> FALSE, batch |-> {}] \in RunStates
      BY <1>1 DEF RunInit, RunStates
    <2> QED
      BY <2>1 DEF RunInit
  <1> QED
    BY <1>1, <1>2, ScheduledRunAssumption DEF RunInit, RunTypeOK, JobStates

LEMMA RunStatesFacts ==
    ASSUME NEW x \in RunStates
    PROVE  /\ x.memory \in Records /\ x.batch \subseteq Sources
           /\ x.stop \in BOOLEAN /\ x.mode \in Modes
           /\ x.phase \in {"idle", "scan", "wait", "collect", "settle", "done", "dead"}
  BY DEF RunStates

LEMMA MovedRun ==
    ASSUME run \in [Runs -> RunStates], NEW r \in Runs, NEW x \in RunStates,
           run' = [run EXCEPT ![r] = x]
    PROVE  /\ run' \in [Runs -> RunStates] /\ run'[r] = x
           /\ \A q \in Runs \ {r} : run'[q] = run[q]
  OBVIOUS

\* The locals of a run after each step of it.
LEMMA StartRunEffect ==
    ASSUME run \in [Runs -> RunStates], NEW r \in Runs, checkpoint \in Records,
           StartRun(r)
    PROVE  /\ run' \in [Runs -> RunStates] /\ \A q \in Runs \ {r} : run'[q] = run[q]
           /\ run'[r].phase = "scan" /\ run'[r].mode = run[r].mode /\ run'[r].stop = run[r].stop
           /\ run'[r].batch = run[r].batch
  <1> DEFINE x == [run[r] EXCEPT !.phase = "scan", !.memory = checkpoint]
  <1>1. run[r] \in RunStates
    OBVIOUS
  <1>2. x \in RunStates
    BY <1>1 DEF RunStates
  <1>3. run' = [run EXCEPT ![r] = x]
    BY DEF StartRun
  <1>4. x.phase = "scan" /\ x.mode = run[r].mode /\ x.stop = run[r].stop
        /\ x.batch = run[r].batch
    BY <1>1 DEF RunStates
  <1> HIDE DEF x
  <1> QED
    BY <1>2, <1>3, <1>4, MovedRun

LEMMA WaitEffect ==
    ASSUME run \in [Runs -> RunStates], NEW r \in Runs,
           FirstBatch(r) \/ Refill(r) \/ GiveUp(r)
    PROVE  /\ run' \in [Runs -> RunStates] /\ \A q \in Runs \ {r} : run'[q] = run[q]
           /\ run'[r].phase = "wait" /\ run'[r].mode = run[r].mode /\ run'[r].stop = run[r].stop
           /\ run'[r].batch = run[r].batch /\ run'[r].memory = run[r].memory
  <1> DEFINE x == [run[r] EXCEPT !.phase = "wait"]
  <1>1. run[r] \in RunStates
    OBVIOUS
  <1>2. x \in RunStates
    BY <1>1 DEF RunStates
  <1>3. run' = [run EXCEPT ![r] = x]
    BY DEF FirstBatch, Refill, GiveUp
  <1>4. x.phase = "wait" /\ x.mode = run[r].mode /\ x.stop = run[r].stop
        /\ x.batch = run[r].batch /\ x.memory = run[r].memory
    BY <1>1 DEF RunStates
  <1> HIDE DEF x
  <1> QED
    BY <1>2, <1>3, <1>4, MovedRun

LEMMA WaitForAnyEffect ==
    ASSUME run \in [Runs -> RunStates], NEW r \in Runs,
           WaitForAny(r)
    PROVE  /\ run' \in [Runs -> RunStates] /\ \A q \in Runs \ {r} : run'[q] = run[q]
           /\ run'[r].phase = "collect" /\ run'[r].mode = run[r].mode /\ run'[r].stop = run[r].stop
           /\ run'[r].batch = JobsIn(r, {"answered"})
  <1> DEFINE x == [run[r] EXCEPT !.phase = "collect",
                                  !.batch = JobsIn(r, {"answered"})]
  <1>1. run[r] \in RunStates
    OBVIOUS
  <1>0. JobsIn(r, {"answered"}) \subseteq Sources
    BY DEF JobsIn
  <1>2. x \in RunStates
    BY <1>1, <1>0 DEF RunStates
  <1>3. run' = [run EXCEPT ![r] = x]
    BY DEF WaitForAny
  <1>4. x.phase = "collect" /\ x.mode = run[r].mode /\ x.stop = run[r].stop
        /\ x.batch = JobsIn(r, {"answered"})
    BY <1>1 DEF RunStates
  <1> HIDE DEF x
  <1> QED
    BY <1>2, <1>3, <1>4, MovedRun

LEMMA FinishRunEffect ==
    ASSUME run \in [Runs -> RunStates], NEW r \in Runs,
           FinishRun(r)
    PROVE  /\ run' \in [Runs -> RunStates] /\ \A q \in Runs \ {r} : run'[q] = run[q]
           /\ run'[r].phase = "done" /\ run'[r].mode = run[r].mode /\ run'[r].stop = run[r].stop
           /\ run'[r].batch = run[r].batch
  <1> DEFINE x == [run[r] EXCEPT !.phase = "done"]
  <1>1. run[r] \in RunStates
    OBVIOUS
  <1>2. x \in RunStates
    BY <1>1 DEF RunStates
  <1>3. run' = [run EXCEPT ![r] = x]
    BY DEF FinishRun
  <1>4. x.phase = "done" /\ x.mode = run[r].mode /\ x.stop = run[r].stop
        /\ x.batch = run[r].batch
    BY <1>1 DEF RunStates
  <1> HIDE DEF x
  <1> QED
    BY <1>2, <1>3, <1>4, MovedRun

LEMMA RunDiesEffect ==
    ASSUME run \in [Runs -> RunStates], NEW r \in Runs,
           RunDies(r)
    PROVE  /\ run' \in [Runs -> RunStates] /\ \A q \in Runs \ {r} : run'[q] = run[q]
           /\ run'[r].phase = "dead" /\ run'[r].mode = run[r].mode /\ run'[r].stop = FALSE
           /\ run'[r].batch = {}
  <1> DEFINE x == [run[r] EXCEPT !.phase = "dead", !.batch = {}, !.stop = FALSE,
                                  !.memory = [c \in Contents |-> NoReport]]
  <1>1. run[r] \in RunStates
    OBVIOUS
  <1>0. [c \in Contents |-> NoReport] \in Records
    BY DEF Records
  <1>2. x \in RunStates
    BY <1>1, <1>0 DEF RunStates
  <1>3. run' = [run EXCEPT ![r] = x]
    BY DEF RunDies
  <1>4. x.phase = "dead" /\ x.mode = run[r].mode /\ x.stop = FALSE
        /\ x.batch = {}
    BY <1>1 DEF RunStates
  <1> HIDE DEF x
  <1> QED
    BY <1>2, <1>3, <1>4, MovedRun

LEMMA HitJobEffect ==
    ASSUME run \in [Runs -> RunStates], NEW r \in Runs, NEW s \in Sources, checkpoint' \in Records,
           HitJob(r, s)
    PROVE  /\ run' \in [Runs -> RunStates] /\ \A q \in Runs \ {r} : run'[q] = run[q]
           /\ run'[r].phase = run[r].phase /\ run'[r].mode = run[r].mode /\ run'[r].stop = run[r].stop
           /\ run'[r].batch = run[r].batch
  <1> DEFINE x == [run[r] EXCEPT !.memory = checkpoint']
  <1>1. run[r] \in RunStates
    OBVIOUS
  <1>2. x \in RunStates
    BY <1>1 DEF RunStates
  <1>3. run' = [run EXCEPT ![r] = x]
    BY DEF HitJob
  <1>4. x.phase = run[r].phase /\ x.mode = run[r].mode /\ x.stop = run[r].stop
        /\ x.batch = run[r].batch
    BY <1>1 DEF RunStates
  <1> HIDE DEF x
  <1> QED
    BY <1>2, <1>3, <1>4, MovedRun

LEMMA CollectEffect ==
    ASSUME run \in [Runs -> RunStates], NEW r \in Runs, NEW s \in Sources, checkpoint' \in Records,
           Collect(r, s)
    PROVE  /\ run' \in [Runs -> RunStates] /\ \A q \in Runs \ {r} : run'[q] = run[q]
           /\ run'[r].phase = (IF run[r].batch = {s} THEN "settle" ELSE run[r].phase)
           /\ run'[r].mode = run[r].mode /\ run'[r].batch = run[r].batch \ {s}
           /\ run'[r].stop = (run[r].stop \/ (run[r].mode.failFast /\ report[r][s].status # "PASS"))
  <1> DEFINE x == [run[r] EXCEPT
                    !.memory = checkpoint',
                    !.batch = run[r].batch \ {s},
                    !.stop = run[r].stop \/ (run[r].mode.failFast
                                               /\ report[r][s].status # "PASS"),
                    !.phase = IF run[r].batch = {s} THEN "settle" ELSE run[r].phase]
  <1>1. run[r] \in RunStates
    OBVIOUS
  <1>0. /\ run[r].batch \ {s} \subseteq Sources
        /\ (run[r].stop \/ (run[r].mode.failFast /\ report[r][s].status # "PASS")) \in BOOLEAN
        /\ (IF run[r].batch = {s} THEN "settle" ELSE run[r].phase) \in
              {"idle", "scan", "wait", "collect", "settle", "done", "dead"}
    BY <1>1, RunStatesFacts
  <1>2. x \in RunStates
    BY <1>1, <1>0 DEF RunStates
  <1>3. run' = [run EXCEPT ![r] = x]
    BY DEF Collect
  <1>4. x.phase = (IF run[r].batch = {s} THEN "settle" ELSE run[r].phase)
        /\ x.mode = run[r].mode /\ x.batch = run[r].batch \ {s}
        /\ x.stop = (run[r].stop \/ (run[r].mode.failFast /\ report[r][s].status # "PASS"))
    BY <1>1 DEF RunStates
  <1> HIDE DEF x
  <1> QED
    BY <1>2, <1>3, <1>4, MovedRun

LEMMA NextRunTypeOK ==
    ASSUME RunTypeOK, \A r \in Runs : RunFits(r), [RunNext]_runVars
    PROVE  RunTypeOK'
  <1>0. /\ content \in [Sources -> Contents] /\ cache \in Records /\ checkpoint \in Records
        /\ run \in [Runs -> RunStates] /\ key \in [Runs -> [Sources -> Contents]]
        /\ job \in [Runs -> [Sources -> JobStates]]
        /\ report \in [Runs -> [Sources -> Reports \cup {NoReport}]]
        /\ overtaken \subseteq Contents /\ edits \in 0 .. MaxEdits
    BY DEF RunTypeOK
  <1>1. CASE UNCHANGED runVars
    BY <1>1 DEF runVars, RunTypeOK
  <1>2. ASSUME NEW r \in Runs, StartRun(r) PROVE RunTypeOK'
    <2>1. run' \in [Runs -> RunStates]
      BY <1>0, <1>2, StartRunEffect
    <2> QED
      BY <1>0, <1>2, <2>1 DEF StartRun, RunTypeOK
  <1>3. ASSUME NEW r \in Runs, FirstBatch(r) \/ Refill(r) PROVE RunTypeOK'
    <2>1. run' \in [Runs -> RunStates]
      BY <1>0, <1>3, WaitEffect
    <2>2. job' \in [Runs -> [Sources -> JobStates]]
      BY <1>0, <1>3 DEF FirstBatch, Refill, Submit, JobStates, Futures
    <2> QED
      BY <1>0, <1>3, <2>1, <2>2 DEF FirstBatch, Refill, RunTypeOK
  <1>4. ASSUME NEW r \in Runs, WaitForAny(r) \/ FinishRun(r) PROVE RunTypeOK'
    <2>1. run' \in [Runs -> RunStates]
      BY <1>0, <1>4, WaitForAnyEffect, FinishRunEffect
    <2> QED
      BY <1>0, <1>4, <2>1 DEF WaitForAny, FinishRun, RunTypeOK
  <1>5. ASSUME NEW r \in Runs, GiveUp(r) PROVE RunTypeOK'
    <2>1. run' \in [Runs -> RunStates]
      BY <1>0, <1>5, WaitEffect
    <2>2. job' \in [Runs -> [Sources -> JobStates]]
      BY <1>0, <1>5 DEF GiveUp, JobStates
    <2> QED
      BY <1>0, <1>5, <2>1, <2>2 DEF GiveUp, RunTypeOK
  <1>6. ASSUME NEW r \in Runs, RunDies(r) PROVE RunTypeOK'
    <2>3. run' \in [Runs -> RunStates]
      BY <1>0, <1>6, RunDiesEffect
    <2>4. /\ job' \in [Runs -> [Sources -> JobStates]]
          /\ report' \in [Runs -> [Sources -> Reports \cup {NoReport}]]
      BY <1>0, <1>6 DEF RunDies, JobStates
    <2> QED
      BY <1>0, <1>6, <2>3, <2>4 DEF RunDies, RunTypeOK
  <1>7. ASSUME NEW r \in Runs, NEW s \in Sources, ResumeJob(r, s) PROVE RunTypeOK'
    <2>1. run[r].memory[key[r][s]] \in Reports \cup {NoReport}
      BY <1>0 DEF RunStates, Records
    <2> QED
      BY <1>0, <1>7, <2>1 DEF ResumeJob, RunTypeOK, JobStates
  <1>8. ASSUME NEW r \in Runs, NEW s \in Sources, HitJob(r, s) PROVE RunTypeOK'
    <2>1. /\ cache[key[r][s]] \in Reports /\ key[r][s] \in Contents
          /\ run[r].memory \in Records
      BY <1>0, <1>8 DEF HitJob, Cached, RunStates, Records
    <2>2. checkpoint' \in Records
      BY <1>0, <1>8, <2>1, MergedFacts DEF HitJob, SaveReport
    <2>3. run' \in [Runs -> RunStates]
      BY <1>0, <1>8, <2>2, HitJobEffect
    <2> QED
      BY <1>0, <1>8, <2>1, <2>2, <2>3 DEF HitJob, RunTypeOK, JobStates
  <1>9. ASSUME NEW r \in Runs, NEW s \in Sources, QueueJob(r, s) PROVE RunTypeOK'
    BY <1>0, <1>9 DEF QueueJob, RunTypeOK, JobStates
  <1>10. ASSUME NEW r \in Runs, NEW s \in Sources, WorkerStart(r, s) PROVE RunTypeOK'
    <2>1. [of |-> s, ran |-> content[s],
           status |-> IF content[s] \in Passing THEN "PASS" ELSE "FAIL"] \in Reports
      BY <1>0 DEF Reports
    <2> QED
      BY <1>0, <1>10, <2>1 DEF WorkerStart, RunTypeOK, JobStates, Futures
  <1>11. ASSUME NEW r \in Runs, NEW s \in Sources, WorkerAnswer(r, s) PROVE RunTypeOK'
    <2>1. report[r][s] \in Reports
      <3>1. job[r][s] \notin Reportless
        BY <1>11 DEF WorkerAnswer, Reportless
      <3>2. report[r][s] # NoReport
        BY <3>1 DEF RunFits, ReportsFit
      <3> QED
        BY <1>0, <3>2
    <2>2. [report[r][s] EXCEPT !.status = "FAIL_WORKER"] \in Reports
      BY <2>1 DEF Reports
    <2>3. report' \in [Runs -> [Sources -> Reports \cup {NoReport}]]
      <3> DEFINE v == [report[r][s] EXCEPT !.status = "FAIL_WORKER"]
                 row == [report[r] EXCEPT ![s] = v]
      <3>1. row \in [Sources -> Reports \cup {NoReport}]
        BY <1>0, <2>2
      <3>2. report' = report \/ report' = [report EXCEPT ![r] = row]
        BY <1>11 DEF WorkerAnswer
      <3> HIDE DEF row
      <3> QED
        BY <1>0, <3>1, <3>2
    <2> QED
      BY <1>0, <1>11, <2>3 DEF WorkerAnswer, RunTypeOK, JobStates, Futures
  <1>12. ASSUME NEW r \in Runs, NEW s \in Sources, Collect(r, s) PROVE RunTypeOK'
    <2>1. /\ report[r][s] \in Reports /\ key[r][s] \in Contents
          /\ run[r].memory \in Records
      <3>1. job[r][s] = "answered"
        BY <1>12 DEF Collect, RunFits, PhasesFit, JobsIn
      <3>2. report[r][s] # NoReport
        BY <3>1 DEF RunFits, ReportsFit, Reportless
      <3> QED
        BY <1>0, <3>2, RunStatesFacts
    <2>2. checkpoint' \in Records
      BY <1>0, <1>12, <2>1, MergedFacts DEF Collect, SaveReport
    <2>3. run' \in [Runs -> RunStates]
      BY <1>0, <1>12, <2>2, CollectEffect
    <2>4. cache' \in Records
      BY <1>0, <1>12, <2>1 DEF Collect, CacheKey, Records
    <2> QED
      BY <1>0, <1>12, <2>2, <2>3, <2>4 DEF Collect, RunTypeOK, JobStates
  <1>13. ASSUME NEW s \in Sources, NEW c \in Contents, Edit(s, c) PROVE RunTypeOK'
    BY <1>0, <1>13, ScheduledRunAssumption DEF Edit, RunTypeOK
  <1> QED
    BY <1>1, <1>2, <1>3, <1>4, <1>5, <1>6, <1>7, <1>8, <1>9, <1>10, <1>11, <1>12, <1>13
       DEF RunNext, RunStep, JobStep

-----------------------------------------------------------------------------
(* What each step does to the jobs of its run.                             *)

\* The steps that leave a run, and the files it reads, alone.
LEMMA UntouchedFits ==
    ASSUME NEW q \in Runs, RunFits(q), run'[q] = run[q], key'[q] = key[q],
           job'[q] = job[q], report'[q] = report[q], content' = content,
           overtaken \subseteq overtaken'
    PROVE  RunFits(q)'
  BY DEF RunFits, PhasesFit, ReportsFit, SkipsHaveReasons, KeysFit, JobsIn, Outstanding, InPhase

LEMMA StartRunFits ==
    ASSUME RunTypeOK, NEW r \in Runs, RunFits(r), StartRun(r)
    PROVE  RunFits(r)'
  <1>1. /\ run'[r].phase = "scan" /\ run'[r].mode = run[r].mode /\ run'[r].stop = run[r].stop
        /\ run'[r].batch = run[r].batch
    BY StartRunEffect DEF RunTypeOK
  <1>2. /\ job' = job /\ report' = report /\ overtaken' = overtaken /\ content' = content
        /\ key'[r] = content /\ \A s \in Sources : job[r][s] = "new"
    BY DEF StartRun, RunTypeOK, RunFits, PhasesFit, InPhase
  <1>3. PhasesFit(r)'
    BY <1>1, <1>2 DEF RunFits, PhasesFit, JobsIn, InPhase
  <1>4. ReportsFit(r)'
    BY <1>2 DEF RunFits, ReportsFit
  <1>5. SkipsHaveReasons(r)'
    BY <1>1, <1>2 DEF RunFits, SkipsHaveReasons, JobsIn
  <1>6. KeysFit(r)'
    BY <1>1, <1>2 DEF KeysFit
  <1> QED
    BY <1>3, <1>4, <1>5, <1>6 DEF RunFits

LEMMA SubmitFacts ==
    ASSUME RunTypeOK, NEW r \in Runs, Submit(r)
    PROVE  /\ \A s \in Sources : \/ job'[r][s] = job[r][s]
                                 \/ job[r][s] = "pending" /\ job'[r][s] = "submitted"
           /\ \A q \in Runs \ {r} : job'[q] = job[q]
           /\ JobsIn(r, {"pending"})' = {} \/ Outstanding(r)' # {}
  <1>1. PICK chosen \in SUBSET Sources :
           /\ Filled(r, chosen)
           /\ job' = [job EXCEPT ![r] = [s \in Sources |->
                         IF s \in chosen THEN "submitted" ELSE job[r][s]]]
    BY DEF Submit
  <1>2. /\ \A s \in Sources : job'[r][s] = IF s \in chosen THEN "submitted" ELSE job[r][s]
        /\ \A q \in Runs \ {r} : job'[q] = job[q]
    BY <1>1 DEF RunTypeOK
  <1>3. \A s \in chosen : s \in Sources /\ job[r][s] = "pending"
    BY <1>1 DEF Filled, JobsIn
  <1>4. ASSUME JobsIn(r, {"pending"})' # {} PROVE Outstanding(r)' # {}
    <2> DEFINE waiting == JobsIn(r, {"pending"})
    <2>1. waiting # {} /\ IsFiniteSet(waiting) /\ Cardinality(waiting) \in Nat
      <3>1. waiting \subseteq Sources
        BY DEF JobsIn
      <3>2. waiting # {}
        BY <1>2, <1>4 DEF JobsIn
      <3> QED
        BY <3>1, <3>2, FS_Subset, FS_CardinalityType, ScheduledRunAssumption
    <2>2. Cardinality(waiting) # 0
      BY <2>1, FS_EmptySet
    <2>3. CASE Outstanding(r) = {}
      <3>1. Cardinality(Outstanding(r)) = 0
        BY <2>3, FS_EmptySet
      <3>2. Cardinality(chosen) # 0
        BY <1>1, <2>1, <2>2, <3>1, ScheduledRunAssumption DEF Filled
      <3>3. chosen # {}
        BY <3>2, FS_EmptySet
      <3> QED
        BY <1>2, <3>3 DEF Outstanding, JobsIn, Futures
    <2>4. CASE Outstanding(r) # {}
      <3>1. PICK s \in Sources : job[r][s] \in Futures
        BY <2>4 DEF Outstanding, JobsIn
      <3>2. job'[r][s] \in Futures
        BY <1>2, <3>1 DEF Futures
      <3> QED
        BY <3>2 DEF Outstanding, JobsIn
    <2> QED
      BY <2>3, <2>4
  <1> QED
    BY <1>2, <1>3, <1>4

LEMMA SubmittedFits ==
    ASSUME RunTypeOK, NEW r \in Runs, RunFits(r), FirstBatch(r) \/ Refill(r)
    PROVE  RunFits(r)'
  <1>1. /\ run'[r].phase = "wait" /\ run'[r].mode = run[r].mode /\ run'[r].stop = run[r].stop
        /\ run'[r].batch = run[r].batch
    BY WaitEffect DEF RunTypeOK
  <1>2. /\ \A s \in Sources : \/ job'[r][s] = job[r][s]
                              \/ job[r][s] = "pending" /\ job'[r][s] = "submitted"
        /\ JobsIn(r, {"pending"})' = {} \/ Outstanding(r)' # {}
    BY SubmitFacts DEF FirstBatch, Refill
  <1>3. /\ report' = report /\ overtaken' = overtaken /\ content' = content /\ key' = key
        /\ run[r].phase \in {"scan", "settle"} /\ \A s \in Sources : job[r][s] # "new"
    BY DEF FirstBatch, Refill, InPhase, RunFits, PhasesFit, JobsIn
  <1>4. PhasesFit(r)'
    BY <1>1, <1>2, <1>3 DEF RunFits, PhasesFit, JobsIn, InPhase
  <1>5. ReportsFit(r)'
    BY <1>2, <1>3 DEF RunFits, ReportsFit, Reportless
  <1>6. SkipsHaveReasons(r)'
    BY <1>1, <1>2, <1>3 DEF RunFits, SkipsHaveReasons, JobsIn
  <1>7. KeysFit(r)'
    BY <1>1, <1>2, <1>3 DEF RunFits, KeysFit, RunPhases
  <1> QED
    BY <1>4, <1>5, <1>6, <1>7 DEF RunFits

LEMMA GiveUpFits ==
    ASSUME RunTypeOK, NEW r \in Runs, RunFits(r), GiveUp(r)
    PROVE  RunFits(r)'
  <1>1. /\ run'[r].phase = "wait" /\ run'[r].mode = run[r].mode /\ run'[r].stop = run[r].stop
        /\ run'[r].batch = run[r].batch
    BY WaitEffect DEF RunTypeOK
  <1>2. \A s \in Sources : job'[r][s] = IF job[r][s] \in {"pending", "submitted"}
                                         THEN "skipped" ELSE job[r][s]
    BY DEF GiveUp, Cancellable, RunTypeOK
  <1>3. /\ report' = report /\ overtaken' = overtaken /\ content' = content /\ key' = key
        /\ run[r].phase = "settle" /\ run[r].stop /\ \A s \in Sources : job[r][s] # "new"
    BY DEF GiveUp, InPhase, RunFits, PhasesFit
  <1>4. PhasesFit(r)'
    BY <1>1, <1>2, <1>3 DEF RunFits, PhasesFit, JobsIn, InPhase
  <1>5. ReportsFit(r)'
    BY <1>2, <1>3 DEF RunFits, ReportsFit, Reportless
  <1>6. SkipsHaveReasons(r)'
    BY <1>1, <1>2, <1>3 DEF RunFits, SkipsHaveReasons, JobsIn
  <1>7. KeysFit(r)'
    BY <1>1, <1>2, <1>3 DEF RunFits, KeysFit, RunPhases
  <1> QED
    BY <1>4, <1>5, <1>6, <1>7 DEF RunFits

LEMMA WaitedFits ==
    ASSUME RunTypeOK, NEW r \in Runs, RunFits(r), WaitForAny(r) \/ FinishRun(r)
    PROVE  RunFits(r)'
  <1>0. /\ job' = job /\ report' = report /\ overtaken' = overtaken /\ content' = content
        /\ key' = key /\ run[r].phase = "wait"
    BY DEF WaitForAny, FinishRun, InPhase
  <1>1. /\ run'[r].mode = run[r].mode /\ run'[r].stop = run[r].stop
        /\ \/ run'[r].phase = "collect" /\ run'[r].batch = JobsIn(r, {"answered"})
           \/ run'[r].phase = "done" /\ run'[r].batch = run[r].batch /\ Outstanding(r) = {}
    BY WaitForAnyEffect, FinishRunEffect DEF RunTypeOK, FinishRun
  <1>2. PhasesFit(r)'
    <2>1. Outstanding(r) = {} => JobsIn(r, {"pending"} \cup Futures) = {}
      BY <1>0 DEF RunFits, PhasesFit, JobsIn, Outstanding, InPhase
    <2> QED
      BY <1>0, <1>1, <2>1 DEF RunFits, PhasesFit, JobsIn, InPhase
  <1>3. ReportsFit(r)'
    BY <1>0 DEF RunFits, ReportsFit
  <1>4. SkipsHaveReasons(r)'
    BY <1>0, <1>1 DEF RunFits, SkipsHaveReasons, JobsIn
  <1>5. KeysFit(r)'
    BY <1>0, <1>1 DEF RunFits, KeysFit, RunPhases
  <1> QED
    BY <1>2, <1>3, <1>4, <1>5 DEF RunFits

LEMMA DeadFits ==
    ASSUME RunTypeOK, NEW r \in Runs, RunFits(r), RunDies(r)
    PROVE  RunFits(r)'
  <1>1. run'[r].phase = "dead" /\ run'[r].stop = FALSE /\ run'[r].batch = {}
    BY RunDiesEffect DEF RunTypeOK
  <1>2. \A s \in Sources : job'[r][s] = "new" /\ report'[r][s] = NoReport
    BY DEF RunDies, RunTypeOK
  <1>3. PhasesFit(r)'
    BY <1>1, <1>2 DEF PhasesFit, InPhase
  <1>4. ReportsFit(r)' /\ KeysFit(r)'
    BY <1>1, <1>2 DEF ReportsFit, KeysFit, RunPhases, Reportless
  <1>5. SkipsHaveReasons(r)'
    BY <1>1, <1>2 DEF SkipsHaveReasons, JobsIn
  <1> QED
    BY <1>3, <1>4, <1>5 DEF RunFits

\* A job is answered from a store, or it waits for the pool.
LEMMA ScannedFits ==
    ASSUME RunTypeOK, RunTypeOK', NEW r \in Runs, NEW s \in Sources, RunFits(r),
           ResumeJob(r, s) \/ HitJob(r, s) \/ QueueJob(r, s)
    PROVE  RunFits(r)'
  <1>1. /\ run'[r].mode = run[r].mode /\ run'[r].stop = run[r].stop
        /\ run'[r].batch = run[r].batch /\ run'[r].phase = "scan"
        /\ run[r].phase = "scan" /\ job[r][s] = "new"
    BY HitJobEffect DEF RunTypeOK, ResumeJob, HitJob, QueueJob, Scanning, InPhase
  <1>2. /\ key' = key /\ content' = content /\ overtaken' = overtaken
        /\ \A t \in Sources \ {s} : job'[r][t] = job[r][t] /\ report'[r][t] = report[r][t]
    BY DEF RunTypeOK, ResumeJob, HitJob, QueueJob
  <1>3. /\ job'[r][s] \in {"resumed", "hit", "pending"}
        /\ job'[r][s] = "pending" <=> report'[r][s] = NoReport
    <2>1. CASE ResumeJob(r, s)
      BY <2>1 DEF RunTypeOK, ResumeJob, Remembered
    <2>2. CASE HitJob(r, s)
      BY <2>2 DEF RunTypeOK, HitJob, Cached
    <2>3. CASE QueueJob(r, s)
      BY <1>1, <2>3 DEF RunTypeOK, QueueJob, RunFits, ReportsFit, Reportless
    <2> QED
      BY <2>1, <2>2, <2>3
  <1>4. PhasesFit(r)'
    BY <1>1, <1>2, <1>3 DEF RunFits, PhasesFit, JobsIn, InPhase
  <1>5. ReportsFit(r)'
    BY <1>2, <1>3 DEF RunFits, ReportsFit, Reportless
  <1>6. SkipsHaveReasons(r)'
    BY <1>1, <1>2, <1>3 DEF RunFits, SkipsHaveReasons, JobsIn
  <1>7. KeysFit(r)'
    BY <1>1, <1>2, <1>3 DEF RunFits, KeysFit, RunPhases
  <1> QED
    BY <1>4, <1>5, <1>6, <1>7 DEF RunFits

\* A job whose worker may run is one of a run that is not over.
LEMMA WorkedFits ==
    ASSUME RunTypeOK, RunTypeOK', NEW r \in Runs, NEW s \in Sources, RunFits(r),
           WorkerStart(r, s) \/ WorkerAnswer(r, s)
    PROVE  RunFits(r)'
  <1>1. /\ run' = run /\ key' = key /\ content' = content /\ overtaken' = overtaken
        /\ job[r][s] \in {"submitted", "working"}
        /\ \A t \in Sources \ {s} : job'[r][t] = job[r][t] /\ report'[r][t] = report[r][t]
    BY DEF RunTypeOK, WorkerStart, WorkerAnswer
  <1>2. run[r].phase \in RunPhases
    <2>1. run[r].phase \notin {"idle", "dead", "done"}
      BY <1>1 DEF RunFits, PhasesFit, JobsIn, InPhase, Futures
    <2> QED
      BY <2>1, RunStatesFacts DEF RunTypeOK, RunPhases
  <1>3. /\ job'[r][s] \in {"working", "answered"} /\ report'[r][s] # NoReport
        /\ report'[r][s].ran = key[r][s] \/ key[r][s] \in overtaken
    <2>1. CASE WorkerStart(r, s)
      <3>1. /\ job'[r][s] = "working" /\ report'[r][s].ran = content[s]
            /\ report'[r][s].status \in {"PASS", "FAIL"}
        BY <2>1 DEF RunTypeOK, WorkerStart
      <3>2. content[s] = key[r][s] \/ key[r][s] \in overtaken
        BY <1>2, <2>1 DEF WorkerStart, RunFits, KeysFit
      <3> QED
        BY <3>1, <3>2 DEF NoReport
    <2>2. CASE WorkerAnswer(r, s)
      <3>1. job'[r][s] = "answered" /\ job[r][s] = "working"
        BY <2>2 DEF RunTypeOK, WorkerAnswer
      <3>2. report[r][s] \in Reports
        <4>1. report[r][s] # NoReport
          BY <3>1 DEF RunFits, ReportsFit, Reportless
        <4> QED
          BY <4>1 DEF RunTypeOK
      <3>3. report[r][s].ran = key[r][s] \/ key[r][s] \in overtaken
        BY <3>1 DEF RunFits, KeysFit
      <3>4. \/ report'[r][s] = report[r][s]
            \/ report'[r][s] = [report[r][s] EXCEPT !.status = "FAIL_WORKER"]
        BY <2>2 DEF RunTypeOK, WorkerAnswer
      <3>5. report'[r][s].ran = report[r][s].ran /\ report'[r][s].status # "none"
        BY <3>2, <3>4 DEF Reports
      <3> QED
        BY <3>1, <3>3, <3>5 DEF NoReport
    <2> QED
      BY <2>1, <2>2
  <1>4. PhasesFit(r)'
    <2>1. InPhase(r, "done") = FALSE /\ run[r].phase \notin {"idle", "dead"}
      BY <1>2 DEF InPhase, RunPhases
    <2>2. Outstanding(r)' # {}
      BY <1>3 DEF Outstanding, JobsIn, Futures
    <2> QED
      BY <1>1, <1>3, <2>1, <2>2 DEF RunFits, PhasesFit, JobsIn, InPhase
  <1>5. ReportsFit(r)'
    BY <1>1, <1>3 DEF RunFits, ReportsFit, Reportless
  <1>6. SkipsHaveReasons(r)'
    BY <1>1, <1>3 DEF RunFits, SkipsHaveReasons, JobsIn
  <1>7. KeysFit(r)'
    BY <1>1, <1>3 DEF RunFits, KeysFit
  <1> QED
    BY <1>4, <1>5, <1>6, <1>7 DEF RunFits

LEMMA CollectedFits ==
    ASSUME RunTypeOK, RunTypeOK', NEW r \in Runs, NEW s \in Sources, RunFits(r), Collect(r, s)
    PROVE  RunFits(r)'
  <1>1. /\ run[r].phase = "collect" /\ s \in run[r].batch /\ job[r][s] = "answered"
        /\ key' = key /\ content' = content /\ overtaken' = overtaken /\ report' = report
        /\ job'[r][s] = "executed" /\ \A t \in Sources \ {s} : job'[r][t] = job[r][t]
    BY DEF RunTypeOK, Collect, InPhase, RunFits, PhasesFit, JobsIn
  <1>2. /\ run'[r].phase \in {"collect", "settle"} /\ run'[r].mode = run[r].mode
        /\ run'[r].batch = run[r].batch \ {s}
        /\ run'[r].stop = (run[r].stop \/ (run[r].mode.failFast
                                             /\ report[r][s].status # "PASS"))
    BY <1>1, CollectEffect DEF RunTypeOK
  <1>3. PhasesFit(r)'
    BY <1>1, <1>2 DEF RunFits, PhasesFit, JobsIn, InPhase
  <1>4. ReportsFit(r)'
    BY <1>1 DEF RunFits, ReportsFit, Reportless
  <1>5. SkipsHaveReasons(r)'
    <2>1. JobsIn(r, {"skipped"})' # {} => run'[r].stop
      BY <1>1, <1>2 DEF RunFits, SkipsHaveReasons, JobsIn
    <2>2. ASSUME run'[r].stop
          PROVE  /\ run'[r].mode.failFast
                 /\ \E t \in JobsIn(r, {"executed"})' : report'[r][t].status # "PASS"
      <3>1. CASE run[r].stop
        BY <1>1, <1>2, <3>1 DEF RunFits, SkipsHaveReasons, JobsIn
      <3>2. CASE ~run[r].stop
        <4>1. run[r].mode.failFast /\ report[r][s].status # "PASS"
          BY <1>2, <2>2, <3>2
        <4>2. s \in JobsIn(r, {"executed"})'
          BY <1>1 DEF JobsIn
        <4> QED
          BY <1>1, <1>2, <4>1, <4>2
      <3> QED
        BY <3>1, <3>2
    <2> QED
      BY <2>1, <2>2 DEF SkipsHaveReasons
  <1>6. KeysFit(r)'
    BY <1>1, <1>2 DEF RunFits, KeysFit, RunPhases
  <1> QED
    BY <1>3, <1>4, <1>5, <1>6 DEF RunFits

\* An edit overtakes every key whose job has not been read yet.
LEMMA EditedFits ==
    ASSUME RunTypeOK, NEW q \in Runs, RunFits(q), NEW s \in Sources, NEW c \in Contents,
           Edit(s, c)
    PROVE  RunFits(q)'
  <1>1. /\ run' = run /\ key' = key /\ job' = job /\ report' = report
        /\ \A t \in Sources \ {s} : content'[t] = content[t]
        /\ overtaken \subseteq overtaken'
    BY DEF Edit, RunTypeOK
  <1>2. run[q].phase \in RunPhases /\ job[q][s] \in {"new", "pending", "submitted"} =>
           key[q][s] \in overtaken'
    BY DEF Edit, RunPhases
  <1>3. KeysFit(q)'
    BY <1>1, <1>2 DEF RunFits, KeysFit
  <1> QED
    BY <1>1, <1>3 DEF RunFits, PhasesFit, ReportsFit, SkipsHaveReasons, JobsIn, Outstanding,
                      InPhase

LEMMA NextRunFits ==
    ASSUME RunTypeOK, RunTypeOK', \A r \in Runs : RunFits(r), [RunNext]_runVars, NEW q \in Runs
    PROVE  RunFits(q)'
  <1>1. CASE UNCHANGED runVars
    BY <1>1, UntouchedFits DEF runVars
  <1>2. ASSUME NEW r \in Runs, RunStep(r) \/ RunDies(r) PROVE RunFits(q)'
    <2>1. CASE q = r
      BY <1>2, <2>1, StartRunFits, SubmittedFits, WaitedFits, GiveUpFits, DeadFits DEF RunStep
    <2>2. CASE q # r
      <3>1. job'[q] = job[q] /\ report'[q] = report[q] /\ key'[q] = key[q]
        BY <1>2, <2>2, SubmitFacts
           DEF RunTypeOK, RunStep, RunDies, StartRun, FirstBatch, WaitForAny, Refill, GiveUp,
               FinishRun
      <3>2. run'[q] = run[q]
        BY <1>2, <2>2, StartRunEffect, WaitEffect, WaitForAnyEffect, FinishRunEffect,
           RunDiesEffect DEF RunTypeOK, RunStep
      <3>3. content' = content /\ overtaken' = overtaken
        BY <1>2 DEF RunStep, RunDies, StartRun, FirstBatch, WaitForAny, Refill, GiveUp,
                    FinishRun
      <3> QED
        BY <3>1, <3>2, <3>3, UntouchedFits
    <2> QED
      BY <2>1, <2>2
  <1>3. ASSUME NEW r \in Runs, NEW s \in Sources, JobStep(r, s) PROVE RunFits(q)'
    <2>1. CASE q = r
      BY <1>3, <2>1, ScannedFits, WorkedFits, CollectedFits DEF JobStep
    <2>2. CASE q # r
      <3>1. job'[q] = job[q] /\ report'[q] = report[q] /\ key'[q] = key[q]
        BY <1>3, <2>2
           DEF RunTypeOK, JobStep, ResumeJob, HitJob, QueueJob, WorkerStart, WorkerAnswer,
               Collect
      <3>2. run'[q] = run[q]
        BY <1>3, <2>2, HitJobEffect, CollectEffect
           DEF RunTypeOK, JobStep, ResumeJob, QueueJob, WorkerStart, WorkerAnswer
      <3>3. content' = content /\ overtaken' = overtaken
        BY <1>3 DEF JobStep, ResumeJob, HitJob, QueueJob, WorkerStart, WorkerAnswer, Collect
      <3> QED
        BY <3>1, <3>2, <3>3, UntouchedFits
    <2> QED
      BY <2>1, <2>2
  <1>4. ASSUME NEW s \in Sources, NEW c \in Contents, Edit(s, c) PROVE RunFits(q)'
    BY <1>4, EditedFits
  <1> QED
    BY <1>1, <1>2, <1>3, <1>4 DEF RunNext

-----------------------------------------------------------------------------
(* The checkpoint and the cache.                                           *)

\* The two steps that save a report put it in the checkpoint, under the key of a
\* job that has it from then on, and take none out of it.
LEMMA StoredReport ==
    ASSUME RunTypeOK, \A r \in Runs : RunFits(r), NEW r \in Runs, NEW s \in Sources,
           HitJob(r, s) \/ Collect(r, s)
    PROVE  /\ job[r][s] # job'[r][s] /\ job'[r][s] \in {"hit", "executed"}
           /\ key' = key /\ key[r][s] \in Contents
           /\ checkpoint'[key[r][s]] # NoReport
           /\ \A c \in Contents \ {key[r][s]} :
                 checkpoint[c] # NoReport => checkpoint'[c] = checkpoint[c]
           /\ \A q \in Runs, t \in Sources :
                 q # r \/ t # s => job'[q][t] = job[q][t]
  <1>1. PICK v \in Reports : checkpoint' = Merged(run[r].memory, checkpoint, key[r][s], v)
    <2>1. CASE HitJob(r, s)
      <3>1. cache[key[r][s]] \in Reports
        BY <2>1 DEF RunTypeOK, HitJob, Cached, Records
      <3> QED
        BY <2>1, <3>1 DEF HitJob, SaveReport
    <2>2. CASE Collect(r, s)
      <3>1. job[r][s] = "answered"
        BY <2>2 DEF Collect, RunFits, PhasesFit, JobsIn
      <3>2. report[r][s] # NoReport
        BY <3>1 DEF RunFits, ReportsFit, Reportless
      <3>3. report[r][s] \in Reports
        BY <3>2 DEF RunTypeOK
      <3> QED
        BY <2>2, <3>3 DEF Collect, SaveReport
    <2> QED
      BY <2>1, <2>2
  <1>2. run[r].memory \in Records /\ checkpoint \in Records /\ key[r][s] \in Contents
    BY RunStatesFacts DEF RunTypeOK
  <1>3. /\ checkpoint'[key[r][s]] # NoReport
        /\ \A c \in Contents \ {key[r][s]} :
              checkpoint[c] # NoReport => checkpoint'[c] = checkpoint[c]
    <2>1. v # NoReport
      BY NoReportFacts
    <2>2. /\ checkpoint'[key[r][s]] = v
          /\ \A c \in Contents \ {key[r][s]} :
                checkpoint[c] # NoReport => checkpoint'[c] = checkpoint[c]
      BY <1>1, <1>2 DEF Merged
    <2> QED
      BY <2>1, <2>2
  <1>4. job[r][s] \in {"new", "answered"}
    BY DEF HitJob, Scanning, Collect, RunFits, PhasesFit, JobsIn
  <1>5. /\ job'[r][s] \in {"hit", "executed"} /\ key' = key
        /\ \A q \in Runs, t \in Sources : q # r \/ t # s => job'[q][t] = job[q][t]
    BY DEF RunTypeOK, HitJob, Collect
  <1> QED
    BY <1>2, <1>3, <1>4, <1>5

\* Only starting a run gives its jobs a key, and no job is answered then.
LEMMA KeysAndAnswersStay ==
    ASSUME RunTypeOK, \A r \in Runs : RunFits(r), [RunNext]_runVars,
           ~\E r \in Runs, s \in Sources : HitJob(r, s) \/ Collect(r, s),
           NEW q \in Runs, NEW t \in Sources, job'[q][t] \in {"hit", "executed"}
    PROVE  job[q][t] = job'[q][t] /\ key'[q][t] = key[q][t] /\ checkpoint' = checkpoint
  <1>1. CASE UNCHANGED runVars
    BY <1>1 DEF runVars
  <1>2. ASSUME NEW r \in Runs, StartRun(r)
        PROVE  job[q][t] = job'[q][t] /\ key'[q][t] = key[q][t] /\ checkpoint' = checkpoint
    <2>1. q # r
      BY <1>2 DEF StartRun, InPhase, RunFits, PhasesFit
    <2> QED
      BY <1>2, <2>1 DEF RunTypeOK, StartRun
  <1>3. ASSUME NEW r \in Runs,
               \/ FirstBatch(r) \/ WaitForAny(r) \/ Refill(r) \/ GiveUp(r) \/ FinishRun(r)
               \/ RunDies(r)
        PROVE  job[q][t] = job'[q][t] /\ key'[q][t] = key[q][t] /\ checkpoint' = checkpoint
    <2>1. key' = key /\ checkpoint' = checkpoint
      BY <1>3 DEF FirstBatch, WaitForAny, Refill, GiveUp, FinishRun, RunDies
    <2>2. CASE FirstBatch(r) \/ Refill(r)
      <3>1. Submit(r)
        BY <2>2 DEF FirstBatch, Refill
      <3> QED
        BY <2>1, <3>1, SubmitFacts
    <2>3. CASE WaitForAny(r) \/ FinishRun(r)
      BY <2>1, <2>3 DEF WaitForAny, FinishRun
    <2>4. CASE GiveUp(r) \/ RunDies(r)
      <3>1. CASE q = r
        BY <2>1, <2>4, <3>1 DEF RunTypeOK, GiveUp, RunDies
      <3>2. CASE q # r
        BY <2>1, <2>4, <3>2 DEF RunTypeOK, GiveUp, RunDies
      <3> QED
        BY <3>1, <3>2
    <2> QED
      BY <1>3, <2>2, <2>3, <2>4
  <1>4. ASSUME NEW r \in Runs, NEW s \in Sources, JobStep(r, s)
        PROVE  job[q][t] = job'[q][t] /\ key'[q][t] = key[q][t] /\ checkpoint' = checkpoint
    BY <1>4 DEF RunTypeOK, JobStep, ResumeJob, QueueJob, WorkerStart, WorkerAnswer
  <1>5. ASSUME NEW s \in Sources, NEW c \in Contents, Edit(s, c)
        PROVE  job[q][t] = job'[q][t] /\ key'[q][t] = key[q][t] /\ checkpoint' = checkpoint
    BY <1>5 DEF Edit
  <1> QED
    BY <1>1, <1>2, <1>3, <1>4, <1>5 DEF RunNext, RunStep

LEMMA NextReportsReach ==
    ASSUME RunTypeOK, \A r \in Runs : RunFits(r), ReportsReachTheCheckpoint, [RunNext]_runVars
    PROVE  ReportsReachTheCheckpoint'
  <1> SUFFICES ASSUME NEW q \in Runs, NEW t \in Sources, job'[q][t] \in {"hit", "executed"}
               PROVE  checkpoint'[key'[q][t]] # NoReport
    BY DEF ReportsReachTheCheckpoint
  <1>1. CASE ~\E r \in Runs, s \in Sources : HitJob(r, s) \/ Collect(r, s)
    BY <1>1, KeysAndAnswersStay DEF ReportsReachTheCheckpoint
  <1>2. ASSUME NEW r \in Runs, NEW s \in Sources, HitJob(r, s) \/ Collect(r, s)
        PROVE  checkpoint'[key'[q][t]] # NoReport
    <2>1. /\ key' = key /\ key[r][s] \in Contents /\ key[q][t] \in Contents
          /\ checkpoint'[key[r][s]] # NoReport
          /\ \A c \in Contents \ {key[r][s]} :
                checkpoint[c] # NoReport => checkpoint'[c] = checkpoint[c]
          /\ q # r \/ t # s => job'[q][t] = job[q][t]
      BY <1>2, StoredReport DEF RunTypeOK
    <2>2. CASE key[q][t] = key[r][s]
      BY <2>1, <2>2
    <2>3. CASE key[q][t] # key[r][s]
      <3>1. job'[q][t] = job[q][t]
        BY <2>1, <2>3
      <3>2. checkpoint[key[q][t]] # NoReport
        BY <3>1 DEF ReportsReachTheCheckpoint
      <3> QED
        BY <2>1, <2>3, <3>2
    <2> QED
      BY <2>2, <2>3
  <1> QED
    BY <1>1, <1>2

\* A worker's report is cached under the key of its job, which it is a report of
\* unless that key was overtaken.
LEMMA NextOvertakenKeys ==
    ASSUME RunTypeOK, \A r \in Runs : RunFits(r), OnlyOvertakenKeysLie, [RunNext]_runVars
    PROVE  OnlyOvertakenKeysLie'
  <1>0. overtaken \subseteq overtaken'
    <2>1. ASSUME NEW s \in Sources, NEW c \in Contents, Edit(s, c)
          PROVE  overtaken \subseteq overtaken'
      BY <2>1 DEF Edit
    <2>2. CASE ~\E s \in Sources, c \in Contents : Edit(s, c)
      <3>1. ASSUME NEW r \in Runs, RunStep(r) \/ RunDies(r) PROVE overtaken' = overtaken
        BY <3>1 DEF RunStep, RunDies, StartRun, FirstBatch, WaitForAny, Refill, GiveUp, FinishRun
      <3>2. ASSUME NEW r \in Runs, NEW s \in Sources, JobStep(r, s) PROVE overtaken' = overtaken
        BY <3>2 DEF JobStep, ResumeJob, HitJob, QueueJob, WorkerStart, WorkerAnswer, Collect
      <3> QED
        BY <2>2, <3>1, <3>2 DEF RunNext, runVars
    <2> QED
      BY <2>1, <2>2
  <1>1. CASE cache' = cache
    BY <1>0, <1>1 DEF OnlyOvertakenKeysLie
  <1>2. ASSUME NEW r \in Runs, NEW s \in Sources, Collect(r, s) PROVE OnlyOvertakenKeysLie'
    <2>1. job[r][s] = "answered"
      BY <1>2 DEF Collect, RunFits, PhasesFit, JobsIn
    <2>2. report[r][s].ran = key[r][s] \/ key[r][s] \in overtaken
      BY <2>1 DEF RunFits, KeysFit
    <2>3. cache' = cache \/ cache' = [cache EXCEPT ![key[r][s]] = report[r][s]]
      BY <1>2 DEF Collect, CacheKey
    <2>4. cache \in [Contents -> Reports \cup {NoReport}]
      BY DEF RunTypeOK, Records
    <2> QED
      BY <1>0, <2>2, <2>3, <2>4 DEF OnlyOvertakenKeysLie
  <1>3. CASE cache' # cache
    BY <1>2, <1>3 DEF RunNext, RunStep, RunDies, StartRun, FirstBatch, WaitForAny, Refill,
           GiveUp, FinishRun, JobStep, ResumeJob, HitJob, QueueJob, WorkerStart, WorkerAnswer,
           Edit, runVars
  <1> QED
    BY <1>1, <1>3

-----------------------------------------------------------------------------
LEMMA InitRunInv == RunInit => RunInv
  <1> SUFFICES ASSUME RunInit PROVE RunInv
    OBVIOUS
  <1>1. ASSUME NEW r \in Runs
        PROVE  /\ run[r].phase = "idle" /\ run[r].batch = {} /\ run[r].stop = FALSE
               /\ \A s \in Sources : job[r][s] = "new" /\ report[r][s] = NoReport
    BY DEF RunInit
  <1>2. \A r \in Runs : RunFits(r)
    BY <1>1 DEF RunFits, PhasesFit, ReportsFit, SkipsHaveReasons, KeysFit, JobsIn, Outstanding,
                InPhase, RunPhases, Reportless
  <1>3. ReportsReachTheCheckpoint
    BY <1>1 DEF ReportsReachTheCheckpoint
  <1>4. OnlyOvertakenKeysLie
    BY DEF RunInit, OnlyOvertakenKeysLie
  <1> QED
    BY <1>2, <1>3, <1>4, InitRunTypeOK DEF RunInv

LEMMA NextRunInv == RunInv /\ [RunNext]_runVars => RunInv'
  BY NextRunTypeOK, NextRunFits, NextReportsReach, NextOvertakenKeys DEF RunInv

LEMMA RunInvHolds == RunSpec => []RunInv
  BY InitRunInv, NextRunInv, PTL DEF RunSpec

LEMMA RunInvSound == RunInv => RunsSound
  <1> SUFFICES ASSUME RunInv PROVE RunsSound
    OBVIOUS
  <1>1. ASSUME NEW r \in Runs, InPhase(r, "done")
        PROVE  /\ JobsIn(r, {"new", "pending"} \cup Futures) = {}
               /\ \A s \in Sources : (job[r][s] = "skipped") <=> (report[r][s] = NoReport)
               /\ JobsIn(r, {"skipped"}) # {} =>
                     /\ run[r].mode.failFast
                     /\ \E s \in JobsIn(r, {"executed"}) : report[r][s].status # "PASS"
    <2>1. \A s \in Sources : job[r][s] # "new" /\ job[r][s] \notin {"pending"} \cup Futures
      BY <1>1 DEF RunInv, RunFits, PhasesFit, JobsIn, InPhase
    <2>2. \A s \in Sources : job[r][s] \in Reportless <=> job[r][s] = "skipped"
      BY <2>1 DEF Reportless, Futures
    <2> QED
      BY <2>1, <2>2 DEF RunInv, RunFits, ReportsFit, SkipsHaveReasons, JobsIn
  <1> QED
    BY <1>1 DEF RunInv, RunsSound, RunsAccountForJobs, EveryJobAccounted

\* However many runs share the checkpoint and the cache, whatever is edited and
\* whoever is killed: no report is lost on its way to the checkpoint, a finished
\* run accounts for every job, and a cached report is one of the content its key
\* stands for unless an edit overtook the key.
THEOREM RunsSoundHolds == RunSpec => []RunsSound
  BY RunInvHolds, RunInvSound, PTL

\* Every job, report and key has the shape its code gives it.
THEOREM RunTypeCorrect == RunSpec => []RunTypeOK
  <1>1. RunInv => RunTypeOK
    BY DEF RunInv
  <1> QED
    BY <1>1, RunInvHolds, PTL

LEMMA WritersRevertNothing ==
    ASSUME RunInv, [RunNext]_runVars, NEW c \in Contents,
           checkpoint[c] # NoReport, checkpoint'[c] # checkpoint[c]
    PROVE  \E r \in Runs, s \in Sources : /\ key[r][s] = c /\ job[r][s] # job'[r][s]
                                          /\ job'[r][s] \in {"hit", "executed"}
  <1>1. PICK r \in Runs, s \in Sources : HitJob(r, s) \/ Collect(r, s)
    BY DEF RunNext, RunStep, RunDies, StartRun, FirstBatch, WaitForAny, Refill, GiveUp,
           FinishRun, JobStep, ResumeJob, QueueJob, WorkerStart, WorkerAnswer, Edit, runVars
  <1> QED
    BY <1>1, StoredReport DEF RunInv

\* A save changes no record of the checkpoint but the one it saves, however old
\* the memory of the process that saves it.
THEOREM StaleWritersRevertNothingHolds == RunSpec => StaleWritersRevertNothing
  <1>1. RunInv /\ [RunNext]_runVars =>
          [\A c \in Contents :
              checkpoint[c] # NoReport /\ checkpoint'[c] # checkpoint[c]
              => \E r \in Runs, s \in Sources :
                    /\ key[r][s] = c /\ job[r][s] # job'[r][s]
                    /\ job'[r][s] \in {"hit", "executed"}]_runVars
    BY WritersRevertNothing
  <1> QED
    BY <1>1, RunInvHolds, PTL DEF RunSpec, StaleWritersRevertNothing

-----------------------------------------------------------------------------
(* All the files of a controller.  The queue either moves with losses and   *)
(* restores, or it is mirrored and nothing was ever backed up.              *)

NeverRestored ==
    /\ intact /\ restore = "none" /\ backup = NoBackup
    /\ promised = [k \in Keys |-> "nothing"] /\ copied = [k \in Keys |-> "nothing"]

FilesInv ==
    /\ moving \in ControllerFiles
    /\ moving = "queue" => RecoveryInv
    /\ moving # "queue" => TypeOK /\ MirrorTypeOK /\ Honest /\ NeverRestored

LEMMA InitFilesInv == ControllerInit => FilesInv
  <1> SUFFICES ASSUME ControllerInit PROVE FilesInv
    OBVIOUS
  <1>1. RecoveryInit /\ MirrorInit /\ Init
    BY DEF ControllerInit, RecoveryInit, MirrorInit
  <1>2. NeverRestored
    BY <1>1 DEF RecoveryInit, NeverRestored
  <1> QED
    BY <1>1, <1>2, InitRecoveryInv, InitTypeOK, InitMirrorTypeOK, InitHonest
       DEF ControllerInit, FilesInv

LEMMA NextFilesInv == FilesInv /\ [ControllerNext]_controllerVars => FilesInv'
  <1> SUFFICES ASSUME FilesInv, [ControllerNext]_controllerVars PROVE FilesInv'
    OBVIOUS
  <1>1. moving' = moving
    BY DEF ControllerNext, controllerVars
  <1>2. CASE moving = "queue"
    <2>1. [RecoveryNext]_everyVar
      BY <1>2 DEF ControllerNext, controllerVars, QueueMoves, MirrorMoves
    <2> QED
      BY <1>1, <1>2, <2>1, NextRecoveryInv DEF FilesInv
  <1>3. CASE moving # "queue"
    <2>1. [MirrorNext]_allVars /\ UNCHANGED recoveryVars
      BY <1>3 DEF ControllerNext, controllerVars, QueueMoves, MirrorMoves, everyVar
    <2>2. TypeOK' /\ MirrorTypeOK' /\ Honest'
      BY <1>3, <2>1, MirrorStepQueue, NextTypeOK, NextMirrorTypeOK, NextHonest DEF FilesInv
    <2>3. NeverRestored'
      BY <1>3, <2>1 DEF FilesInv, NeverRestored, recoveryVars
    <2> QED
      BY <1>1, <1>3, <2>2, <2>3 DEF FilesInv
  <1> QED
    BY <1>2, <1>3

LEMMA FilesInvHolds == ControllerSpec => []FilesInv
  BY InitFilesInv, NextFilesInv, PTL DEF ControllerSpec

\* The journal and the runs of a controller behave as those of their own modules.
THEOREM ControllerImplementsStores == ControllerSpec => JournalSpec /\ RunSpec
  <1>1. ControllerInit => JournalInit /\ RunInit
    BY DEF ControllerInit
  <1>2. [ControllerNext]_controllerVars => [JournalNext]_journalVars /\ [RunNext]_runVars
    BY DEF ControllerNext, controllerVars, JournalMoves, RunMoves
  <1> QED
    BY <1>1, <1>2, PTL DEF ControllerSpec, JournalSpec, RunSpec

\* So what is proved of them holds of every controller.
COROLLARY ControllerStoresSound ==
    /\ ControllerSpec => [](JournalSound /\ RunsSound)
    /\ ControllerSpec => StaleWritersRevertNothing
  BY ControllerImplementsStores, JournalSoundHolds, RunsSoundHolds,
     StaleWritersRevertNothingHolds, PTL

\* The mirror and the backup of a controller's queue are honest, whether its
\* database is lost or only mirrored.
THEOREM ControllerCopiesHonest == ControllerSpec => []CopiesHonest
  <1>1. FilesInv => CopiesHonest
    <2> SUFFICES ASSUME FilesInv PROVE CopiesHonest
      OBVIOUS
    <2>1. CASE moving = "queue"
      BY <2>1 DEF FilesInv, RecoveryInv, CopiesInv, CopiesHonest, Honest, BackupHonest
    <2>2. CASE moving # "queue"
      <3>1. backup.gen = -1 /\ generation \in Nat
        BY <2>2 DEF FilesInv, NeverRestored, NoBackup, MirrorTypeOK
      <3> QED
        BY <2>2, <3>1 DEF FilesInv, Honest, CopiesHonest
    <2> QED
      BY <2>1, <2>2
  <1> QED
    BY <1>1, FilesInvHolds, PTL

\* Every file of a controller has the values its code can give it.
THEOREM ControllerTypeCorrect == ControllerSpec => []ControllerTypeOK
  <1>1. FilesInv => RecoveryTypeOK
    <2> SUFFICES ASSUME FilesInv PROVE RecoveryTypeOK
      OBVIOUS
    <2>1. CASE moving = "queue"
      BY <2>1 DEF FilesInv, RecoveryInv, RecoveryShape
    <2>2. CASE moving # "queue"
      BY <2>2, MirrorNullFacts
         DEF FilesInv, NeverRestored, RecoveryTypeOK, NoBackup, Backup, RestoreSteps, Promises
    <2> QED
      BY <2>1, <2>2
  <1> QED
    BY <1>1, FilesInvHolds, ControllerImplementsStores, JournalTypeCorrect, RunTypeCorrect, PTL
       DEF ControllerTypeOK

\* Whichever way the queue moves, its callers are served as FleetQueue says.
THEOREM ControllerServedAsQueue == ControllerSpec => ServedAsQueue
  <1>1. ControllerInit => Init
    BY DEF ControllerInit, RecoveryInit, MirrorInit
  <1>2. [ControllerNext]_controllerVars => [intact /\ restore = "none" => [Next]_vars]_vars
    <2>1. CASE [RecoveryNext]_everyVar
      BY <2>1, RecoveryServes
    <2>2. CASE [MirrorNext]_allVars
      BY <2>2, MirrorStepQueue
    <2> QED
      BY <2>1, <2>2 DEF ControllerNext, controllerVars, QueueMoves, MirrorMoves, everyVar
  <1> QED
    BY <1>1, <1>2, PTL DEF ControllerSpec, ServedAsQueue

\* A controller alone loses nothing with its database that its callers were told
\* and the mirror or a backup had: whatever the files of the other stores do, the
\* exception is the retry acknowledged after a failed mirror, and no other.
THEOREM ControllerKeepsCopied ==
    ASSUME NEW c \in Clients, Recovering = {c}
    PROVE  ControllerSpec => []CopiedJobsPreserved
  <1> DEFINE Told1 == moving = "queue" => SoleInv(c)
  <1>1. ControllerInit => Told1
    BY InitSoleInv DEF ControllerInit
  <1>2. FilesInv /\ Told1 /\ [ControllerNext]_controllerVars => Told1'
    <2> SUFFICES ASSUME FilesInv, Told1, [ControllerNext]_controllerVars, moving' = "queue"
                 PROVE  SoleInv(c)'
      OBVIOUS
    <2>1. moving = "queue"
      BY DEF ControllerNext, controllerVars
    <2>2. [SoleNext(c)]_everyVar
      BY <2>1 DEF ControllerNext, controllerVars, QueueMoves, MirrorMoves, SoleNext
    <2> QED
      BY <2>1, <2>2, NextSoleInv DEF FilesInv
  <1>3. FilesInv /\ Told1 => CopiedJobsPreserved
    <2> SUFFICES ASSUME FilesInv, Told1 PROVE CopiedJobsPreserved
      OBVIOUS
    <2>1. CASE moving = "queue"
      BY <2>1, SoleKeepsCopied DEF FilesInv
    <2>2. CASE moving # "queue"
      BY <2>2 DEF FilesInv, NeverRestored, CopiedJobsPreserved, Shows
    <2> QED
      BY <2>1, <2>2
  <1> QED
    BY <1>1, <1>2, <1>3, FilesInvHolds, PTL DEF ControllerSpec
==============================================================================
