-------------------------- MODULE RecoveryJournal --------------------------
(***************************************************************************)
(* The hash-chained JSONL journal of the queue controllers (class           *)
(* RecoveryJournal in recovery.py): append and repair_torn_tail, called by  *)
(* several processes that may die at any point.                            *)
(*                                                                         *)
(* A record is known by its digest, a number that no other record has (each *)
(* holds a uuid of its own).  The file is a sequence of lines.  A line is   *)
(* the sequence of what was written to it, and whether a newline ends it: a *)
(* line parses exactly if it is one whole record.                          *)
(***************************************************************************)
EXTENDS Naturals, Sequences, SequencesExt

CONSTANTS
    Procs,        \* processes that append to or repair the journal
    Nobody,       \* the lock is free
    Tails,        \* what of a record may be in the file when its writer died
    MaxRecords    \* bound on the records ever built

ASSUME JournalAssumption ==
    /\ Nobody \notin Procs
    /\ Tails \subseteq {"nothing", "cut", "bare"}
    /\ MaxRecords \in Nat

VARIABLES
    file,         \* the lines of the journal
    lock,         \* who holds <journal>.lock
    proc,         \* what each process is doing
    built,        \* the number of records built so far
    returned      \* history: the records whose append has returned

journalVars == <<file, lock, proc, built, returned>>

-----------------------------------------------------------------------------
\* previous is previous_sha256: the digest of the record before, or zeros.
Record == [digest : 1 .. MaxRecords, sequence : Nat, previous : 0 .. MaxRecords]

\* The beginning of a record, without its end.
Cut == [digest |-> 0, sequence |-> 0, previous |-> 0]

Line == [text : Seq(Record \cup {Cut}), ended : BOOLEAN]

JournalSteps == {"idle", "locked", "loaded", "written"}
Tasks == {"append", "repair"}

\* entries and torn: what _entries returned to the process.
Proc == [step : JournalSteps, task : Tasks, entries : Seq(Record), torn : BOOLEAN]

IdleProc == [step |-> "idle", task |-> "append", entries |-> <<>>, torn |-> FALSE]

JournalTypeOK ==
    /\ file \in Seq(Line)
    /\ lock \in Procs \cup {Nobody}
    /\ proc \in [Procs -> Proc]
    /\ built \in 0 .. MaxRecords
    /\ returned \subseteq Record

JournalInit ==
    /\ file = <<>>
    /\ lock = Nobody
    /\ proc = [p \in Procs |-> IdleProc]
    /\ built = 0
    /\ returned = {}

-----------------------------------------------------------------------------
(* _entries: what a reader makes of the file.                              *)

Parses(line) == Len(line.text) = 1 /\ line.text[1] # Cut

\* The last line neither parses nor ends: it is cut off, not malformed.
Torn(f) == f # <<>> /\ ~Parses(Last(f)) /\ ~Last(f).ended

Body(f) == IF Torn(f) THEN Front(f) ELSE f

DigestAt(f, i) == IF i = 0 THEN 0 ELSE f[i].text[1].digest

\* "Recovery journal contains malformed JSON", or "hash chain failed".
Malformed(f) ==
    \E i \in DOMAIN Body(f) :
        \/ ~Parses(f[i])
        \/ f[i].text[1].previous # DigestAt(f, i - 1)

Entries(f) == [i \in DOMAIN Body(f) |-> f[i].text[1]]

\* atomic_write_bytes of entries that were read: one whole line each.
Lines(entries) ==
    [i \in DOMAIN entries |-> [text |-> <<entries[i]>>, ended |-> TRUE]]

\* O_APPEND: what is written goes behind whatever the last line ends with.
Written(f, piece, ended) ==
    IF f = <<>> \/ Last(f).ended
      THEN Append(f, [text |-> <<piece>>, ended |-> ended])
      ELSE Append(Front(f), [text |-> Append(Last(f).text, piece), ended |-> ended])

-----------------------------------------------------------------------------
GotoStep(p, step) == proc' = [proc EXCEPT ![p].step = step]

\* Mutant of LockFree: nothing is locked.
NeverLocked == TRUE

LockFree == lock = Nobody

Acquire(p, task) ==
    /\ proc[p].step = "idle"
    /\ LockFree
    /\ lock' = p
    /\ proc' = [proc EXCEPT ![p] =
                    [step |-> "locked", task |-> task, entries |-> <<>>, torn |-> FALSE]]
    /\ UNCHANGED <<file, built, returned>>

\* The call returns or raises: the lock is released.
Leave(p) ==
    /\ proc' = [proc EXCEPT ![p] = IdleProc]
    /\ lock' = IF lock = p THEN Nobody ELSE lock

Load(p) ==
    /\ proc[p].step = "locked"
    /\ IF Malformed(file)
         THEN Leave(p)
         ELSE /\ proc' = [proc EXCEPT ![p].step = "loaded",
                                      ![p].entries = Entries(file),
                                      ![p].torn = Torn(file)]
              /\ UNCHANGED lock
    /\ UNCHANGED <<file, built, returned>>

\* A torn tail is dropped by writing the journal anew, in one replacement.
Rewrite(p) ==
    /\ proc[p].step = "loaded"
    /\ proc[p].torn
    /\ file' = Lines(proc[p].entries)
    /\ proc' = [proc EXCEPT ![p].torn = FALSE]
    /\ UNCHANGED <<lock, built, returned>>

EndRepair(p) ==
    /\ proc[p].step = "loaded"
    /\ proc[p].task = "repair"
    /\ ~proc[p].torn
    /\ Leave(p)
    /\ UNCHANGED <<file, built, returned>>

\* Mutant of NextRecord: a digest that does not depend on the record.
NextRecordUndigested(p) ==
    LET entries == proc[p].entries IN
    [digest   |-> built,
     sequence |-> Len(entries) + 1,
     previous |-> IF entries = <<>> THEN 0 ELSE Last(entries).digest]

NextRecord(p) ==
    LET entries == proc[p].entries IN
    [digest   |-> built + 1,
     sequence |-> Len(entries) + 1,
     previous |-> IF entries = <<>> THEN 0 ELSE Last(entries).digest]

Writing(p) ==
    /\ proc[p].step = "loaded"
    /\ proc[p].task = "append"
    /\ ~proc[p].torn
    /\ built < MaxRecords
    /\ built' = built + 1

\* os.write of the record and its newline.
Write(p) ==
    /\ Writing(p)
    /\ file' = Written(file, NextRecord(p), TRUE)
    /\ proc' = [proc EXCEPT ![p].step = "written",
                            ![p].entries = Append(@, NextRecord(p))]
    /\ UNCHANGED <<lock, returned>>

\* os.fsync, and append returns the record.
ReturnAppend(p) ==
    /\ proc[p].step = "written"
    /\ returned' = returned \cup {Last(proc[p].entries)}
    /\ Leave(p)
    /\ UNCHANGED <<file, built>>

\* "bare": the whole record reached the file, its newline did not.
DieWriting(p) ==
    /\ Writing(p)
    /\ \/ "nothing" \in Tails /\ UNCHANGED file
       \/ "cut" \in Tails /\ file' = Written(file, Cut, FALSE)
       \/ "bare" \in Tails /\ file' = Written(file, NextRecord(p), FALSE)
    /\ Leave(p)
    /\ UNCHANGED returned

Die(p) ==
    /\ proc[p].step # "idle"
    /\ Leave(p)
    /\ UNCHANGED <<file, built, returned>>

JournalNext ==
    \E p \in Procs :
        \/ \E task \in Tasks : Acquire(p, task)
        \/ Load(p)
        \/ Rewrite(p)
        \/ EndRepair(p)
        \/ Write(p)
        \/ ReturnAppend(p)
        \/ DieWriting(p)
        \/ Die(p)

JournalSpec == JournalInit /\ [][JournalNext]_journalVars

-----------------------------------------------------------------------------
(* Properties.                                                             *)

\* No record whose append returned ever leaves the file, whoever repairs or
\* extends the journal after it and wherever they die.
ReturnedKept ==
    \A r \in returned : \E i \in DOMAIN file : r \in Range(file[i].text)

\* The records whose append returned form one chain: no two have the same
\* place in it, and each follows the one before.
OneChain ==
    \A r, s \in returned :
        /\ r.sequence = s.sequence => r = s
        /\ r.sequence = s.sequence + 1 => r.previous = s.digest

\* A record was written behind a whole one that no newline ended.
Glued(f) == \E i \in DOMAIN f : Len(f[i].text) > 1 /\ f[i].text[1] # Cut

\* Only that makes a journal unreadable: a death that leaves less than a whole
\* record does no harm, nor do concurrent appends and repairs.
OnlyGluedRecordsHarm == Malformed(file) => Glued(file)

\* What the journal promises its users: nothing they were told is lost or
\* given a second place, and the death of a writer harms in one case only.
\* (docs/RECOVERY.md:34-36 knows no such case: "a final partial record caused
\* by abrupt process termination may be removed".)
JournalSound == ReturnedKept /\ OneChain /\ OnlyGluedRecordsHarm
=============================================================================
