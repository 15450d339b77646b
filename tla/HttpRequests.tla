---------------------------- MODULE HttpRequests ----------------------------
(***************************************************************************)
(* The requests of one session of the HTTP server, each on a thread of its *)
(* own (http_mcp.py), and the audit log they all append to                 *)
(* (http_audit_log_hardening.py).                                          *)
(*                                                                         *)
(* A request is told from others by the JSON-RPC id of a POST or the        *)
(* Idempotency-Key of a PUT: one that was answered is answered again from  *)
(* memory.  What it did is appended to the log, whose chain is checked     *)
(* before and after, under the lock of the file.  The session's lock is     *)
(* held to look a key up and to remember its answer, not in between.        *)
(***************************************************************************)
EXTENDS Naturals, Sequences, FiniteSets

CONSTANTS Requesters,       \* threads of the server
          RequestKeys,      \* ids and idempotency keys
          Contents,         \* bodies, by digest
          MaxRemembered,    \* answers remembered (1024)
          MaxConcurrent,    \* requests of a session handled at once
          MaxRequests,      \* bound: requests received
          MaxHttpTroubles   \* bound: failed writes, broken records, deaths of the server

ASSUME HttpAssumption ==
    /\ MaxRemembered \in Nat \ {0} /\ MaxConcurrent \in Nat \ {0}
    /\ MaxRequests \in Nat /\ MaxHttpTroubles \in Nat

VARIABLES request,      \* the request each thread is at
          received,     \* number of requests so far, which tells them apart
          remembered,   \* POST and PUT: what was answered, oldest first
          permits,      \* free places of the session's semaphore
          auditLog,     \* records of the log: sequence number and execution
          auditTail,    \* "whole", or what makes the log invalid
          httpTroubles,
          running,      \* the server, which is not started again here
          executions,   \* history: what was done under a key
          answers,      \* history: what was answered under a key
          disturbed     \* history: keys executed again for a reason below

httpVars == <<request, received, remembered, permits, auditLog, auditTail,
              httpTroubles, running, executions, answers, disturbed>>

HttpMethods == {"POST", "PUT"}
NoRequest == [at |-> "idle", kind |-> "POST", key |-> "none", content |-> "none",
              separated |-> FALSE, number |-> 0, sequence |-> 0]

HttpInit ==
    /\ request = [t \in Requesters |-> NoRequest]
    /\ received = 0
    /\ remembered = [k \in HttpMethods |-> <<>>]
    /\ permits = MaxConcurrent
    /\ auditLog = <<>>
    /\ auditTail = "whole"
    /\ httpTroubles = 0
    /\ running = TRUE
    /\ executions = {}
    /\ answers = {}
    /\ disturbed = {}

Execution(t) == request[t].number
Slot(t) == <<request[t].kind, request[t].key>>
RequestAt(t, place) == request' = [request EXCEPT ![t].at = place]
RequestEnds(t) == request' = [request EXCEPT ![t] = NoRequest]
HttpTrouble == httpTroubles < MaxHttpTroubles /\ httpTroubles' = httpTroubles + 1

Entries(kind, key) == {i \in DOMAIN remembered[kind] : remembered[kind][i].key = key}
Working(t) == request[t].at \notin {"idle", "lookup"}
-----------------------------------------------------------------------------
\* do_POST, do_PUT up to the lock: authenticated, the session found, the body
\* read.  Its method or name may hold a character that splitlines takes for a
\* line's end, and that json.dumps leaves as it is.
Receive(t, kind, key, content, separated) ==
    /\ running /\ request[t].at = "idle" /\ received < MaxRequests
    /\ received' = received + 1
    /\ request' = [request EXCEPT ![t] =
                      [at |-> "lookup", kind |-> kind, key |-> key, content |-> content,
                       separated |-> separated, number |-> received + 1, sequence |-> 0]]
    /\ IF separated THEN HttpTrouble ELSE UNCHANGED httpTroubles
    /\ UNCHANGED <<remembered, permits, auditLog, auditTail, running, executions, answers, disturbed>>

\* Mutant: the body is not compared.
AnyRequest(t, entry) == TRUE

\* The answer of a key that is remembered is given again; with another body the
\* request is refused.
SameRequest(t, entry) == entry.content = request[t].content

RememberedRequest(t) ==
    /\ request[t].at = "lookup"
    /\ \E i \in Entries(request[t].kind, request[t].key) :
          LET entry == remembered[request[t].kind][i]
          IN  answers' = IF SameRequest(t, entry)
                         THEN answers \cup {[slot |-> Slot(t), execution |-> entry.execution,
                                             content |-> request[t].content, again |-> TRUE]}
                         ELSE answers
    /\ RequestEnds(t)
    /\ UNCHANGED <<received, remembered, permits, auditLog, auditTail, httpTroubles, running,
                   executions, disturbed>>

NewRequest(t) ==
    /\ request[t].at = "lookup"
    /\ Entries(request[t].kind, request[t].key) = {}
    /\ RequestAt(t, IF request[t].kind = "POST" THEN "permit" ELSE "upload")
    /\ disturbed' = IF \E o \in Requesters \ {t} : Working(o) /\ Slot(o) = Slot(t)
                    THEN disturbed \cup {Slot(t)} ELSE disturbed
    /\ UNCHANGED <<received, remembered, permits, auditLog, auditTail, httpTroubles, running,
                   executions, answers>>
-----------------------------------------------------------------------------
\* The semaphore is taken without waiting: 429 when no place is free.
TakePermit(t) ==
    /\ request[t].at = "permit"
    /\ IF permits > 0
       THEN permits' = permits - 1 /\ RequestAt(t, "handle")
       ELSE RequestEnds(t) /\ UNCHANGED permits
    /\ UNCHANGED <<received, remembered, auditLog, auditTail, httpTroubles, running,
                   executions, answers, disturbed>>

Executed(t) == executions' = executions \cup {[slot |-> Slot(t), execution |-> Execution(t),
                                               content |-> request[t].content]}

\* MCPServer.handle; its place is given back whatever it raises.
HandleMessage(t) ==
    /\ request[t].at = "handle"
    /\ Executed(t)
    /\ permits' = permits + 1
    /\ RequestAt(t, "remember")
    /\ UNCHANGED <<received, remembered, auditLog, auditTail, httpTroubles, running, answers, disturbed>>

\* The upload, under the locks of http_upload_quota_hardening, which are held
\* until it is in the audit log.
UploadsNow(t) == request[t].kind = "PUT" /\ request[t].at \in {"append", "write", "sync", "check"}

UploadFile(t) ==
    /\ request[t].at = "upload"
    /\ ~\E o \in Requesters : UploadsNow(o)
    /\ Executed(t)
    /\ RequestAt(t, "append")
    /\ UNCHANGED <<received, remembered, permits, auditLog, auditTail, httpTroubles, running,
                   answers, disturbed>>

\* Mutant: the newest answer goes.
WithAnswerFirst(t) ==
    LET kind == request[t].kind
    IN  IF Len(remembered[kind]) >= MaxRemembered THEN remembered[kind]
        ELSE Append(remembered[kind], [key |-> request[t].key, content |-> request[t].content,
                                       execution |-> Execution(t)])

\* The answers but that of one key, which a dict holds once.
OtherAnswers(kind, key) ==
    IF Entries(kind, key) = {} THEN remembered[kind]
    ELSE LET i == CHOOSE i \in Entries(kind, key) : TRUE
         IN  SubSeq(remembered[kind], 1, i - 1)
                \o SubSeq(remembered[kind], i + 1, Len(remembered[kind]))

\* remember_request moves a key to the end, an upload's key stays where it is.
\* The oldest keys go.
WithAnswer(t) ==
    LET kind == request[t].kind
        entry == [key |-> request[t].key, content |-> request[t].content, execution |-> Execution(t)]
        all == IF kind = "PUT" /\ Entries(kind, entry.key) # {}
               THEN [i \in DOMAIN remembered[kind] |->
                        IF remembered[kind][i].key = entry.key THEN entry ELSE remembered[kind][i]]
               ELSE Append(OtherAnswers(kind, entry.key), entry)
    IN  IF Len(all) > MaxRemembered THEN Tail(all) ELSE all

Remember(t) ==
    /\ request[t].at = "remember"
    /\ remembered' = [remembered EXCEPT ![request[t].kind] = WithAnswer(t)]
    /\ disturbed' = disturbed \cup
          {<<request[t].kind, remembered[request[t].kind][i].key>> :
              i \in {i \in DOMAIN remembered[request[t].kind] :
                        \A j \in DOMAIN WithAnswer(t) :
                           WithAnswer(t)[j].key # remembered[request[t].kind][i].key}}
    /\ RequestAt(t, IF request[t].kind = "POST" THEN "append" ELSE "answer")
    /\ UNCHANGED <<received, permits, auditLog, auditTail, httpTroubles, running, executions, answers>>

AnswerRequest(t) ==
    /\ request[t].at = "answer"
    /\ answers' = answers \cup {[slot |-> Slot(t), execution |-> Execution(t),
                                 content |-> request[t].content, again |-> FALSE]}
    /\ RequestEnds(t)
    /\ UNCHANGED <<received, remembered, permits, auditLog, auditTail, httpTroubles, running,
                   executions, disturbed>>
-----------------------------------------------------------------------------
\* HashChainAudit.append, under the lock of the thread and of the file.
HoldsLog(t) == request[t].at \in {"write", "sync", "check"}

\* Mutant: the file is not locked.
LogAlwaysFree(t) == TRUE

LogFree(t) == ~\E o \in Requesters : HoldsLog(o)

\* An upload whose record cannot be appended is an error, and is not remembered.
AppendFails(t) ==
    /\ RequestEnds(t)
    /\ disturbed' = IF request[t].kind = "PUT" THEN disturbed \cup {Slot(t)} ELSE disturbed

\* The chain is read and checked: the record gets the next number.
AppendBegin(t) ==
    /\ request[t].at = "append"
    /\ LogFree(t)
    /\ IF auditTail = "whole"
       THEN /\ request' = [request EXCEPT ![t].at = "write", ![t].sequence = Len(auditLog) + 1]
            /\ UNCHANGED disturbed
       ELSE AppendFails(t)
    /\ UNCHANGED <<received, remembered, permits, auditLog, auditTail, httpTroubles, running,
                   executions, answers>>

\* _write_all goes on after a short write.  When it fails part of the record
\* stays in the file.
WriteRecord(t) ==
    /\ request[t].at = "write"
    /\ \/ /\ auditLog' = Append(auditLog, [sequence |-> request[t].sequence, execution |-> Execution(t)])
          /\ auditTail' = IF request[t].separated THEN "separated" ELSE auditTail
          /\ RequestAt(t, "sync")
          /\ UNCHANGED <<httpTroubles, disturbed>>
       \/ /\ HttpTrouble
          /\ auditTail' = "cut"
          /\ AppendFails(t)
          /\ UNCHANGED auditLog
    /\ UNCHANGED <<received, remembered, permits, running, executions, answers>>

SyncLog(t) ==
    /\ request[t].at = "sync"
    /\ \/ RequestAt(t, "check") /\ UNCHANGED <<httpTroubles, disturbed>>
       \/ HttpTrouble /\ AppendFails(t)
    /\ UNCHANGED <<received, remembered, permits, auditLog, auditTail, running, executions, answers>>

\* The log is read once more, and has to be one record longer.
CheckLog(t) ==
    /\ request[t].at = "check"
    /\ IF auditTail = "whole" /\ Len(auditLog) = request[t].sequence
       THEN /\ RequestAt(t, IF request[t].kind = "POST" THEN "answer" ELSE "remember")
            /\ UNCHANGED disturbed
       ELSE AppendFails(t)
    /\ UNCHANGED <<received, remembered, permits, auditLog, auditTail, httpTroubles, running,
                   executions, answers>>

\* The server dies: its sessions are gone, the log stays.
ServerDeath ==
    /\ running /\ HttpTrouble
    /\ running' = FALSE
    /\ auditTail' \in {auditTail} \cup {"cut" : t \in {t \in Requesters : request[t].at = "write"}}
    /\ request' = [t \in Requesters |-> NoRequest]
    /\ remembered' = [k \in HttpMethods |-> <<>>]
    /\ permits' = MaxConcurrent
    /\ UNCHANGED <<received, auditLog, executions, answers, disturbed>>

HttpNext ==
    \/ \E t \in Requesters :
          \/ \E kind \in HttpMethods, key \in RequestKeys, content \in Contents, separated \in BOOLEAN :
                Receive(t, kind, key, content, separated)
          \/ RememberedRequest(t) \/ NewRequest(t)
          \/ TakePermit(t) \/ HandleMessage(t) \/ UploadFile(t) \/ Remember(t) \/ AnswerRequest(t)
          \/ AppendBegin(t) \/ WriteRecord(t) \/ SyncLog(t) \/ CheckLog(t)
    \/ ServerDeath

HttpSpec == HttpInit /\ [][HttpNext]_httpVars
-----------------------------------------------------------------------------
\* A key stands for one request: it is executed once, with one body, and every
\* answer is that of its execution, unless two requests with the key overlapped,
\* its answer was evicted, or it could not be recorded.
KeysHold ==
    \A e \in executions : e.slot \notin disturbed =>
       /\ \A o \in executions : o.slot = e.slot => o = e
       /\ \A a \in answers :
             a.slot = e.slot => a.execution = e.execution /\ a.content = e.content

\* Whoever was answered finds what was done in the log, and the numbers of the log
\* have no gap, whatever failed in between.  A POST's answer is remembered before
\* it is recorded: one that is given again from memory may have no record.
AnsweredIsRecorded ==
    /\ \A a \in answers :
          (a.again /\ a.slot[1] = "POST") \/ \E i \in DOMAIN auditLog : auditLog[i].execution = a.execution
    /\ \A i \in DOMAIN auditLog : auditLog[i].sequence = i
=============================================================================
