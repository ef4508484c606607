------------------------------ MODULE DataExport ------------------------------
(***************************************************************************)
(* One account's data exports (me/data_export_service.py): asked for, built *)
(* by a job that runs every minute and may overlap with itself, handed over *)
(* once against a code, destroyed when nobody came for them, and what the   *)
(* job that deletes accounts (me/account_deletion_service.py) does to them. *)
(*                                                                         *)
(* Rows change in short transactions, files with none open, except for the  *)
(* download, which keeps its row locked while it reads and destroys the     *)
(* file.  What a file says, its size and its kind are left out; of the      *)
(* deletion only the exports' part is here (see SignIn and Negotiation).    *)
(***************************************************************************)
EXTENDS Integers, Sequences, FiniteSets, TLC

CONSTANTS
    Exports,    \* the exports the account may ever ask for
    Requests,   \* what the account's devices ask at once
    Jobs,       \* runs of the job under way at once, overlapping or by hand
    MaxTries,   \* MAX_BUILD_ATTEMPTS
    Kept,       \* EXPORT_KEPT_FOR
    MaxTime,    \* bound: the clock
    MaxFaults   \* bound: crashes, and calls that fail, a build's apart

ASSUME LimitsAssumption ==
    /\ MaxTries \in Nat \ {0} /\ Kept \in Nat \ {0}
    /\ MaxTime \in Nat \ {0} /\ MaxFaults \in Nat

Nobody == "nobody"
Nothing == "nothing"
ASSUME NamesAssumption == Nobody \notin Requests /\ Nothing \notin Exports

-----------------------------------------------------------------------------
VARIABLES
    time,
    row,      \* data_export, one row each
    stored,   \* the exports whose file is in the bucket
    code,     \* the export the newest unspent download code was asked for
    phone,    \* who holds the lock of the account's phone
    leaving,  \* deletion_takes_effect_at has passed
    deals,    \* whether a deal of the account is unfinished
    gone,     \* whether the account is erased
    req, job, deletion,
    faults,
    told,     \* history: what the owner was told of each
    handed,   \* history: how often each file was handed over
    twice     \* history: settled by one run while another had it to build

rows == <<row, told>>
account == <<leaving, deals, gone>>
vars == <<time, row, stored, code, phone, leaving, deals, gone, req, job, deletion,
          faults, told, handed, twice>>

Never == 0
Times == 1..MaxTime
Row == [is : {"unasked", "there", "erased"}, requested : {Never} \union Times,
        ready : {Never} \union Times, attempts : 0..MaxTries, failed : BOOLEAN,
        downloaded : BOOLEAN, deleted : BOOLEAN]
Unasked == [is |-> "unasked", requested |-> Never, ready |-> Never, attempts |-> 0,
            failed |-> FALSE, downloaded |-> FALSE, deleted |-> FALSE]

There(e) == row[e].is = "there"
Expires(e) == row[e].ready + Kept

\* ready_at IS NULL AND failed_at IS NULL, as the job asks for it.
Waits(e) == There(e) /\ row[e].ready = Never /\ ~row[e].failed

\* Variant: a downloaded export is not told from a ready one.
StatusUntaken(e, now) ==
    IF row[e].failed THEN "failed"
    ELSE IF row[e].ready = Never THEN "preparing"
    ELSE IF now >= Expires(e) THEN "expired"
    ELSE "ready"

\* Where an export stands at `now`.
StatusOf(e, now) ==
    IF row[e].failed THEN "failed"
    ELSE IF row[e].ready = Never THEN "preparing"
    ELSE IF row[e].downloaded THEN "downloaded"
    ELSE IF now >= Expires(e) THEN "expired"
    ELSE "ready"

MayBeTaken(e, now) == There(e) /\ StatusOf(e, now) = "ready"

Idle == [op |-> "idle"]
Request ==
    [op : {"ask", "code", "download"}, export : Exports \union {Nothing}, now : Times,
     step : {"begun", "take", "commit"}]

\* A run's scheduled time, what it does next, and with what.
Resting == [step |-> "resting", at |-> Never, export |-> Nothing, due |-> {}]
Run == [step : {"resting", "select", "read", "write", "mark", "count", "due",
                "destroy", "record"},
        at : {Never} \union Times, export : Exports \union {Nothing},
        due : SUBSET Exports]

NoDeletion == [step |-> "resting", due |-> {}, export |-> Nothing]
Deletion == [step : {"resting", "destroy", "record", "erase"}, due : SUBSET Exports,
             export : Exports \union {Nothing}]

\* Held FOR UPDATE by a download from its checks to its commit.
RowLocked(e) ==
    \E r \in Requests : req[r] # Idle /\ req[r].step # "begun" /\ req[r].export = e

TypeOK ==
    /\ time \in Times
    /\ row \in [Exports -> Row]
    /\ stored \subseteq Exports
    /\ code \in Exports \union {Nothing}
    /\ phone \in Requests \union {Nobody}
    /\ leaving \in BOOLEAN /\ deals \in BOOLEAN /\ gone \in BOOLEAN
    /\ req \in [Requests -> Request \union {Idle}]
    /\ job \in [Jobs -> Run]
    /\ deletion \in Deletion
    /\ faults \in 0..MaxFaults
    /\ told \in [Exports -> Seq({"ready", "failed"})]
    /\ handed \in [Exports -> Nat]
    /\ twice \subseteq Exports

Init ==
    /\ time = 1
    /\ row = [e \in Exports |-> Unasked]
    /\ stored = {} /\ code = Nothing /\ phone = Nobody
    /\ leaving = FALSE /\ deals \in BOOLEAN /\ gone = FALSE
    /\ req = [r \in Requests |-> Idle]
    /\ job = [j \in Jobs |-> Resting]
    /\ deletion = NoDeletion
    /\ faults = 0
    /\ told = [e \in Exports |-> <<>>]
    /\ handed = [e \in Exports |-> 0]
    /\ twice = {}

-----------------------------------------------------------------------------
(* The owner's requests. *)

\* A session lets a request begin, and ends when the account is erased; a
\* download brings a code.
Begin(r, op, e) ==
    /\ req[r] = Idle /\ ~gone
    /\ \/ op = "ask" /\ e = Nothing /\ \E new \in Exports : row[new].is = "unasked"
       \/ op = "code" /\ e \in Exports /\ There(e)
       \/ op = "download" /\ e \in Exports /\ code = e
    /\ req' = [req EXCEPT ![r] = [op |-> op, export |-> e, now |-> time, step |-> "begun"]]
    /\ UNCHANGED <<time, rows, stored, code, phone, account, job, deletion, faults, handed,
                   twice>>

Ends(r) == req' = [req EXCEPT ![r] = Idle]

\* request: the partial unique index keeps one being prepared.
Ask(r) ==
    /\ req[r] # Idle /\ req[r].op = "ask" /\ Ends(r)
    /\ \/ /\ \A e \in Exports : ~Waits(e)
          /\ \E e \in Exports :
                /\ row[e].is = "unasked"
                /\ row' = [row EXCEPT ![e] = [Unasked EXCEPT !.is = "there",
                                                             !.requested = req[r].now]]
       \/ /\ \E e \in Exports : Waits(e) \/ \A new \in Exports : row[new].is # "unasked"
          /\ UNCHANGED row
    /\ UNCHANGED <<time, stored, code, phone, account, job, deletion, faults, told, handed,
                   twice>>

\* A step-up code for the download of one export is sent only if it can be
\* downloaded; only the newest code counts.
AskCode(r) ==
    LET e == req[r].export IN
    /\ req[r] # Idle /\ req[r].op = "code" /\ Ends(r)
    /\ phone = Nobody
    /\ code' = IF MayBeTaken(e, req[r].now) THEN e ELSE code
    /\ UNCHANGED <<time, rows, stored, phone, account, job, deletion, faults, handed, twice>>

\* A download takes the phone's lock, finds its code, locks its row and looks
\* at it again; a refused one spends no code.
LockDownload(r) ==
    LET e == req[r].export IN
    /\ req[r] # Idle /\ req[r].op = "download" /\ req[r].step = "begun"
    /\ phone = Nobody
    /\ IF There(e) /\ code = e /\ MayBeTaken(e, req[r].now)
       THEN phone' = r /\ req' = [req EXCEPT ![r].step = "take"]
       ELSE phone' = phone /\ Ends(r)
    /\ UNCHANGED <<time, rows, stored, code, account, job, deletion, faults, handed, twice>>

Answering(r, step) ==
    req[r] # Idle /\ req[r].op = "download" /\ req[r].step = step

\* What ends a download lets its locks go; what stops it rolls it back, and its
\* row and its code stay.
LetsGo(r) == Ends(r) /\ phone' = Nobody

\* The file is read, and every version of it destroyed; without one, the
\* storage raises.
Take(r) ==
    LET e == req[r].export IN
    /\ Answering(r, "take")
    /\ IF e \in stored
       THEN stored' = stored \ {e} /\ phone' = phone /\ req' = [req EXCEPT ![r].step = "commit"]
       ELSE stored' = stored /\ LetsGo(r)
    /\ UNCHANGED <<time, rows, code, account, job, deletion, faults, handed, twice>>

HandOver(r) ==
    LET e == req[r].export IN
    /\ Answering(r, "commit")
    /\ row' = [row EXCEPT ![e].downloaded = TRUE, ![e].deleted = TRUE]
    /\ handed' = [handed EXCEPT ![e] = @ + 1]
    /\ code' = Nothing /\ LetsGo(r)
    /\ UNCHANGED <<time, stored, account, job, deletion, faults, told, twice>>

\* The process dies, the connection breaks, or the storage refuses.
DownloadFails(r) ==
    /\ req[r] # Idle /\ req[r].step # "begun" /\ faults < MaxFaults
    /\ LetsGo(r)
    /\ faults' = faults + 1
    /\ UNCHANGED <<time, rows, stored, code, account, job, deletion, handed, twice>>

-----------------------------------------------------------------------------
(* The job: what waits is built, then what expired is destroyed. *)

At(j, step) == job[j].step = step
Goes(j, step) == job' = [job EXCEPT ![j].step = step]
LooksForDue(j) == job' = [job EXCEPT ![j].step = "due", ![j].export = Nothing]
Stops(j) == job' = [job EXCEPT ![j] = Resting]
JobOnly == UNCHANGED <<time, code, phone, account, req, deletion, handed>>

Start(j) ==
    /\ At(j, "resting")
    /\ job' = [job EXCEPT ![j] = [Resting EXCEPT !.step = "select", !.at = time]]
    /\ JobOnly /\ UNCHANGED <<rows, stored, faults, twice>>

\* One account has one export waiting at most, so a run finds one or none.
Select(j) ==
    /\ At(j, "select")
    /\ \/ \E e \in Exports :
             Waits(e) /\ job' = [job EXCEPT ![j].step = "read", ![j].export = e]
       \/ (\A e \in Exports : ~Waits(e)) /\ LooksForDue(j)
    /\ JobOnly /\ UNCHANGED <<rows, stored, faults, twice>>

\* The build reads the account, whatever became of the row, if it is there.
Build(j) ==
    /\ At(j, "read")
    /\ Goes(j, IF There(job[j].export) THEN "write" ELSE "count")
    /\ JobOnly /\ UNCHANGED <<rows, stored, faults, twice>>

Write(j) ==
    /\ At(j, "write")
    /\ stored' = stored \union {job[j].export} /\ Goes(j, "mark")
    /\ JobOnly /\ UNCHANGED <<rows, faults, twice>>

\* The build fails, or the write does, before the file is stored or after.
BuildFails(j) ==
    /\ job[j].step \in {"read", "write"}
    /\ Goes(j, "count")
    /\ \/ UNCHANGED stored
       \/ /\ At(j, "write")
          /\ stored' = stored \union {job[j].export}
    /\ JobOnly /\ UNCHANGED <<rows, faults, twice>>

\* An export is settled while others have it to build.
Settles(j, e, what) ==
    /\ told' = [told EXCEPT ![e] = Append(@, what)]
    /\ twice' = IF \E other \in Jobs \ {j} :
                     job[other].export = e /\ job[other].step \in {"read", "write"}
                THEN twice \union {e} ELSE twice

\* Variant: whatever was built is marked ready.
MayMarkAny(e) == There(e)

\* UPDATE ... WHERE it still waits: an overlapping run marks nothing twice.
MayMark(e) == Waits(e)

\* ck_ready_after_asked and ck_failed_never_ready refuse a time before it was
\* asked for, and the run ends.
TooEarly(j) == job[j].at < row[job[j].export].requested

Mark(j) ==
    LET e == job[j].export IN
    /\ At(j, "mark") /\ ~RowLocked(e)
    /\ \/ /\ MayMark(e) /\ ~TooEarly(j)
          /\ row' = [row EXCEPT ![e].ready = job[j].at]
          /\ Settles(j, e, "ready") /\ LooksForDue(j)
       \/ MayMark(e) /\ TooEarly(j) /\ Stops(j) /\ UNCHANGED <<rows, twice>>
       \/ ~MayMark(e) /\ LooksForDue(j) /\ UNCHANGED <<rows, twice>>
    /\ JobOnly /\ UNCHANGED <<stored, faults>>

\* Variant: the last try is never counted.
MayCountFewer(e) == Waits(e) /\ row[e].attempts + 1 < MaxTries

MayCount(e) == Waits(e) /\ row[e].attempts < MaxTries

\* One more failed try; the last marks it failed and tells the owner.
CountTry(j) ==
    LET e == job[j].export
        tries == row[e].attempts + 1
    IN
    /\ At(j, "count") /\ ~RowLocked(e)
    /\ \/ /\ MayCount(e) /\ tries < MaxTries
          /\ row' = [row EXCEPT ![e].attempts = tries]
          /\ LooksForDue(j) /\ UNCHANGED <<told, twice>>
       \/ /\ MayCount(e) /\ tries = MaxTries /\ ~TooEarly(j)
          /\ row' = [row EXCEPT ![e].attempts = tries, ![e].failed = TRUE]
          /\ Settles(j, e, "failed") /\ LooksForDue(j)
       \/ MayCount(e) /\ tries = MaxTries /\ TooEarly(j) /\ Stops(j) /\ UNCHANGED <<rows, twice>>
       \/ ~MayCount(e) /\ LooksForDue(j) /\ UNCHANGED <<rows, twice>>
    /\ JobOnly /\ UNCHANGED <<stored, faults>>

\* expires_at <= now, never downloaded, its file not yet destroyed.
Due(j) ==
    {e \in Exports : /\ There(e) /\ row[e].ready # Never /\ Expires(e) <= job[j].at
                     /\ ~row[e].downloaded /\ ~row[e].deleted}

SelectDue(j) ==
    /\ At(j, "due")
    /\ IF Due(j) = {} THEN Stops(j)
       ELSE job' = [job EXCEPT ![j].step = "destroy", ![j].due = Due(j)]
    /\ JobOnly /\ UNCHANGED <<rows, stored, faults, twice>>

DestroyDue(j) ==
    /\ At(j, "destroy")
    /\ \E e \in job[j].due :
          /\ stored' = stored \ {e}
          /\ job' = [job EXCEPT ![j].step = "record", ![j].export = e, ![j].due = @ \ {e}]
    /\ JobOnly /\ UNCHANGED <<rows, faults, twice>>

\* UPDATE ... SET file_deleted_at WHERE it is NULL.
Recorded(e) == IF There(e) THEN [row EXCEPT ![e].deleted = TRUE] ELSE row

RecordDue(j) ==
    /\ At(j, "record") /\ ~RowLocked(job[j].export)
    /\ row' = Recorded(job[j].export)
    /\ IF job[j].due = {} THEN Stops(j)
       ELSE job' = [job EXCEPT ![j].step = "destroy", ![j].export = Nothing]
    /\ JobOnly /\ UNCHANGED <<told, stored, faults, twice>>

\* A call of the storage raises in a run, or it dies; then it is taken up
\* again, from its start and with its own scheduled time, or not at all.
RunBreaksOff(j) ==
    /\ ~At(j, "resting") /\ faults < MaxFaults
    /\ faults' = faults + 1
    /\ \/ Stops(j)
       \/ job' = [job EXCEPT ![j] = [Resting EXCEPT !.step = "select", !.at = job[j].at]]
    /\ JobOnly /\ UNCHANGED <<rows, stored, twice>>

JobStep(j) ==
    \/ Select(j) \/ Build(j) \/ Write(j) \/ Mark(j) \/ CountTry(j)
    \/ SelectDue(j) \/ DestroyDue(j) \/ RecordDue(j)

-----------------------------------------------------------------------------
(* The deletion of the account. *)

AccountOnly == UNCHANGED <<time, phone, req, job, faults, told, handed, twice>>

\* The owner asked, no deal being unfinished, and the 30 days are over.
DeletionFallsDue ==
    /\ ~leaving /\ ~gone /\ ~deals
    /\ leaving' = TRUE
    /\ AccountOnly /\ UNCHANGED <<row, stored, code, deals, gone, deletion>>

CancelDeletion ==
    /\ leaving /\ ~gone
    /\ leaving' = FALSE
    /\ AccountOnly /\ UNCHANGED <<row, stored, code, deals, gone, deletion>>

DealsChange ==
    /\ ~gone
    /\ deals' = ~deals
    /\ AccountOnly /\ UNCHANGED <<row, stored, code, leaving, gone, deletion>>

Deleting(step) == deletion.step = step

\* destroy_files_of: what the rows say is still stored.
StartDeletion ==
    LET due == {e \in Exports : There(e) /\ row[e].ready # Never /\ ~row[e].deleted} IN
    /\ Deleting("resting") /\ leaving /\ ~gone
    /\ deletion' = [NoDeletion EXCEPT !.step = IF due = {} THEN "erase" ELSE "destroy",
                                      !.due = due]
    /\ AccountOnly /\ UNCHANGED <<row, stored, code, account>>

DestroyOwn ==
    /\ Deleting("destroy")
    /\ \E e \in deletion.due :
          /\ stored' = stored \ {e}
          /\ deletion' = [step |-> "record", export |-> e, due |-> deletion.due \ {e}]
    /\ AccountOnly /\ UNCHANGED <<row, code, account>>

RecordOwn ==
    /\ Deleting("record") /\ ~RowLocked(deletion.export)
    /\ row' = Recorded(deletion.export)
    /\ deletion' = [deletion EXCEPT !.export = Nothing,
                                    !.step = IF deletion.due = {} THEN "erase" ELSE "destroy"]
    /\ AccountOnly /\ UNCHANGED <<stored, code, account>>

\* Variant: only a file still stored holds the erasure up.
BlocksStored == \E e \in Exports : There(e) /\ row[e].ready # Never /\ ~row[e].deleted

\* blocks_erasure: one is being prepared, or a file of one is still stored.
BlocksErasure == \E e \in Exports : There(e) /\ ~row[e].deleted /\ ~row[e].failed

MayErase == leaving /\ ~deals /\ ~BlocksErasure

\* Under the phone's lock everything is looked at again: cancelled, held by a
\* deal or waiting for an export, it is left for the next run.
Erase ==
    /\ Deleting("erase") /\ phone = Nobody
    /\ deletion' = NoDeletion
    /\ IF MayErase
       THEN /\ gone' = TRUE /\ code' = Nothing
            /\ row' = [e \in Exports |->
                         IF There(e) THEN [Unasked EXCEPT !.is = "erased"] ELSE row[e]]
       ELSE UNCHANGED <<gone, code, row>>
    /\ AccountOnly /\ UNCHANGED <<stored, leaving, deals>>

DeletionBreaksOff ==
    /\ ~Deleting("resting") /\ faults < MaxFaults
    /\ faults' = faults + 1
    /\ deletion' = NoDeletion
    /\ UNCHANGED <<time, rows, stored, code, phone, account, req, job, handed, twice>>

-----------------------------------------------------------------------------
Tick ==
    /\ time < MaxTime
    /\ time' = time + 1
    /\ UNCHANGED <<rows, stored, code, phone, account, req, job, deletion, faults, handed,
                   twice>>

Answers(r) ==
    \/ Ask(r) \/ AskCode(r) \/ LockDownload(r) \/ Take(r) \/ HandOver(r)

Deletes == StartDeletion \/ DestroyOwn \/ RecordOwn \/ Erase

Next ==
    \/ \E r \in Requests : \E op \in {"ask", "code", "download"}, e \in Exports \union {Nothing} : Begin(r, op, e)
    \/ \E r \in Requests : Answers(r) \/ DownloadFails(r)
    \/ \E j \in Jobs : Start(j) \/ JobStep(j) \/ BuildFails(j) \/ RunBreaksOff(j)
    \/ DeletionFallsDue \/ CancelDeletion \/ DealsChange
    \/ Deletes \/ DeletionBreaksOff
    \/ Tick

Spec == Init /\ [][Next]_vars

\* A run is started again and again and, like a request, goes on once begun.
Fairness ==
    /\ WF_vars(\E j \in Jobs : Start(j))
    /\ \A j \in Jobs : WF_vars(JobStep(j))
    /\ \A r \in Requests : WF_vars(Answers(r))

FairSpec == Spec /\ Fairness

-----------------------------------------------------------------------------
(* What the exports keep. *)

\* A file is handed over once at most, however many ask for it at once, with
\* however many codes, whatever a run that overlaps writes again, and only a
\* file the owner was told of (download).
HandedOverOnce ==
    \A e \in Exports :
        /\ handed[e] <= 1
        /\ handed[e] = 1 => told[e] = <<"ready">> /\ (There(e) => row[e].downloaded)

\* An export is settled once, as ready or as failed and failed only when every
\* try was used, and its owner is told so once, although runs overlap, are
\* taken up again, or count a try of an export another run has made ready
\* (_build, _count_failed_try).
SettledOnce ==
    \A e \in Exports :
        /\ Len(told[e]) <= 1
        /\ There(e) =>
              /\ told[e] = IF row[e].failed THEN <<"failed">>
                           ELSE IF row[e].ready # Never THEN <<"ready">> ELSE <<>>
              /\ row[e].failed => row[e].attempts = MaxTries

\* A file in the bucket is one being prepared, or one a row says is still
\* stored, so that some later run finds it: erasing the account leaves none
\* behind.  Two ways are left to the bucket's own rule: a file that a run
\* wrote for an export given up as failed, and one that an overlapping run
\* wrote again after the other had settled it.
FilesAreAccountedFor ==
    \A e \in stored :
        \/ Waits(e)
        \/ There(e) /\ row[e].ready # Never /\ ~row[e].deleted
        \/ told[e] = <<"failed">> \/ e \in twice

\* An export that was asked for is made ready, or given up, in the end, and
\* the row of one that is ready says in the end that its file is gone, though
\* runs die and the storage fails a bounded number of times.
EveryExportEnds ==
    \A e \in Exports :
        /\ Waits(e) ~> ~Waits(e)
        /\ There(e) /\ row[e].ready # Never /\ Expires(e) <= time
              ~> row[e].deleted \/ ~There(e)

\* An export that is ready, and that nothing is at work on, has its file, as
\* its model says ("Ready means a file", export_models.py).
ReadyHasAFile ==
    \A e \in Exports :
        MayBeTaken(e, time) /\ ~RowLocked(e) /\ deletion = NoDeletion => e \in stored

=============================================================================
