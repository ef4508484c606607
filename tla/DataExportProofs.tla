-------------------------- MODULE DataExportProofs --------------------------
(* What DataExport keeps, for any number of exports, requests and runs, and  *)
(* for any bounds on the clock, the tries and the faults.                    *)
EXTENDS DataExport, TLAPS

USE NamesAssumption, LimitsAssumption

(* It was made once: a row that says so, or one erased since.                *)
Made(e) == row[e].is = "erased" \/ (There(e) /\ row[e].ready # Never)

(* Its file is gone, but for one that a run wrote again.                     *)
Cleared(e) == e \notin stored \/ e \in twice

(* Nobody has downloaded it: it stays so while its row is locked.            *)
Untaken(e) == There(e) /\ row[e].ready # Never /\ ~row[e].failed /\ ~row[e].downloaded

Accounted(e) ==
    \/ Waits(e)
    \/ There(e) /\ row[e].ready # Never /\ ~row[e].deleted
    \/ told[e] = <<"failed">> \/ e \in twice

ExportOK(e) ==
    /\ told[e] \in {<<>>, <<"ready">>, <<"failed">>}
    /\ row[e].is = "unasked" => told[e] = <<>>
    /\ There(e) =>
          /\ told[e] = IF row[e].failed THEN <<"failed">>
                       ELSE IF row[e].ready # Never THEN <<"ready">> ELSE <<>>
          /\ row[e].failed => row[e].attempts = MaxTries
          /\ row[e].deleted => row[e].ready # Never
    /\ handed[e] <= 1
    /\ handed[e] = 1 => told[e] = <<"ready">> /\ (There(e) => row[e].downloaded)
    /\ e \in stored => Accounted(e)

AtExport == {"read", "write", "mark", "count", "record"}
RunOK(q) ==
    /\ q.step # "resting" => q.at \in Times
    /\ q.step \in AtExport => q.export \in Exports
    /\ \A e \in q.due : Made(e)
    /\ q.step = "record" => Made(q.export) /\ Cleared(q.export)
    /\ q.step \in {"read", "write"} => Waits(q.export) \/ q.export \in twice

RequestOK(r) ==
    req[r] # Idle =>
        /\ req[r].op # "ask" => req[r].export \in Exports
        /\ req[r].step # "begun" =>
              req[r].op = "download" /\ phone = r /\ Untaken(req[r].export)
        /\ req[r].step = "commit" => Cleared(req[r].export)

DeletionOK ==
    /\ \A e \in deletion.due : Made(e)
    /\ deletion.step = "record" =>
          deletion.export \in Exports /\ Made(deletion.export) /\ Cleared(deletion.export)

ExportInv ==
    /\ TypeOK
    /\ \A e \in Exports : ExportOK(e)
    /\ \A j \in Jobs : RunOK(job[j])
    /\ \A r \in Requests : RequestOK(r)
    /\ DeletionOK

LEMMA Initially == Init => ExportInv
<1> SUFFICES ASSUME Init PROVE ExportInv
  OBVIOUS
<1> USE DEF Init, Never, Times
<1>1. Unasked \in Row
  BY DEF Unasked, Row
<1>2. TypeOK
  <2>1. Resting \in Run /\ NoDeletion \in Deletion
    BY DEF Resting, Run, NoDeletion, Deletion
  <2>2. time \in Times /\ 0 \in 0..MaxFaults
    OBVIOUS
  <2>3. told \in [Exports -> Seq({"ready", "failed"})]
    OBVIOUS
  <2>4. row \in [Exports -> Row] /\ job \in [Jobs -> Run] /\ handed \in [Exports -> Nat]
    BY <1>1, <2>1
  <2> QED
    BY <2>1, <2>2, <2>3, <2>4 DEF TypeOK
<1>3. \A e \in Exports : ExportOK(e)
  BY DEF ExportOK, There, Unasked
<1>4. \A j \in Jobs : RunOK(job[j])
  BY DEF RunOK, Resting, AtExport
<1>5. \A r \in Requests : RequestOK(r)
  BY DEF RequestOK
<1>6. DeletionOK
  BY DEF DeletionOK, NoDeletion
<1> QED
  BY <1>2, <1>3, <1>4, <1>5, <1>6 DEF ExportInv

-----------------------------------------------------------------------------
(* What a step leaves alone stays in order.                                  *)

records == <<row, told, handed, stored, twice>>

LEMMA ExportsStay ==
    ASSUME ExportInv, UNCHANGED records
    PROVE  \A e \in Exports : ExportOK(e)'
BY DEF ExportInv, ExportOK, Accounted, Waits, There, records

LEMMA RunStays ==
    ASSUME UNCHANGED records, NEW q, RunOK(q)
    PROVE  RunOK(q)'
BY DEF RunOK, Made, Cleared, Waits, There, records

LEMMA RunsStay ==
    ASSUME ExportInv, UNCHANGED <<records, job>>
    PROVE  \A j \in Jobs : RunOK(job[j])'
BY DEF ExportInv, RunOK, Made, Cleared, Waits, There, records

LEMMA RequestsStay ==
    ASSUME ExportInv, UNCHANGED <<records, req, phone>>
    PROVE  \A r \in Requests : RequestOK(r)'
BY DEF ExportInv, RequestOK, Untaken, Cleared, There, records

LEMMA DeletionStays ==
    ASSUME ExportInv, UNCHANGED <<records, deletion>>
    PROVE  DeletionOK'
BY DEF ExportInv, DeletionOK, Made, Cleared, There, records

(* One run goes on, and touches no export.                                   *)
LEMMA RunMoves ==
    ASSUME ExportInv, NEW j \in Jobs, NEW q \in Run, job' = [job EXCEPT ![j] = q], RunOK(q),
           UNCHANGED <<records, time, code, phone, account, req, deletion>>,
           faults' \in 0..MaxFaults
    PROVE  ExportInv'
<1>1. TypeOK'
  BY DEF ExportInv, TypeOK, records, account
<1>2. \A k \in Jobs : RunOK(job[k])'
  <2> SUFFICES ASSUME NEW k \in Jobs PROVE RunOK(job[k])'
    OBVIOUS
  <2>1. job'[k] = (IF k = j THEN q ELSE job[k])
    BY DEF ExportInv, TypeOK
  <2>2. RunOK(job'[k])
    BY <2>1 DEF ExportInv
  <2> QED
    BY <2>2 DEF RunOK, Made, Cleared, Waits, There, records
<1> QED
  BY <1>1, <1>2, ExportsStay, RequestsStay, DeletionStays DEF ExportInv

(* One request goes on, and touches no export but the lock of its row.       *)
LEMMA RequestMoves ==
    ASSUME ExportInv, NEW r \in Requests, NEW q \in Request \union {Idle},
           req' = [req EXCEPT ![r] = q], RequestOK(r)',
           phone' \in Requests \union {Nobody}, phone' # phone => phone \in {Nobody, r},
           code' \in Exports \union {Nothing},
           UNCHANGED <<records, time, account, job, deletion>>, faults' \in 0..MaxFaults
    PROVE  ExportInv'
<1>1. TypeOK'
  BY DEF ExportInv, TypeOK, records, account
<1>2. \A s \in Requests : RequestOK(s)'
  <2> SUFFICES ASSUME NEW s \in Requests, s # r PROVE RequestOK(s)'
    OBVIOUS
  <2>1. req'[s] = req[s] /\ RequestOK(s)
    BY DEF ExportInv, TypeOK
  <2> QED
    BY <2>1 DEF RequestOK, Untaken, Cleared, There, records
<1> QED
  BY <1>1, <1>2, ExportsStay, RunsStay, DeletionStays DEF ExportInv

(* The deletion goes on, and touches no export.                              *)
LEMMA DeletionMoves ==
    ASSUME ExportInv, deletion' \in Deletion, DeletionOK',
           UNCHANGED <<records, time, code, phone, req, job>>,
           leaving' \in BOOLEAN, deals' \in BOOLEAN, UNCHANGED gone,
           faults' \in 0..MaxFaults
    PROVE  ExportInv'
<1>1. TypeOK'
  BY DEF ExportInv, TypeOK, records
<1> QED
  BY <1>1, ExportsStay, RunsStay, RequestsStay DEF ExportInv

-----------------------------------------------------------------------------
(* What changes a file or a row leaves everybody else in order.              *)

(* A run writes only the file of an export it found waiting.                 *)
LEMMA FileWritten ==
    ASSUME ExportInv, NEW e \in Exports, Waits(e) \/ e \in twice,
           stored' = stored \union {e}, UNCHANGED <<row, told, handed, twice>>
    PROVE  /\ \A x \in Exports : ExportOK(x)'
           /\ \A q \in Run : RunOK(q) => RunOK(q)'
           /\ \A r \in Requests : req'[r] = req[r] /\ phone' = phone => RequestOK(r)'
           /\ UNCHANGED deletion => DeletionOK'
<1>1. \A x \in Exports : ExportOK(x)'
  BY DEF ExportInv, ExportOK, Accounted, Waits, There
<1>2. \A x : Made(x) \/ Untaken(x) => (Cleared(x) => Cleared(x)')
  BY DEF Made, Untaken, Cleared, Waits, There
<1>3. \A x : (Made(x) => Made(x)') /\ (Untaken(x) => Untaken(x)') /\ (Waits(x) => Waits(x)')
  BY DEF Made, Untaken, Waits, There
<1>4. \A q \in Run : RunOK(q) => RunOK(q)'
  BY <1>2, <1>3 DEF RunOK
<1>5. \A r \in Requests : req'[r] = req[r] /\ phone' = phone => RequestOK(r)'
  <2> SUFFICES ASSUME NEW r \in Requests, req'[r] = req[r], phone' = phone
               PROVE  RequestOK(r)'
    OBVIOUS
  <2>1. RequestOK(r) /\ (req[r] # Idle => req[r] \in Request)
    BY DEF ExportInv, TypeOK
  <2> QED
    BY <1>2, <1>3, <2>1 DEF RequestOK, Request
<1>6. UNCHANGED deletion => DeletionOK'
  BY <1>2, <1>3 DEF ExportInv, DeletionOK
<1> QED
  BY <1>1, <1>4, <1>5, <1>6

(* A file destroyed is missed by nobody.                                     *)
LEMMA FileDestroyed ==
    ASSUME ExportInv, NEW e, stored' = stored \ {e}, UNCHANGED <<row, told, handed, twice>>
    PROVE  /\ \A x \in Exports : ExportOK(x)'
           /\ \A q \in Run : RunOK(q) => RunOK(q)'
           /\ \A r \in Requests : req'[r] = req[r] /\ phone' = phone => RequestOK(r)'
           /\ UNCHANGED deletion => DeletionOK'
           /\ Cleared(e)'
<1>1. \A x \in Exports : ExportOK(x)'
  BY DEF ExportInv, ExportOK, Accounted, Waits, There
<1>2. \A q \in Run : RunOK(q) => RunOK(q)'
  BY DEF RunOK, Made, Cleared, Waits, There
<1>3. \A r \in Requests : req'[r] = req[r] /\ phone' = phone => RequestOK(r)'
  BY DEF ExportInv, RequestOK, Untaken, Cleared, There
<1>4. UNCHANGED deletion => DeletionOK'
  BY DEF ExportInv, DeletionOK, Made, Cleared, There
<1> QED
  BY <1>1, <1>2, <1>3, <1>4 DEF Cleared

(* One row changes, and was and stays made if it was.                        *)
LEMMA RowChanged ==
    ASSUME ExportInv, NEW e \in Exports, NEW new \in Row, row' = [row EXCEPT ![e] = new],
           stored' = stored, twice \subseteq twice',
           \A x \in Exports \ {e} : told'[x] = told[x] /\ handed'[x] = handed[x],
           Made(e) => new.is = "erased" \/ (new.is = "there" /\ new.ready # Never)
    PROVE  /\ \A x \in Exports \ {e} : ExportOK(x)'
           /\ \A q \in Run :
                 RunOK(q) /\ (q.step \in {"read", "write"} /\ q.export = e
                                => Waits(e)' \/ e \in twice')
                   => RunOK(q)'
           /\ \A r \in Requests :
                 req'[r] = req[r] /\ (req[r] # Idle /\ req[r].step # "begun"
                                          => phone' = phone /\ req[r].export # e)
                   => RequestOK(r)'
           /\ UNCHANGED deletion => DeletionOK'
<1>1. \A x \in Exports : x # e => row'[x] = row[x]
  BY DEF ExportInv, TypeOK
<1>2. row'[e] = new
  BY DEF ExportInv, TypeOK
<1>3. \A x \in Exports \ {e} : ExportOK(x)'
  BY <1>1 DEF ExportInv, ExportOK, Accounted, Waits, There
<1>4. \A x \in Exports : (Made(x) => Made(x)') /\ (Cleared(x) => Cleared(x)')
  BY <1>1, <1>2 DEF Made, Cleared, There
<1>5. \A q \in Run :
         RunOK(q) /\ (q.step \in {"read", "write"} /\ q.export = e => Waits(e)' \/ e \in twice')
            => RunOK(q)'
  <2> SUFFICES ASSUME NEW q \in Run, RunOK(q),
                      q.step \in {"read", "write"} /\ q.export = e => Waits(e)' \/ e \in twice'
               PROVE  RunOK(q)'
    OBVIOUS
  <2>1. q.due \subseteq Exports
    BY DEF Run
  <2>2. q.step \in {"read", "write"} => Waits(q.export)' \/ q.export \in twice'
    BY <1>1 DEF RunOK, AtExport, Waits, There
  <2> QED
    BY <1>4, <2>1, <2>2 DEF RunOK, AtExport
<1>6. \A r \in Requests :
         req'[r] = req[r] /\ (req[r] # Idle /\ req[r].step # "begun"
                                  => phone' = phone /\ req[r].export # e)
           => RequestOK(r)'
  <2> SUFFICES ASSUME NEW r \in Requests, req'[r] = req[r],
                      req[r] # Idle /\ req[r].step # "begun"
                         => phone' = phone /\ req[r].export # e
               PROVE  RequestOK(r)'
    OBVIOUS
  <2>a. CASE req[r] = Idle
    BY <2>a DEF RequestOK
  <2> SUFFICES ASSUME req[r] # Idle PROVE RequestOK(r)'
    BY <2>a
  <2>1. RequestOK(r) /\ req[r] \in Request
    BY DEF ExportInv, TypeOK
  <2>2. CASE req[r].step = "begun"
    BY <2>1, <2>2 DEF RequestOK, Request
  <2>3. CASE req[r].step # "begun"
    <3>1. req[r].export \in Exports /\ req[r].export # e /\ phone' = phone
      BY <2>1, <2>3 DEF RequestOK, Request
    <3>2. Untaken(req[r].export) => Untaken(req[r].export)'
      BY <1>1, <3>1 DEF Untaken, There
    <3> QED
      BY <1>4, <2>1, <2>3, <3>1, <3>2 DEF RequestOK
  <2> QED
    BY <2>2, <2>3
<1>7. UNCHANGED deletion => DeletionOK'
  <2>1. deletion.due \subseteq Exports
    BY DEF ExportInv, TypeOK, Deletion
  <2> QED
    BY <1>4, <2>1 DEF ExportInv, DeletionOK
<1> QED
  BY <1>3, <1>5, <1>6, <1>7

-----------------------------------------------------------------------------
(* The owner's requests.                                                     *)

LEMMA Going ==
    ASSUME ExportInv, NEW r \in Requests, req[r] # Idle
    PROVE  req[r] \in Request /\ RequestOK(r)
BY DEF ExportInv, TypeOK

LEMMA BeginKeeps ==
    ASSUME ExportInv, NEW r \in Requests, NEW op \in {"ask", "code", "download"},
           NEW e \in Exports \union {Nothing}, Begin(r, op, e)
    PROVE  ExportInv'
<1> DEFINE q == [op |-> op, export |-> e, now |-> time, step |-> "begun"]
<1>1. q \in Request
  BY DEF ExportInv, TypeOK, Request
<1>2. req' = [req EXCEPT ![r] = q] /\ (op # "ask" => e \in Exports)
  BY DEF Begin
<1>3. RequestOK(r)'
  BY <1>2 DEF RequestOK, ExportInv, TypeOK
<1> HIDE DEF q
<1>4. phone' = phone /\ code' = code /\ faults' = faults
  BY DEF Begin
<1>5. UNCHANGED <<records, time, account, job, deletion>>
  BY DEF Begin, records, rows
<1>6. /\ phone \in Requests \union {Nobody} /\ code \in Exports \union {Nothing}
      /\ faults \in 0..MaxFaults
  BY DEF ExportInv, TypeOK
<1> QED
  BY <1>1, <1>2, <1>3, <1>4, <1>5, <1>6, RequestMoves

LEMMA EndsOK ==
    ASSUME ExportInv, NEW r \in Requests, Ends(r)
    PROVE  RequestOK(r)' /\ req' = [req EXCEPT ![r] = Idle]
BY DEF Ends, RequestOK, ExportInv, TypeOK

LEMMA AskKeeps ==
    ASSUME ExportInv, NEW r \in Requests, Ask(r)
    PROVE  ExportInv'
<1>1. req[r] \in Request /\ RequestOK(r)'
  BY Going, EndsOK DEF Ask
<1>2. CASE row' = row
  <2>1. /\ phone' = phone /\ code' = code /\ faults' = faults
        /\ UNCHANGED <<records, time, account, job, deletion>>
    BY <1>2 DEF Ask, records
  <2>2. /\ phone \in Requests \union {Nobody} /\ code \in Exports \union {Nothing}
        /\ faults \in 0..MaxFaults
    BY DEF ExportInv, TypeOK
  <2> QED
    BY <1>1, <2>1, <2>2, EndsOK, RequestMoves DEF Ask
<1>3. CASE row' # row
  <2>1. PICK e \in Exports :
          /\ row[e].is = "unasked"
          /\ row' = [row EXCEPT ![e] = [Unasked EXCEPT !.is = "there",
                                                       !.requested = req[r].now]]
    BY <1>3 DEF Ask
  <2> DEFINE new == [Unasked EXCEPT !.is = "there", !.requested = req[r].now]
  <2>2. new \in Row /\ new.is = "there" /\ new.ready = Never /\ ~new.failed /\ ~new.deleted
    <3>1. req[r].now \in Times
      BY <1>1 DEF Request
    <3>2. Unasked \in Row /\ Unasked.ready = Never /\ ~Unasked.failed /\ ~Unasked.deleted
      BY DEF Unasked, Row, Never
    <3> QED
      BY <3>1, <3>2 DEF Row
  <2>3. row'[e] = new
    BY <2>1 DEF ExportInv, TypeOK
  <2> HIDE DEF new
  <2>4. UNCHANGED <<time, stored, code, phone, account, job, deletion, faults, told, handed, twice>>
    BY DEF Ask
  <2>5. ~Made(e) /\ ~Waits(e)
    BY <2>1 DEF Made, Waits, There
  <2>6. /\ \A x \in Exports \ {e} : ExportOK(x)'
        /\ \A q \in Run : RunOK(q) /\ (q.step \in {"read", "write"} /\ q.export = e
                                         => Waits(e)' \/ e \in twice') => RunOK(q)'
        /\ \A s \in Requests :
              req'[s] = req[s] /\ (req[s] # Idle /\ req[s].step # "begun"
                                       => phone' = phone /\ req[s].export # e)
                => RequestOK(s)'
        /\ DeletionOK'
    BY <2>1, <2>2, <2>4, <2>5, RowChanged DEF new
  <2>7. Waits(e)'
    BY <2>2, <2>3 DEF Waits, There
  <2>8. ExportOK(e)'
    <3>1. told'[e] = <<>> /\ handed'[e] <= 1
      BY <2>1, <2>4 DEF ExportInv, ExportOK
    <3>2. handed'[e] # 1
      <4>1. <<>> # <<"ready">>
        OBVIOUS
      <4> QED
        BY <2>1, <2>4, <4>1 DEF ExportInv, ExportOK
    <3> QED
      BY <2>2, <2>3, <2>7, <3>1, <3>2 DEF ExportOK, Accounted, There
  <2>9. \A s \in Requests : RequestOK(s)'
    <3> SUFFICES ASSUME NEW s \in Requests, s # r PROVE RequestOK(s)'
      BY <1>1
    <3>1. req'[s] = req[s]
      BY EndsOK DEF Ask, ExportInv, TypeOK
    <3>2. CASE req[s] = Idle \/ req[s].step = "begun" \/ req[s].export # e
      BY <2>4, <2>6, <3>1, <3>2
    <3>3. CASE req[s] # Idle /\ req[s].step # "begun" /\ req[s].export = e
      BY <2>1, <3>3 DEF ExportInv, RequestOK, Untaken, There
    <3> QED
      BY <3>2, <3>3
  <2>10. \A j \in Jobs : RunOK(job[j])'
    BY <2>4, <2>6, <2>7 DEF ExportInv, TypeOK
  <2>11. TypeOK'
    BY <2>1, <2>2, <2>4, EndsOK DEF Ask, ExportInv, TypeOK, new, account
  <2> QED
    BY <2>6, <2>8, <2>9, <2>10, <2>11 DEF ExportInv
<1> QED
  BY <1>2, <1>3

LEMMA AskCodeKeeps ==
    ASSUME ExportInv, NEW r \in Requests, AskCode(r)
    PROVE  ExportInv'
<1>1. req[r].export \in Exports /\ RequestOK(r)' /\ req' = [req EXCEPT ![r] = Idle]
  BY Going, EndsOK DEF AskCode, RequestOK
<1>2. /\ phone' = phone /\ faults' = faults /\ code' \in {req[r].export, code}
      /\ UNCHANGED <<records, time, account, job, deletion>>
  BY DEF AskCode, records, rows
<1>3. /\ phone \in Requests \union {Nobody} /\ code \in Exports \union {Nothing}
      /\ faults \in 0..MaxFaults
  BY DEF ExportInv, TypeOK
<1> QED
  BY <1>1, <1>2, <1>3, RequestMoves

LEMMA LockDownloadKeeps ==
    ASSUME ExportInv, NEW r \in Requests, LockDownload(r)
    PROVE  ExportInv'
<1> DEFINE e == req[r].export
<1>1. req[r] \in Request /\ e \in Exports /\ req[r].op = "download" /\ req[r].step = "begun"
  BY Going DEF LockDownload, RequestOK
<1>2. /\ code' = code /\ faults' = faults
      /\ UNCHANGED <<records, time, account, job, deletion>>
  BY DEF LockDownload, records, rows
<1>3. /\ phone = Nobody /\ code \in Exports \union {Nothing} /\ faults \in 0..MaxFaults
  BY DEF LockDownload, ExportInv, TypeOK
<1>4. CASE phone' = phone /\ Ends(r)
  BY <1>2, <1>3, <1>4, EndsOK, RequestMoves
<1>5. CASE /\ There(e) /\ MayBeTaken(e, req[r].now)
           /\ phone' = r /\ req' = [req EXCEPT ![r].step = "take"]
  <2> DEFINE q == [req[r] EXCEPT !.step = "take"]
  <2>1. q \in Request /\ q.op = "download" /\ q.step = "take" /\ q.export = e
    BY <1>1 DEF Request
  <2>2. req' = [req EXCEPT ![r] = q] /\ req'[r] = q
    BY <1>5 DEF ExportInv, TypeOK
  <2>3. Untaken(e)'
    BY <1>2, <1>5 DEF Untaken, MayBeTaken, StatusOf, There, records
  <2> HIDE DEF q
  <2>4. RequestOK(r)'
    BY <1>1, <1>5, <2>1, <2>2, <2>3 DEF RequestOK
  <2> QED
    BY <1>2, <1>3, <1>5, <2>1, <2>2, <2>4, RequestMoves
<1> QED
  BY <1>4, <1>5 DEF LockDownload

LEMMA TakeKeeps ==
    ASSUME ExportInv, NEW r \in Requests, Take(r)
    PROVE  ExportInv'
<1> DEFINE e == req[r].export
<1>1. /\ req[r] \in Request /\ e \in Exports /\ req[r].op = "download" /\ phone = r
      /\ Untaken(e)
  BY Going DEF Take, Answering, RequestOK
<1>2. UNCHANGED <<time, rows, code, account, job, deletion, faults, handed, twice>>
  BY DEF Take
<1>3. CASE stored' = stored /\ LetsGo(r)
  <2>1. /\ UNCHANGED <<records, time, account, job, deletion>>
        /\ code' = code /\ faults' = faults /\ phone' = Nobody
    BY <1>2, <1>3 DEF records, rows, LetsGo
  <2>2. code \in Exports \union {Nothing} /\ faults \in 0..MaxFaults
    BY DEF ExportInv, TypeOK
  <2> QED
    BY <1>1, <1>3, <2>1, <2>2, EndsOK, RequestMoves DEF LetsGo
<1>4. CASE /\ stored' = stored \ {e} /\ phone' = phone
           /\ req' = [req EXCEPT ![r].step = "commit"]
  <2>1. /\ \A x \in Exports : ExportOK(x)'
        /\ \A q \in Run : RunOK(q) => RunOK(q)'
        /\ \A s \in Requests : req'[s] = req[s] /\ phone' = phone => RequestOK(s)'
        /\ DeletionOK' /\ Cleared(e)'
    BY <1>2, <1>4, FileDestroyed DEF rows
  <2> DEFINE q == [req[r] EXCEPT !.step = "commit"]
  <2>2. q \in Request /\ q.op = "download" /\ q.step = "commit" /\ q.export = e
    BY <1>1 DEF Request
  <2>3. req' = [req EXCEPT ![r] = q] /\ req'[r] = q
    BY <1>4 DEF ExportInv, TypeOK
  <2> HIDE DEF q
  <2>4. Untaken(e)'
    BY <1>1, <1>2, <2>2, <2>3 DEF Untaken, There, rows
  <2>5. RequestOK(r)'
    BY <1>1, <1>4, <2>1, <2>2, <2>3, <2>4 DEF RequestOK
  <2>6. \A s \in Requests : RequestOK(s)'
    BY <1>4, <2>1, <2>5 DEF ExportInv, TypeOK
  <2>7. TypeOK'
    BY <1>2, <1>4, <2>2, <2>3 DEF ExportInv, TypeOK, rows, account
  <2>8. \A j \in Jobs : RunOK(job[j])'
    BY <1>2, <2>1 DEF ExportInv, TypeOK
  <2> QED
    BY <2>1, <2>6, <2>7, <2>8 DEF ExportInv
<1> QED
  BY <1>3, <1>4 DEF Take

LEMMA DownloadFailsKeeps ==
    ASSUME ExportInv, NEW r \in Requests, DownloadFails(r)
    PROVE  ExportInv'
<1>1. /\ RequestOK(r)' /\ req' = [req EXCEPT ![r] = Idle] /\ phone = r
  BY Going, EndsOK DEF DownloadFails, LetsGo, RequestOK
<1>2. /\ phone' = Nobody /\ code' = code /\ faults' = faults + 1 /\ faults < MaxFaults
      /\ UNCHANGED <<records, time, account, job, deletion>>
  BY DEF DownloadFails, LetsGo, records, rows
<1>3. code \in Exports \union {Nothing} /\ faults' \in 0..MaxFaults
  BY <1>2 DEF ExportInv, TypeOK
<1> QED
  BY <1>1, <1>2, <1>3, RequestMoves

LEMMA HandOverKeeps ==
    ASSUME ExportInv, NEW r \in Requests, HandOver(r)
    PROVE  ExportInv'
<1>e. PICK e : e = req[r].export
  OBVIOUS
<1>n. PICK new : new = [row[e] EXCEPT !.downloaded = TRUE, !.deleted = TRUE]
  OBVIOUS
<1>1. /\ req[r] \in Request /\ e \in Exports /\ phone = r
      /\ Untaken(e) /\ Cleared(e)
  BY <1>e, Going DEF HandOver, Answering, RequestOK
<1>2. /\ UNCHANGED <<time, stored, account, job, deletion, faults, told, twice>>
      /\ handed' = [handed EXCEPT ![e] = @ + 1]
      /\ row' = [row EXCEPT ![e].downloaded = TRUE, ![e].deleted = TRUE]
      /\ req' = [req EXCEPT ![r] = Idle] /\ phone' = Nobody /\ code' = Nothing
  BY <1>e DEF HandOver, LetsGo, Ends
<1>3. RequestOK(r)'
  BY EndsOK DEF HandOver, LetsGo
<1>4. /\ row[e] \in Row /\ ExportOK(e) /\ handed[e] \in Nat
  BY <1>1 DEF ExportInv, TypeOK
<1>5. /\ new \in Row /\ new.is = "there" /\ new.ready = row[e].ready /\ new.ready # Never
      /\ ~new.failed /\ new.downloaded /\ new.deleted
  BY <1>n, <1>1, <1>4 DEF Row, Untaken, There
<1>6. row' = [row EXCEPT ![e] = new]
  BY <1>n, <1>2, <1>4 DEF Row
<1>7. row'[e] = new /\ handed'[e] = handed[e] + 1
  BY <1>1, <1>2, <1>6 DEF ExportInv, TypeOK
<1>8. /\ \A x \in Exports \ {e} : ExportOK(x)'
      /\ \A q \in Run : RunOK(q) /\ (q.step \in {"read", "write"} /\ q.export = e
                                       => Waits(e)' \/ e \in twice') => RunOK(q)'
      /\ \A s \in Requests :
            req'[s] = req[s] /\ (req[s] # Idle /\ req[s].step # "begun"
                                     => phone' = phone /\ req[s].export # e)
              => RequestOK(s)'
      /\ DeletionOK'
  <2>1. \A x \in Exports \ {e} : told'[x] = told[x] /\ handed'[x] = handed[x]
    BY <1>2 DEF ExportInv, TypeOK
  <2> QED
    BY ZenonT(40), <1>1, <1>2, <1>5, <1>6, <2>1, RowChanged
<1>9. ExportOK(e)'
  <2>1. told'[e] = <<"ready">> /\ handed[e] = 0
    BY <1>1, <1>2, <1>4 DEF ExportOK, Untaken
  <2>2. e \in stored' => Accounted(e)'
    BY <1>1, <1>2 DEF Cleared, Accounted
  <2> QED
    BY <1>5, <1>7, <2>1, <2>2 DEF ExportOK, There
<1>10. \A s \in Requests : RequestOK(s)'
  <2> SUFFICES ASSUME NEW s \in Requests, s # r PROVE RequestOK(s)'
    BY <1>3
  <2>1. req'[s] = req[s] /\ RequestOK(s)
    BY <1>2 DEF ExportInv, TypeOK
  <2>2. req[s] = Idle \/ req[s].step = "begun"
    BY <1>1, <2>1 DEF RequestOK
  <2> QED
    BY <1>8, <2>1, <2>2
<1>11. \A j \in Jobs : RunOK(job[j])'
  <2> SUFFICES ASSUME NEW j \in Jobs PROVE RunOK(job[j])'
    OBVIOUS
  <2>1. job'[j] = job[j] /\ job[j] \in Run /\ RunOK(job[j])
    BY <1>2 DEF ExportInv, TypeOK
  <2>2. job[j].step \in {"read", "write"} /\ job[j].export = e => e \in twice'
    BY <1>1, <1>2, <2>1 DEF RunOK, Waits, Untaken
  <2> QED
    BY <1>8, <2>1, <2>2
<1>12. TypeOK'
  <2>1. row' \in [Exports -> Row]
    BY <1>1, <1>5, <1>6 DEF ExportInv, TypeOK
  <2>2. handed' \in [Exports -> Nat]
    <3>1. handed \in [Exports -> Nat] /\ handed[e] + 1 \in Nat
      BY <1>4 DEF ExportInv, TypeOK
    <3>2. handed' = [handed EXCEPT ![e] = handed[e] + 1]
      BY <1>2
    <3> QED
      BY <3>1, <3>2
  <2>3. req' \in [Requests -> Request \union {Idle}]
    BY <1>2 DEF ExportInv, TypeOK
  <2> QED
    BY <1>2, <2>1, <2>2, <2>3 DEF ExportInv, TypeOK, account
<1> QED
  BY <1>8, <1>9, <1>10, <1>11, <1>12 DEF ExportInv

-----------------------------------------------------------------------------
(* The job.                                                                  *)

LEMMA Running ==
    ASSUME ExportInv, NEW j \in Jobs
    PROVE  job[j] \in Run /\ RunOK(job[j])
BY DEF ExportInv, TypeOK

(* A run that has done with one export holds none.                           *)
LEMMA LookingOK ==
    ASSUME ExportInv, NEW j \in Jobs, job[j].step # "resting", LooksForDue(j)
    PROVE  \E q \in Run : job' = [job EXCEPT ![j] = q] /\ RunOK(q) /\ q.step = "due"
<1> DEFINE q == [job[j] EXCEPT !.step = "due", !.export = Nothing]
<1>1. q \in Run /\ q.step = "due" /\ q.at = job[j].at /\ q.due = job[j].due
  BY Running DEF Run
<1>2. job' = [job EXCEPT ![j] = q]
  BY Running DEF LooksForDue, Run
<1> HIDE DEF q
<1>3. RunOK(q)
  BY <1>1, Running DEF RunOK, AtExport
<1> QED
  BY <1>1, <1>2, <1>3

LEMMA StoppingOK ==
    ASSUME NEW j \in Jobs, Stops(j)
    PROVE  /\ job' = [job EXCEPT ![j] = Resting] /\ Resting \in Run /\ RunOK(Resting)
           /\ Resting.step = "resting"
BY DEF Stops, Resting, Run, RunOK, AtExport

(* A run that begins, or begins again, at the time it was scheduled for.     *)
LEMMA BeginningOK ==
    ASSUME NEW at \in Times
    PROVE  /\ [Resting EXCEPT !.step = "select", !.at = at] \in Run
           /\ RunOK([Resting EXCEPT !.step = "select", !.at = at])
<1> DEFINE q == [Resting EXCEPT !.step = "select", !.at = at]
<1>1. q \in Run /\ q.step = "select" /\ q.at = at /\ q.due = {}
  BY DEF Resting, Run
<1> HIDE DEF q
<1>2. RunOK(q)
  BY <1>1 DEF RunOK, AtExport
<1> QED
  BY <1>1, <1>2 DEF q

LEMMA StartKeeps ==
    ASSUME ExportInv, NEW j \in Jobs, Start(j)
    PROVE  ExportInv'
<1>1. time \in Times /\ faults \in 0..MaxFaults
  BY DEF ExportInv, TypeOK
<1>2. /\ UNCHANGED <<records, time, code, phone, account, req, deletion>>
      /\ faults' = faults
  BY DEF Start, JobOnly, records, rows
<1>3. job' = [job EXCEPT ![j] = [Resting EXCEPT !.step = "select", !.at = time]]
  BY DEF Start
<1> QED
  BY <1>1, <1>2, <1>3, BeginningOK, RunMoves

LEMMA RunBreaksOffKeeps ==
    ASSUME ExportInv, NEW j \in Jobs, RunBreaksOff(j)
    PROVE  ExportInv'
<1>1. /\ UNCHANGED <<records, time, code, phone, account, req, deletion>>
      /\ faults' \in 0..MaxFaults
  BY DEF RunBreaksOff, JobOnly, records, rows, ExportInv, TypeOK
<1>2. CASE Stops(j)
  BY <1>1, <1>2, StoppingOK, RunMoves
<1>3. CASE job' = [job EXCEPT ![j] = [Resting EXCEPT !.step = "select", !.at = job[j].at]]
  <2>1. job[j].at \in Times
    BY Running DEF RunBreaksOff, At, RunOK
  <2> QED
    BY <1>1, <1>3, <2>1, BeginningOK, RunMoves
<1> QED
  BY <1>2, <1>3 DEF RunBreaksOff

LEMMA SelectKeeps ==
    ASSUME ExportInv, NEW j \in Jobs, Select(j)
    PROVE  ExportInv'
<1>1. /\ UNCHANGED <<records, time, code, phone, account, req, deletion>>
      /\ faults' \in 0..MaxFaults
  BY DEF Select, JobOnly, records, rows, ExportInv, TypeOK
<1>2. job[j].step = "select"
  BY DEF Select, At
<1>3. CASE LooksForDue(j)
  BY <1>1, <1>2, <1>3, LookingOK, RunMoves
<1>4. CASE \E e \in Exports :
             Waits(e) /\ job' = [job EXCEPT ![j].step = "read", ![j].export = e]
  <2>1. PICK e \in Exports :
          Waits(e) /\ job' = [job EXCEPT ![j].step = "read", ![j].export = e]
    BY <1>4
  <2>2. PICK q : q = [job[j] EXCEPT !.step = "read", !.export = e]
    OBVIOUS
  <2>3. /\ q \in Run /\ q.step = "read" /\ q.export = e /\ q.at = job[j].at
        /\ q.due = job[j].due
    BY <2>2, Running DEF Run
  <2>4. job' = [job EXCEPT ![j] = q]
    BY <2>1, <2>2, Running DEF Run
  <2>5. RunOK(q)
    BY <1>2, <2>1, <2>3, Running DEF RunOK, AtExport
  <2> QED
    BY <1>1, <2>3, <2>4, <2>5, RunMoves
<1> QED
  BY <1>3, <1>4 DEF Select

(* A run's next step, with the same export.                                  *)
LEMMA GoingOn ==
    ASSUME ExportInv, NEW j \in Jobs, NEW step, Goes(j, step),
           step \in {"write", "mark", "count"}, job[j].step \in {"read", "write"}
    PROVE  \E q \in Run :
              /\ job' = [job EXCEPT ![j] = q] /\ RunOK(q)
              /\ q.step = step /\ q.export = job[j].export
<1>1. PICK q : q = [job[j] EXCEPT !.step = step]
  OBVIOUS
<1>2. /\ q \in Run /\ q.step = step /\ q.export = job[j].export /\ q.at = job[j].at
      /\ q.due = job[j].due
  BY <1>1, Running DEF Run
<1>3. job' = [job EXCEPT ![j] = q]
  BY <1>1, Running DEF Goes, Run
<1>4. RunOK(q)
  BY <1>2, Running DEF RunOK, AtExport
<1> QED
  BY <1>2, <1>3, <1>4

LEMMA BuildKeeps ==
    ASSUME ExportInv, NEW j \in Jobs, Build(j)
    PROVE  ExportInv'
<1>1. /\ UNCHANGED <<records, time, code, phone, account, req, deletion>>
      /\ faults' \in 0..MaxFaults
  BY DEF Build, JobOnly, records, rows, ExportInv, TypeOK
<1>2. job[j].step = "read" /\ (Goes(j, "write") \/ Goes(j, "count"))
  BY DEF Build, At
<1> QED
  BY <1>1, <1>2, GoingOn, RunMoves

(* Where a run writes its file, before the row says so.                      *)
LEMMA WritingKeeps ==
    ASSUME ExportInv, NEW j \in Jobs, NEW step, step \in {"mark", "count"}, Goes(j, step),
           job[j].step = "write", stored' = stored \union {job[j].export},
           UNCHANGED <<rows, time, code, phone, account, req, deletion, faults, handed, twice>>
    PROVE  ExportInv'
<1>1. PICK e : e = job[j].export
  OBVIOUS
<1>2. e \in Exports /\ (Waits(e) \/ e \in twice)
  BY <1>1, Running DEF RunOK, AtExport
<1>3. PICK q \in Run : job' = [job EXCEPT ![j] = q] /\ RunOK(q)
  BY GoingOn
<1>4. /\ \A x \in Exports : ExportOK(x)'
      /\ \A p \in Run : RunOK(p) => RunOK(p)'
      /\ \A r \in Requests : req'[r] = req[r] /\ phone' = phone => RequestOK(r)'
      /\ DeletionOK'
  BY <1>1, <1>2, FileWritten DEF rows
<1>5. \A k \in Jobs : job'[k] \in Run /\ RunOK(job'[k])
  BY <1>3 DEF ExportInv, TypeOK
<1>6. \A k \in Jobs : RunOK(job[k])'
  BY <1>4, <1>5
<1>7. TypeOK'
  BY <1>1, <1>2, <1>3 DEF ExportInv, TypeOK, rows, account
<1> QED
  BY <1>4, <1>6, <1>7 DEF ExportInv

LEMMA WriteKeeps ==
    ASSUME ExportInv, NEW j \in Jobs, Write(j)
    PROVE  ExportInv'
BY WritingKeeps DEF Write, At, JobOnly

LEMMA BuildFailsKeeps ==
    ASSUME ExportInv, NEW j \in Jobs, BuildFails(j)
    PROVE  ExportInv'
<1>1. CASE UNCHANGED stored
  <2>1. /\ UNCHANGED <<records, time, code, phone, account, req, deletion>>
        /\ faults' \in 0..MaxFaults
    BY <1>1 DEF BuildFails, JobOnly, records, rows, ExportInv, TypeOK
  <2>2. job[j].step \in {"read", "write"} /\ Goes(j, "count")
    BY DEF BuildFails
  <2> QED
    BY <2>1, <2>2, GoingOn, RunMoves
<1>2. CASE At(j, "write") /\ stored' = stored \union {job[j].export}
  BY <1>2, WritingKeeps DEF BuildFails, At, JobOnly
<1> QED
  BY <1>1, <1>2 DEF BuildFails

LEMMA SelectDueKeeps ==
    ASSUME ExportInv, NEW j \in Jobs, SelectDue(j)
    PROVE  ExportInv'
<1>1. /\ UNCHANGED <<records, time, code, phone, account, req, deletion>>
      /\ faults' \in 0..MaxFaults
  BY DEF SelectDue, JobOnly, records, rows, ExportInv, TypeOK
<1>2. CASE Stops(j)
  BY <1>1, <1>2, StoppingOK, RunMoves
<1>3. CASE job' = [job EXCEPT ![j].step = "destroy", ![j].due = Due(j)]
  <2>1. PICK q : q = [job[j] EXCEPT !.step = "destroy", !.due = Due(j)]
    OBVIOUS
  <2>2. Due(j) \in SUBSET Exports /\ \A x \in Due(j) : Made(x)
    BY DEF Due, Made
  <2>3. q \in Run /\ q.step = "destroy" /\ q.at = job[j].at /\ q.due = Due(j)
    BY <2>1, <2>2, Running DEF Run
  <2>4. job' = [job EXCEPT ![j] = q]
    BY <1>3, <2>1, Running DEF Run
  <2>5. RunOK(q)
    BY <2>2, <2>3, Running DEF RunOK, AtExport, SelectDue, At
  <2> QED
    BY <1>1, <2>3, <2>4, <2>5, RunMoves
<1> QED
  BY <1>2, <1>3 DEF SelectDue

LEMMA DestroyDueKeeps ==
    ASSUME ExportInv, NEW j \in Jobs, DestroyDue(j)
    PROVE  ExportInv'
<1>1. PICK e \in job[j].due :
         /\ stored' = stored \ {e}
         /\ job' = [job EXCEPT ![j].step = "record", ![j].export = e, ![j].due = @ \ {e}]
  BY DEF DestroyDue
<1>2. e \in Exports /\ Made(e)
  BY <1>1, Running DEF Run, RunOK
<1>3. UNCHANGED <<time, row, told, code, phone, account, req, deletion, faults, handed, twice>>
  BY DEF DestroyDue, JobOnly, rows
<1>4. PICK q : q = [job[j] EXCEPT !.step = "record", !.export = e, !.due = job[j].due \ {e}]
  OBVIOUS
<1>5. /\ q \in Run /\ q.step = "record" /\ q.export = e /\ q.at = job[j].at
      /\ q.due = job[j].due \ {e}
  BY <1>2, <1>4, Running DEF Run
<1>6. job' = [job EXCEPT ![j] = q]
  BY <1>1, <1>4, Running DEF Run
<1>7. /\ \A x \in Exports : ExportOK(x)'
      /\ \A p \in Run : RunOK(p) => RunOK(p)'
      /\ \A r \in Requests : req'[r] = req[r] /\ phone' = phone => RequestOK(r)'
      /\ DeletionOK' /\ Cleared(e)'
  BY <1>1, <1>3, FileDestroyed
<1>8. RunOK(q)'
  <2>1. \A x : Made(x)' <=> Made(x)
    BY <1>3 DEF Made, There
  <2> QED
    BY <1>2, <1>5, <1>7, <2>1, Running DEF RunOK, AtExport, DestroyDue, At
<1>9. \A k \in Jobs : RunOK(job[k])'
  <2> SUFFICES ASSUME NEW k \in Jobs PROVE RunOK(job[k])'
    OBVIOUS
  <2>1. job'[k] = (IF k = j THEN q ELSE job[k])
    BY <1>6 DEF ExportInv, TypeOK
  <2>2. PICK p : p = job'[k]
    OBVIOUS
  <2>3. RunOK(p)'
    BY <1>7, <1>8, <2>1, <2>2, Running
  <2> QED
    BY <2>2, <2>3 DEF RunOK
<1>10. \A r \in Requests : RequestOK(r)'
  BY <1>3, <1>7
<1>11. TypeOK'
  <2>1. stored' \subseteq Exports
    BY <1>1 DEF ExportInv, TypeOK
  <2>2. job' \in [Jobs -> Run]
    BY <1>5, <1>6 DEF ExportInv, TypeOK
  <2> QED
    BY <1>3, <2>1, <2>2 DEF ExportInv, TypeOK, account
<1> QED
  BY <1>7, <1>9, <1>10, <1>11 DEF ExportInv

(* A run changes the row of an export, and goes on with another: any other   *)
(* run that has it to build finds it waiting still, or is remembered.        *)
LEMMA RowMoves ==
    ASSUME ExportInv, NEW j \in Jobs, NEW q \in Run, job' = [job EXCEPT ![j] = q], RunOK(q),
           q.step \notin {"read", "write"},
           NEW e \in Exports, ~RowLocked(e), NEW new \in Row, row' = [row EXCEPT ![e] = new],
           Made(e) => new.is = "erased" \/ (new.is = "there" /\ new.ready # Never),
           twice \subseteq twice', twice' \subseteq Exports,
           \A k \in Jobs \ {j} :
              job[k].step \in {"read", "write"} /\ job[k].export = e
                 => Waits(e)' \/ e \in twice',
           \A x \in Exports \ {e} : told'[x] = told[x],
           told' \in [Exports -> Seq({"ready", "failed"})], ExportOK(e)',
           UNCHANGED <<time, stored, code, phone, account, req, deletion, faults, handed>>
    PROVE  ExportInv'
<1>1. /\ \A x \in Exports \ {e} : ExportOK(x)'
      /\ \A p \in Run : RunOK(p) /\ (p.step \in {"read", "write"} /\ p.export = e
                                       => Waits(e)' \/ e \in twice') => RunOK(p)'
      /\ \A r \in Requests :
            req'[r] = req[r] /\ (req[r] # Idle /\ req[r].step # "begun"
                                     => phone' = phone /\ req[r].export # e)
              => RequestOK(r)'
      /\ DeletionOK'
  BY RowChanged
<1>2. \A r \in Requests : RequestOK(r)'
  BY <1>1 DEF RowLocked
<1>3. \A k \in Jobs : RunOK(job[k])'
  <2> SUFFICES ASSUME NEW k \in Jobs PROVE RunOK(job[k])'
    OBVIOUS
  <2>1. job'[k] = (IF k = j THEN q ELSE job[k])
    BY DEF ExportInv, TypeOK
  <2>2. PICK p : p = job'[k]
    OBVIOUS
  <2>3. RunOK(p)'
    BY <1>1, <2>1, <2>2, Running
  <2> QED
    BY <2>2, <2>3 DEF RunOK
<1>4. TypeOK'
  BY DEF ExportInv, TypeOK, account
<1> QED
  BY <1>1, <1>2, <1>3, <1>4 DEF ExportInv

(* That its file is gone is recorded of a row that is still there.           *)
LEMMA RecordedOK ==
    ASSUME ExportInv, NEW e \in Exports, Made(e), Cleared(e), row' = Recorded(e),
           UNCHANGED <<stored, told, handed, twice>>
    PROVE  \E new \in Row :
              /\ row' = [row EXCEPT ![e] = new] /\ ExportOK(e)'
              /\ new.is = "erased" \/ (new.is = "there" /\ new.ready # Never)
<1>1. row[e] \in Row /\ row \in [Exports -> Row] /\ ExportOK(e)
  BY DEF ExportInv, TypeOK
<1>2. CASE There(e)
  <2>1. PICK new : new = [row[e] EXCEPT !.deleted = TRUE]
    OBVIOUS
  <2>2. row' = [row EXCEPT ![e] = new]
    BY <1>1, <1>2, <2>1 DEF Recorded, Row
  <2>3. /\ new \in Row /\ new.is = "there" /\ new.ready = row[e].ready
        /\ new.failed = row[e].failed /\ new.downloaded = row[e].downloaded
        /\ new.attempts = row[e].attempts
    BY <1>1, <1>2, <2>1 DEF Row, There
  <2>4. row'[e] = new /\ new.ready # Never
    BY <1>1, <1>2, <2>2, <2>3 DEF Made, There
  <2>5. e \in stored' => Accounted(e)'
    BY DEF Cleared, Accounted
  <2>6. ExportOK(e)'
    BY <1>1, <1>2, <2>3, <2>4, <2>5 DEF ExportOK, There
  <2> QED
    BY <2>2, <2>3, <2>4, <2>6
<1>3. CASE ~There(e)
  <2>1. row' = [row EXCEPT ![e] = row[e]] /\ row' = row
    BY <1>1, <1>3 DEF Recorded
  <2>2. ExportOK(e)'
    BY <1>1, <2>1 DEF ExportOK, Accounted, Waits, There
  <2> QED
    BY <1>1, <1>3, <2>1, <2>2 DEF Made
<1> QED
  BY <1>2, <1>3

LEMMA RecordDueKeeps ==
    ASSUME ExportInv, NEW j \in Jobs, RecordDue(j)
    PROVE  ExportInv'
<1>1. PICK e : e = job[j].export
  OBVIOUS
<1>2. /\ e \in Exports /\ Made(e) /\ Cleared(e) /\ ~RowLocked(e) /\ row' = Recorded(e)
      /\ job[j].step = "record"
  BY <1>1, Running DEF RecordDue, At, RunOK, AtExport
<1>3. UNCHANGED <<time, stored, code, phone, account, req, deletion, faults, told, handed, twice>>
  BY DEF RecordDue, JobOnly
<1>4. PICK q \in Run : /\ job' = [job EXCEPT ![j] = q] /\ RunOK(q)
                       /\ q.step \notin {"read", "write"}
  <2>1. CASE Stops(j)
    BY <2>1, StoppingOK
  <2>2. CASE job' = [job EXCEPT ![j].step = "destroy", ![j].export = Nothing]
    <3>1. PICK q : q = [job[j] EXCEPT !.step = "destroy", !.export = Nothing]
      OBVIOUS
    <3>2. /\ q \in Run /\ q.step = "destroy" /\ q.at = job[j].at /\ q.due = job[j].due
      BY <3>1, Running DEF Run
    <3>3. job' = [job EXCEPT ![j] = q]
      BY <2>2, <3>1, Running DEF Run
    <3>4. RunOK(q)
      BY <1>2, <3>2, Running DEF RunOK, AtExport
    <3> QED
      BY <3>2, <3>3, <3>4
  <2> QED
    BY <2>1, <2>2 DEF RecordDue
<1>5. PICK new \in Row :
         /\ row' = [row EXCEPT ![e] = new] /\ ExportOK(e)'
         /\ new.is = "erased" \/ (new.is = "there" /\ new.ready # Never)
  BY <1>2, <1>3, RecordedOK
<1>6. \A k \in Jobs : job[k].step \in {"read", "write"} /\ job[k].export = e => e \in twice
  <2> SUFFICES ASSUME NEW k \in Jobs, job[k].step \in {"read", "write"}, job[k].export = e
               PROVE  e \in twice
    OBVIOUS
  <2>1. ~Waits(e)
    BY <1>2 DEF Made, Waits, There
  <2> QED
    BY <2>1, Running DEF RunOK
<1>7. told \in [Exports -> Seq({"ready", "failed"})] /\ twice \subseteq Exports
  BY DEF ExportInv, TypeOK
<1> QED
  BY <1>2, <1>3, <1>4, <1>5, <1>6, <1>7, RowMoves

(* An export that waits: its owner was told nothing of it yet.               *)
LEMMA WaitingOK ==
    ASSUME ExportInv, NEW e \in Exports, Waits(e)
    PROVE  /\ row[e] \in Row /\ row[e].is = "there" /\ row[e].ready = Never
           /\ ~row[e].failed /\ ~row[e].deleted
           /\ told[e] = <<>> /\ handed[e] \in Nat /\ handed[e] = 0 /\ ~Made(e)
<1>1. /\ row[e] \in Row /\ ExportOK(e) /\ handed[e] \in Nat
  BY DEF ExportInv, TypeOK
<1>2. row[e].is = "there" /\ row[e].ready = Never /\ ~row[e].failed /\ ~Made(e)
  BY DEF Waits, There, Made
<1>3. told[e] = <<>> /\ ~row[e].deleted
  BY <1>1, <1>2 DEF ExportOK, There
<1>4. <<>> # <<"ready">>
  OBVIOUS
<1>5. handed[e] = 0
  BY <1>1, <1>3, <1>4 DEF ExportOK
<1> QED
  BY <1>1, <1>2, <1>3, <1>5

(* What it is told when it is settled, and who is remembered.                *)
LEMMA SettlesOK ==
    ASSUME ExportInv, NEW j \in Jobs, NEW e \in Exports, told[e] = <<>>,
           NEW what \in {"ready", "failed"}, Settles(j, e, what)
    PROVE  /\ told'[e] = <<what>> /\ told' \in [Exports -> Seq({"ready", "failed"})]
           /\ \A x \in Exports \ {e} : told'[x] = told[x]
           /\ twice \subseteq twice' /\ twice' \subseteq Exports
           /\ \A k \in Jobs \ {j} :
                 job[k].step \in {"read", "write"} /\ job[k].export = e => e \in twice'
<1>1. told \in [Exports -> Seq({"ready", "failed"})] /\ twice \subseteq Exports
  BY DEF ExportInv, TypeOK
<1>2. Append(told[e], what) = <<what>> /\ <<what>> \in Seq({"ready", "failed"})
  OBVIOUS
<1>3. told' = [told EXCEPT ![e] = <<what>>]
  BY <1>2 DEF Settles
<1>4. /\ told'[e] = <<what>> /\ told' \in [Exports -> Seq({"ready", "failed"})]
      /\ \A x \in Exports \ {e} : told'[x] = told[x]
  BY <1>1, <1>2, <1>3
<1>5. /\ twice \subseteq twice' /\ twice' \subseteq Exports
      /\ \A k \in Jobs \ {j} :
            job[k].step \in {"read", "write"} /\ job[k].export = e => e \in twice'
  BY <1>1 DEF Settles
<1> QED
  BY <1>4, <1>5

LEMMA MarkKeeps ==
    ASSUME ExportInv, NEW j \in Jobs, Mark(j)
    PROVE  ExportInv'
<1>1. PICK e : e = job[j].export
  OBVIOUS
<1>2. /\ e \in Exports /\ ~RowLocked(e) /\ job[j].step = "mark" /\ job[j].at \in Times
  BY <1>1, Running DEF Mark, At, RunOK, AtExport
<1>3. UNCHANGED <<time, stored, code, phone, account, req, deletion, faults, handed>>
  BY DEF Mark, JobOnly
<1>4. CASE UNCHANGED <<rows, twice>> /\ (Stops(j) \/ LooksForDue(j))
  <2>1. /\ UNCHANGED <<records, time, code, phone, account, req, deletion>>
        /\ faults' \in 0..MaxFaults
    BY <1>3, <1>4 DEF records, rows, ExportInv, TypeOK
  <2> QED
    BY <1>2, <1>4, <2>1, StoppingOK, LookingOK, RunMoves
<1>5. CASE /\ Waits(e) /\ row' = [row EXCEPT ![e].ready = job[j].at]
           /\ Settles(j, e, "ready") /\ LooksForDue(j)
  <2>1. PICK new : new = [row[e] EXCEPT !.ready = job[j].at]
    OBVIOUS
  <2>2. row' = [row EXCEPT ![e] = new]
    BY <1>5, <2>1
  <2>3. /\ new \in Row /\ new.is = "there" /\ new.ready # Never /\ ~new.failed
        /\ ~new.deleted
    BY <1>2, <1>5, <2>1, WaitingOK DEF Row, Times, Never
  <2>4. row'[e] = new /\ handed'[e] = 0
    BY <1>2, <1>3, <1>5, <2>2, WaitingOK DEF ExportInv, TypeOK
  <2>5. /\ told'[e] = <<"ready">> /\ told' \in [Exports -> Seq({"ready", "failed"})]
        /\ \A x \in Exports \ {e} : told'[x] = told[x]
        /\ twice \subseteq twice' /\ twice' \subseteq Exports
        /\ \A k \in Jobs \ {j} :
              job[k].step \in {"read", "write"} /\ job[k].export = e => e \in twice'
    BY <1>2, <1>5, WaitingOK, SettlesOK
  <2>6. ExportOK(e)'
    BY <2>3, <2>4, <2>5 DEF ExportOK, Accounted, There
  <2>7. PICK q \in Run : job' = [job EXCEPT ![j] = q] /\ RunOK(q) /\ q.step = "due"
    BY <1>2, <1>5, LookingOK
  <2> QED
    BY <1>2, <1>3, <2>2, <2>3, <2>5, <2>6, <2>7, RowMoves
<1> QED
  BY <1>1, <1>4, <1>5 DEF Mark, MayMark

LEMMA CountTryKeeps ==
    ASSUME ExportInv, NEW j \in Jobs, CountTry(j)
    PROVE  ExportInv'
<1>1. PICK e : e = job[j].export
  OBVIOUS
<1>2. /\ e \in Exports /\ ~RowLocked(e) /\ job[j].step = "count"
  BY <1>1, Running DEF CountTry, At, RunOK, AtExport
<1>3. UNCHANGED <<time, stored, code, phone, account, req, deletion, faults, handed>>
  BY DEF CountTry, JobOnly
<1>4. CASE UNCHANGED <<rows, twice>> /\ (Stops(j) \/ LooksForDue(j))
  <2>1. /\ UNCHANGED <<records, time, code, phone, account, req, deletion>>
        /\ faults' \in 0..MaxFaults
    BY <1>3, <1>4 DEF records, rows, ExportInv, TypeOK
  <2> QED
    BY <1>2, <1>4, <2>1, StoppingOK, LookingOK, RunMoves
<1>5. CASE /\ MayCount(e) /\ row[e].attempts + 1 < MaxTries
           /\ row' = [row EXCEPT ![e].attempts = row[e].attempts + 1]
           /\ LooksForDue(j) /\ UNCHANGED <<told, twice>>
  <2>1. Waits(e)
    BY <1>5 DEF MayCount
  <2>2. PICK new : new = [row[e] EXCEPT !.attempts = row[e].attempts + 1]
    OBVIOUS
  <2>3. row' = [row EXCEPT ![e] = new]
    BY <1>5, <2>2
  <2>4. /\ new \in Row /\ new.is = "there" /\ new.ready = Never /\ ~new.failed
        /\ ~new.deleted
    <3>1. row[e].attempts \in 0..MaxTries /\ row[e].attempts + 1 \in 0..MaxTries
      BY <1>2, <1>5, <2>1, WaitingOK DEF Row
    <3> QED
      BY <1>2, <2>1, <2>2, <3>1, WaitingOK DEF Row
  <2>5. row'[e] = new /\ handed'[e] = 0 /\ told'[e] = <<>>
    BY <1>2, <1>3, <1>5, <2>1, <2>3, WaitingOK DEF ExportInv, TypeOK
  <2>6. Waits(e)'
    BY <2>4, <2>5 DEF Waits, There
  <2>7. ExportOK(e)'
    BY <2>4, <2>5, <2>6 DEF ExportOK, Accounted, There
  <2>8. PICK q \in Run : job' = [job EXCEPT ![j] = q] /\ RunOK(q) /\ q.step = "due"
    BY <1>2, <1>5, LookingOK
  <2>9. /\ told' \in [Exports -> Seq({"ready", "failed"})]
        /\ twice \subseteq twice' /\ twice' \subseteq Exports /\ ~Made(e)
        /\ \A x \in Exports \ {e} : told'[x] = told[x]
    BY <1>2, <1>5, <2>1, WaitingOK DEF ExportInv, TypeOK
  <2> QED
    BY <1>2, <1>3, <2>3, <2>4, <2>6, <2>7, <2>8, <2>9, RowMoves
<1>6. CASE /\ MayCount(e) /\ row[e].attempts + 1 = MaxTries
           /\ row' = [row EXCEPT ![e].attempts = row[e].attempts + 1, ![e].failed = TRUE]
           /\ Settles(j, e, "failed") /\ LooksForDue(j)
  <2>1. Waits(e)
    BY <1>6 DEF MayCount
  <2>2. PICK new : new = [row[e] EXCEPT !.attempts = row[e].attempts + 1, !.failed = TRUE]
    OBVIOUS
  <2>3. row' = [row EXCEPT ![e] = new]
    BY <1>2, <1>6, <2>1, <2>2, WaitingOK DEF Row
  <2>4. /\ new \in Row /\ new.is = "there" /\ new.ready = Never /\ new.failed
        /\ ~new.deleted /\ new.attempts = MaxTries
    <3>1. row[e].attempts + 1 \in 0..MaxTries
      BY <1>6
    <3> QED
      BY ZenonT(40), <1>2, <1>6, <2>1, <2>2, <3>1, WaitingOK DEF Row
  <2>5. row'[e] = new /\ handed'[e] = 0
    BY <1>2, <1>3, <2>1, <2>3, WaitingOK DEF ExportInv, TypeOK
  <2>6. /\ told'[e] = <<"failed">> /\ told' \in [Exports -> Seq({"ready", "failed"})]
        /\ \A x \in Exports \ {e} : told'[x] = told[x]
        /\ twice \subseteq twice' /\ twice' \subseteq Exports
        /\ \A k \in Jobs \ {j} :
              job[k].step \in {"read", "write"} /\ job[k].export = e => e \in twice'
    BY <1>2, <1>6, <2>1, WaitingOK, SettlesOK
  <2>7. ExportOK(e)'
    BY <2>4, <2>5, <2>6 DEF ExportOK, Accounted, There
  <2>8. PICK q \in Run : job' = [job EXCEPT ![j] = q] /\ RunOK(q) /\ q.step = "due"
    BY <1>2, <1>6, LookingOK
  <2>9. ~Made(e)
    BY <1>2, <2>1, WaitingOK
  <2> QED
    BY <1>2, <1>3, <2>3, <2>4, <2>6, <2>7, <2>8, <2>9, RowMoves
<1> QED
  BY <1>1, <1>4, <1>5, <1>6 DEF CountTry

-----------------------------------------------------------------------------
(* The deletion of the account, and the clock.                               *)

LEMMA AccountChangesKeep ==
    ASSUME ExportInv, DeletionFallsDue \/ CancelDeletion \/ DealsChange
    PROVE  ExportInv'
<1>1. /\ UNCHANGED <<records, time, code, phone, req, job, deletion>>
      /\ leaving' \in BOOLEAN /\ deals' \in BOOLEAN /\ UNCHANGED gone
      /\ faults' \in 0..MaxFaults /\ deletion' \in Deletion
  BY DEF DeletionFallsDue, CancelDeletion, DealsChange, AccountOnly, records, ExportInv, TypeOK
<1>2. DeletionOK'
  BY <1>1, DeletionStays
<1> QED
  BY <1>1, <1>2, DeletionMoves

LEMMA StartDeletionKeeps ==
    ASSUME ExportInv, StartDeletion
    PROVE  ExportInv'
<1>1. /\ UNCHANGED <<records, time, code, phone, req, job>>
      /\ leaving' \in BOOLEAN /\ deals' \in BOOLEAN /\ UNCHANGED gone
      /\ faults' \in 0..MaxFaults
  BY DEF StartDeletion, AccountOnly, account, records, ExportInv, TypeOK
<1>2. PICK due : due = {e \in Exports : There(e) /\ row[e].ready # Never /\ ~row[e].deleted}
  OBVIOUS
<1>3. due \in SUBSET Exports /\ \A e \in due : Made(e)
  BY <1>2 DEF Made
<1>4. /\ deletion' \in Deletion /\ deletion'.due = due /\ deletion'.step # "record"
  BY <1>2, <1>3 DEF StartDeletion, NoDeletion, Deletion
<1>5. \A e \in due : Made(e)'
  BY <1>1, <1>3 DEF Made, There, records
<1>6. DeletionOK'
  BY <1>4, <1>5 DEF DeletionOK
<1> QED
  BY <1>1, <1>4, <1>6, DeletionMoves

LEMMA DeletionBreaksOffKeeps ==
    ASSUME ExportInv, DeletionBreaksOff
    PROVE  ExportInv'
<1>1. /\ UNCHANGED <<records, time, code, phone, req, job>>
      /\ leaving' \in BOOLEAN /\ deals' \in BOOLEAN /\ UNCHANGED gone
      /\ faults' \in 0..MaxFaults /\ deletion' \in Deletion /\ DeletionOK'
  BY DEF DeletionBreaksOff, account, rows, records, ExportInv, TypeOK, NoDeletion, Deletion,
         DeletionOK
<1> QED
  BY <1>1, DeletionMoves

LEMMA DestroyOwnKeeps ==
    ASSUME ExportInv, DestroyOwn
    PROVE  ExportInv'
<1>1. PICK e \in deletion.due :
         /\ stored' = stored \ {e}
         /\ deletion' = [step |-> "record", export |-> e, due |-> deletion.due \ {e}]
  BY DEF DestroyOwn
<1>2. e \in Exports /\ Made(e) /\ deletion.due \subseteq Exports
  BY <1>1 DEF ExportInv, TypeOK, Deletion, DeletionOK
<1>3. UNCHANGED <<time, row, told, code, phone, account, req, job, faults, handed, twice>>
  BY DEF DestroyOwn, AccountOnly
<1>4. /\ \A x \in Exports : ExportOK(x)'
      /\ \A p \in Run : RunOK(p) => RunOK(p)'
      /\ \A r \in Requests : req'[r] = req[r] /\ phone' = phone => RequestOK(r)'
      /\ Cleared(e)'
  BY <1>1, <1>3, FileDestroyed
<1>5. \A x \in Exports : Made(x) => Made(x)'
  BY <1>3 DEF Made, There
<1>6. DeletionOK'
  BY <1>1, <1>2, <1>4, <1>5 DEF DeletionOK, ExportInv
<1>7. \A j \in Jobs : RunOK(job[j])'
  BY <1>3, <1>4 DEF ExportInv, TypeOK
<1>8. TypeOK'
  <2>1. stored' \subseteq Exports
    BY <1>1 DEF ExportInv, TypeOK
  <2>2. deletion' \in Deletion
    BY <1>1, <1>2 DEF Deletion
  <2> QED
    BY <1>3, <2>1, <2>2 DEF ExportInv, TypeOK, account
<1> QED
  BY <1>3, <1>4, <1>6, <1>7, <1>8 DEF ExportInv

LEMMA RecordOwnKeeps ==
    ASSUME ExportInv, RecordOwn
    PROVE  ExportInv'
<1>1. PICK e : e = deletion.export
  OBVIOUS
<1>2. e \in Exports /\ Made(e) /\ Cleared(e) /\ ~RowLocked(e) /\ row' = Recorded(e)
  BY <1>1 DEF RecordOwn, Deleting, ExportInv, DeletionOK
<1>3. UNCHANGED <<time, stored, code, phone, account, req, job, faults, told, handed, twice>>
  BY DEF RecordOwn, AccountOnly
<1>4. PICK new \in Row :
         /\ row' = [row EXCEPT ![e] = new] /\ ExportOK(e)'
         /\ new.is = "erased" \/ (new.is = "there" /\ new.ready # Never)
  BY <1>2, <1>3, RecordedOK
<1>5. /\ \A x \in Exports \ {e} : ExportOK(x)'
      /\ \A p \in Run : RunOK(p) /\ (p.step \in {"read", "write"} /\ p.export = e
                                       => Waits(e)' \/ e \in twice') => RunOK(p)'
      /\ \A r \in Requests :
            req'[r] = req[r] /\ (req[r] # Idle /\ req[r].step # "begun"
                                     => phone' = phone /\ req[r].export # e)
              => RequestOK(r)'
  BY <1>2, <1>3, <1>4, RowChanged
<1>6. \A j \in Jobs : RunOK(job[j])'
  <2> SUFFICES ASSUME NEW j \in Jobs PROVE RunOK(job[j])'
    OBVIOUS
  <2>1. PICK p : p = job[j]
    OBVIOUS
  <2>2. p.step \in {"read", "write"} /\ p.export = e => e \in twice'
    <3>1. ~Waits(e)
      BY <1>2 DEF Made, Waits, There
    <3> QED
      BY <1>3, <2>1, <3>1, Running DEF RunOK
  <2>3. RunOK(p)'
    BY <1>5, <2>1, <2>2, Running
  <2> QED
    BY <1>3, <2>1, <2>3
<1>7. \A r \in Requests : RequestOK(r)'
  BY <1>2, <1>3, <1>5 DEF RowLocked
<1>8. /\ deletion' \in Deletion /\ deletion'.due = deletion.due /\ deletion'.step # "record"
      /\ deletion.due \subseteq Exports
  BY DEF RecordOwn, ExportInv, TypeOK, Deletion
<1>9. \A x \in Exports : Made(x) => Made(x)'
  BY <1>2, <1>4 DEF Made, There, ExportInv, TypeOK
<1>10. DeletionOK'
  BY <1>8, <1>9 DEF DeletionOK, ExportInv
<1>11. TypeOK'
  BY <1>3, <1>4, <1>8 DEF ExportInv, TypeOK, account
<1> QED
  BY <1>4, <1>5, <1>6, <1>7, <1>10, <1>11 DEF ExportInv

(* What is erased has no file left to find, and nobody at work on its row.   *)
LEMMA EraseKeeps ==
    ASSUME ExportInv, Erase
    PROVE  ExportInv'
<1>1. /\ UNCHANGED <<time, stored, phone, leaving, deals, req, job, faults, told, handed, twice>>
      /\ deletion' = NoDeletion /\ phone = Nobody
  BY DEF Erase, AccountOnly
<1>2. deletion' \in Deletion /\ DeletionOK'
  BY <1>1 DEF NoDeletion, Deletion, DeletionOK
<1>3. CASE ~MayErase
  <2>1. /\ UNCHANGED <<records, time, code, phone, req, job, gone>>
        /\ leaving' \in BOOLEAN /\ deals' \in BOOLEAN /\ faults' \in 0..MaxFaults
    BY <1>1, <1>3 DEF Erase, records, ExportInv, TypeOK
  <2> QED
    BY <1>2, <2>1, DeletionMoves
<1>4. CASE MayErase
  <2>1. /\ gone' = TRUE /\ code' = Nothing
        /\ row' = [e \in Exports |->
                     IF There(e) THEN [Unasked EXCEPT !.is = "erased"] ELSE row[e]]
    BY <1>4 DEF Erase
  <2>2. PICK wiped : wiped = [Unasked EXCEPT !.is = "erased"]
    OBVIOUS
  <2>3. wiped \in Row /\ wiped.is = "erased"
    <3>1. Unasked \in Row
      BY DEF Unasked, Row, Never
    <3> QED
      BY <2>2, <3>1 DEF Row
  <2>4. \A e \in Exports : row'[e] = IF There(e) THEN wiped ELSE row[e]
    BY <2>1, <2>2
  <2>5. \A e \in Exports : There(e) => row[e].deleted \/ row[e].failed
    BY <1>4 DEF MayErase, BlocksErasure
  <2>6. \A e \in Exports : ExportOK(e)'
    <3> SUFFICES ASSUME NEW e \in Exports PROVE ExportOK(e)'
      OBVIOUS
    <3>1. ExportOK(e)
      BY DEF ExportInv
    <3>2. CASE There(e)
      <4>1. row'[e] = wiped /\ wiped.is = "erased"
        BY <2>3, <2>4, <3>2
      <4>2. e \in stored => told[e] = <<"failed">> \/ e \in twice
        BY <2>5, <3>1, <3>2 DEF ExportOK, Accounted, Waits
      <4>3. told[e] # <<"failed">> \/ handed[e] # 1
        <5>1. <<"ready">> # <<"failed">>
          OBVIOUS
        <5> QED
          BY <3>1, <5>1 DEF ExportOK
      <4> QED
        BY <1>1, <3>1, <4>1, <4>2, <4>3 DEF ExportOK, Accounted, There
    <3>3. CASE ~There(e)
      <4>1. row'[e] = row[e]
        BY <2>4, <3>3
      <4> QED
        BY <1>1, <3>1, <4>1 DEF ExportOK, Accounted, Waits, There
    <3> QED
      BY <3>2, <3>3
  <2>7. \A e \in Exports : /\ Made(e) => Made(e)'
                           /\ Cleared(e) => Cleared(e)'
    BY <1>1, <2>3, <2>4 DEF Made, Cleared, There
  <2>8. \A e \in Exports : ~Waits(e)
    BY <2>5, WaitingOK DEF Waits, There
  <2>9. \A j \in Jobs : RunOK(job[j])'
    <3> SUFFICES ASSUME NEW j \in Jobs PROVE RunOK(job[j])'
      OBVIOUS
    <3>1. PICK p : p = job[j] /\ p \in Run /\ RunOK(p)
      BY Running
    <3>2. p.due \subseteq Exports
      BY <3>1 DEF Run
    <3>3. p.step \in {"read", "write"} => p.export \in twice'
      BY <1>1, <2>8, <3>1 DEF RunOK, AtExport
    <3>4. RunOK(p)'
      BY <2>7, <3>1, <3>2, <3>3 DEF RunOK, AtExport
    <3> QED
      BY <1>1, <3>1, <3>4
  <2>10. \A r \in Requests : RequestOK(r)'
    <3> SUFFICES ASSUME NEW r \in Requests, req[r] # Idle PROVE RequestOK(r)'
      BY <1>1 DEF RequestOK
    <3>1. req[r].step = "begun"
      BY <1>1, Going DEF RequestOK
    <3> QED
      BY <1>1, <3>1, Going DEF RequestOK
  <2>11. TypeOK'
    <3>1. row' \in [Exports -> Row]
      BY <2>1, <2>3, <2>4 DEF ExportInv, TypeOK
    <3> QED
      BY <1>1, <1>2, <2>1, <3>1 DEF ExportInv, TypeOK
  <2> QED
    BY <1>2, <2>6, <2>9, <2>10, <2>11 DEF ExportInv
<1> QED
  BY <1>3, <1>4

LEMMA TickKeeps ==
    ASSUME ExportInv, Tick
    PROVE  ExportInv'
<1>1. /\ UNCHANGED <<records, req, phone, job, deletion, code, account, faults>>
      /\ time' \in Times
  BY DEF Tick, records, rows, ExportInv, TypeOK, Times
<1>2. TypeOK'
  BY <1>1 DEF ExportInv, TypeOK, records, account
<1> QED
  BY <1>1, <1>2, ExportsStay, RunsStay, RequestsStay, DeletionStays DEF ExportInv

-----------------------------------------------------------------------------
(* What holds in every state.                                                *)

LEMMA StepKeeps ==
    ASSUME ExportInv, [Next]_vars
    PROVE  ExportInv'
<1>1. CASE UNCHANGED vars
  <2>1. UNCHANGED <<records, req, phone, job, deletion>> /\ TypeOK'
    BY <1>1 DEF vars, rows, account, records, ExportInv, TypeOK
  <2> QED
    BY <2>1, ExportsStay, RunsStay, RequestsStay, DeletionStays DEF ExportInv
<1>2. ASSUME NEW r \in Requests, NEW op \in {"ask", "code", "download"},
             NEW e \in Exports \union {Nothing}, Begin(r, op, e)
      PROVE  ExportInv'
  BY <1>2, BeginKeeps
<1>3. ASSUME NEW r \in Requests, Answers(r) \/ DownloadFails(r)
      PROVE  ExportInv'
  BY <1>3, AskKeeps, AskCodeKeeps, LockDownloadKeeps, TakeKeeps, HandOverKeeps,
     DownloadFailsKeeps DEF Answers
<1>4. ASSUME NEW j \in Jobs, Start(j) \/ JobStep(j) \/ BuildFails(j) \/ RunBreaksOff(j)
      PROVE  ExportInv'
  BY <1>4, StartKeeps, SelectKeeps, BuildKeeps, WriteKeeps, MarkKeeps, CountTryKeeps,
     SelectDueKeeps, DestroyDueKeeps, RecordDueKeeps, BuildFailsKeeps, RunBreaksOffKeeps
     DEF JobStep
<1>5. CASE DeletionFallsDue \/ CancelDeletion \/ DealsChange
  BY <1>5, AccountChangesKeep
<1>6. CASE Deletes \/ DeletionBreaksOff
  BY <1>6, StartDeletionKeeps, DestroyOwnKeeps, RecordOwnKeeps, EraseKeeps,
     DeletionBreaksOffKeeps DEF Deletes
<1>7. CASE Tick
  BY <1>7, TickKeeps
<1> QED
  BY <1>1, <1>2, <1>3, <1>4, <1>5, <1>6, <1>7 DEF Next

(* What an account's exports keep, in every state the program can reach.     *)
THEOREM ExportsKeepOrder == Spec => []ExportInv
<1>1. Init => ExportInv
  BY Initially
<1>2. ExportInv /\ [Next]_vars => ExportInv'
  BY StepKeeps
<1> QED
  BY <1>1, <1>2, PTL DEF Spec

(* A file is handed over once at most, and only one its owner was told of,   *)
(* however many download it at once and whatever overlapping runs write.     *)
THEOREM FilesAreHandedOverOnce == Spec => []HandedOverOnce
<1>1. ExportInv => HandedOverOnce
  BY DEF ExportInv, ExportOK, HandedOverOnce
<1> QED
  BY <1>1, ExportsKeepOrder, PTL

(* An export is settled once, as ready or failed, failed only when every try *)
(* was used, and its owner is told so once, however many runs overlap.       *)
THEOREM ExportsAreSettledOnce == Spec => []SettledOnce
<1>1. ExportInv => SettledOnce
  <2> SUFFICES ASSUME ExportInv, NEW e \in Exports
               PROVE  /\ Len(told[e]) <= 1
                      /\ There(e) =>
                           /\ told[e] = IF row[e].failed THEN <<"failed">>
                                        ELSE IF row[e].ready # Never THEN <<"ready">> ELSE <<>>
                           /\ row[e].failed => row[e].attempts = MaxTries
    BY DEF SettledOnce
  <2>1. ExportOK(e)
    BY DEF ExportInv
  <2>2. Len(<<>>) <= 1 /\ Len(<<"ready">>) <= 1 /\ Len(<<"failed">>) <= 1
    OBVIOUS
  <2> QED
    BY <2>1, <2>2 DEF ExportOK
<1> QED
  BY <1>1, ExportsKeepOrder, PTL

(* A file in the bucket is one being prepared, or one a row says is stored,  *)
(* but for those of failed exports and those an overlapping run wrote again: *)
(* erasing the account leaves no other behind.                               *)
THEOREM EveryFileIsAccountedFor == Spec => []FilesAreAccountedFor
<1>1. ExportInv => FilesAreAccountedFor
  <2>1. stored \subseteq Exports => (ExportInv => FilesAreAccountedFor)
    BY DEF ExportInv, ExportOK, Accounted, FilesAreAccountedFor
  <2> QED
    BY <2>1 DEF ExportInv, TypeOK
<1> QED
  BY <1>1, ExportsKeepOrder, PTL

=============================================================================
