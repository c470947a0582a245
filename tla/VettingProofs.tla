--------------------------- MODULE VettingProofs ---------------------------
(***************************************************************************)
(* Selection behind the payment gate, for any number of applications,      *)
(* overlapping requests, queue jobs and failures: no candidate is selected *)
(* for screening, offered the job or given an employees row before a       *)
(* payment has unlocked them, although vettings write whole stale rows.    *)
(* As long as an open pick meets no other and no vetting that holds the    *)
(* rows, a job has one offer out (OfferIInv).  As long as nobody writes a  *)
(* status under a vetting's copy, it overwrites no selection (StatusIInv); *)
(* as long as nobody saves rows under its marks, it highlights the best    *)
(* (MarkIInv).                                                             *)
(***************************************************************************)
EXTENDS VettingInv, FiniteSetTheorems, TLAPS

-----------------------------------------------------------------------------
\* Rows.

\* A saved row is as good as the rows it is made of.
LEMMA SaveRowOK ==
    ASSUME NEW a, NEW P, NEW row, RowOK(row, a, P),
           NEW snap, RowOK(snap, a, P), NEW mem, RowOK(mem, a, P)
    PROVE  RowOK(SaveRow(row, snap, mem), a, P)
<1> DEFINE s == SaveColumn(row.status, snap.status, mem.status)
           u == SaveColumn(row.unlocked, snap.unlocked, mem.unlocked)
           c == SaveColumn(row.scored, snap.scored, mem.scored)
           l == SaveColumn(row.lit, snap.lit, mem.lit)
           new == [status |-> s, unlocked |-> u, scored |-> c, lit |-> l]
<1>1. row \in Row /\ snap \in Row /\ mem \in Row
  BY DEF RowOK
<1>2. SaveRow(row, snap, mem) = new
  BY DEF SaveRow
<1>3. s \in Status /\ s \in {row.status, mem.status}
  BY <1>1 DEF SaveColumn, Row
<1>4. u \in BOOLEAN /\ (u => row.unlocked \/ mem.unlocked)
  BY <1>1 DEF SaveColumn, Row
<1>5. c \in BOOLEAN /\ l \in BOOLEAN
  BY <1>1 DEF SaveColumn, Row
<1>6. u => a \in P
  BY <1>4 DEF RowOK
<1>7. EmployerSets \intersect Gated = {} => (s \in Gated => a \in P)
  BY <1>3 DEF RowOK
<1> HIDE DEF s, u, c, l
<1>8. new \in Row /\ new.status = s /\ new.unlocked = u
  BY <1>3, <1>4, <1>5 DEF Row
<1> HIDE DEF new
<1> QED
  BY <1>2, <1>6, <1>7, <1>8 DEF RowOK

\* What a vetting does to a row in memory or in the table.
LEMMA VetRow ==
    ASSUME NEW a, NEW P, NEW row, RowOK(row, a, P)
    PROVE  /\ RowOK([row EXCEPT !.scored = TRUE], a, P)
           /\ \A lit \in BOOLEAN : RowOK([row EXCEPT !.lit = lit], a, P)
           /\ RowOK(Advanced(row), a, P)
<1>1. RowOK([row EXCEPT !.scored = TRUE], a, P)
  BY DEF RowOK, Row
<1>2. ASSUME NEW lit \in BOOLEAN PROVE RowOK([row EXCEPT !.lit = lit], a, P)
  BY DEF RowOK, Row
<1>3. RowOK(Advanced(row), a, P)
  BY DEF RowOK, Row, Advanced, Status, Gated
<1> QED
  BY <1>1, <1>2, <1>3

\* A change of status is harmless before the gate and of a paid candidate.
LEMMA StatusRow ==
    ASSUME NEW a, NEW P, NEW row, RowOK(row, a, P),
           NEW s \in Status,
           EmployerSets \intersect Gated = {} => (s \in Gated => a \in P)
    PROVE  RowOK([row EXCEPT !.status = s], a, P)
  BY DEF RowOK, Row

LEMMA RowGrows ==
    ASSUME NEW a, NEW P, NEW Q, P \subseteq Q, NEW row, RowOK(row, a, P)
    PROVE  RowOK(row, a, Q)
  BY DEF RowOK

-----------------------------------------------------------------------------
\* Sets of rows in memory.

LEMMA EntitiesIntro ==
    ASSUME NEW S \in SUBSET Apps, NEW f \in [S -> Row]
    PROVE  f \in Entities
  BY DEF Entities

LEMMA EntitiesElim ==
    ASSUME NEW f \in Entities
    PROVE  DOMAIN f \subseteq Apps /\ f \in [DOMAIN f -> Row]
  BY DEF Entities

LEMMA NothingOK == Nothing \in Entities /\ DOMAIN Nothing = {}
<1>1. Nothing \in [{} -> Row] /\ DOMAIN Nothing = {}
  BY DEF Nothing
<1> QED
  BY <1>1, EntitiesIntro

LEMMA EntitiesGrow ==
    ASSUME NEW f \in Entities, NEW P, NEW Q, P \subseteq Q, EntitiesOK(f, P)
    PROVE  EntitiesOK(f, Q)
  BY RowGrows DEF EntitiesOK

\* The rows of S, loaded from the table.
LEMMA LoadedOK ==
    ASSUME NEW S \in SUBSET Apps, app \in [Apps -> Row], RowsOK
    PROVE  LET f == [a \in S |-> app[a]] IN
             f \in Entities /\ DOMAIN f = S /\ EntitiesOK(f, paid)
<1> DEFINE f == [a \in S |-> app[a]]
<1>1. f \in [S -> Row] /\ DOMAIN f = S
  OBVIOUS
<1>2. EntitiesOK(f, paid)
  BY DEF EntitiesOK, RowsOK
<1> QED
  BY <1>1, <1>2, EntitiesIntro

LEMMA ScoredOK ==
    ASSUME NEW f \in Entities, NEW P, EntitiesOK(f, P), NEW a \in DOMAIN f
    PROVE  /\ Scored(f, a) \in Entities
           /\ DOMAIN Scored(f, a) = DOMAIN f
           /\ EntitiesOK(Scored(f, a), P)
<1> DEFINE g == Scored(f, a)
<1>1. DOMAIN f \subseteq Apps /\ f \in [DOMAIN f -> Row]
  BY EntitiesElim
<1>2. DOMAIN g = DOMAIN f
  BY DEF Scored
<1>3. ASSUME NEW x \in DOMAIN f PROVE RowOK(g[x], x, P)
  <2>1. RowOK(f[x], x, P)
    BY DEF EntitiesOK
  <2>2. RowOK([f[x] EXCEPT !.scored = TRUE], x, P)
    BY <2>1, VetRow
  <2>3. g[x] = IF x = a THEN [f[x] EXCEPT !.scored = TRUE] ELSE f[x]
    BY DEF Scored
  <2> QED
    BY <2>1, <2>2, <2>3
<1>4. g \in [DOMAIN f -> Row]
  <2>1. \A x \in DOMAIN f : g[x] \in Row
    BY <1>3 DEF RowOK
  <2>2. g = [x \in DOMAIN f |-> g[x]]
    BY <1>2 DEF Scored
  <2> QED
    BY <2>1, <2>2
<1> HIDE DEF g
<1>5. g \in Entities
  BY <1>1, <1>4, EntitiesIntro
<1>6. EntitiesOK(g, P)
  BY <1>2, <1>3 DEF EntitiesOK
<1> QED
  BY <1>2, <1>5, <1>6 DEF g

LEMMA HighlightedOK ==
    ASSUME NEW f \in Entities, NEW P, EntitiesOK(f, P), NEW S, NEW T
    PROVE  /\ Highlighted(f, S, T) \in Entities
           /\ DOMAIN Highlighted(f, S, T) = DOMAIN f
           /\ EntitiesOK(Highlighted(f, S, T), P)
<1> DEFINE g == Highlighted(f, S, T)
<1>1. DOMAIN f \subseteq Apps /\ f \in [DOMAIN f -> Row]
  BY EntitiesElim
<1>2. DOMAIN g = DOMAIN f
  BY DEF Highlighted
<1>3. ASSUME NEW x \in DOMAIN f PROVE RowOK(g[x], x, P)
  <2>1. RowOK(f[x], x, P)
    BY DEF EntitiesOK
  <2>2. RowOK([f[x] EXCEPT !.lit = x \in T], x, P)
    BY <2>1, VetRow, (x \in T) \in BOOLEAN
  <2>3. g[x] = IF x \in S THEN [f[x] EXCEPT !.lit = x \in T] ELSE f[x]
    BY DEF Highlighted
  <2> QED
    BY <2>1, <2>2, <2>3
<1>4. g \in [DOMAIN f -> Row]
  <2>1. \A x \in DOMAIN f : g[x] \in Row
    BY <1>3 DEF RowOK
  <2>2. g = [x \in DOMAIN f |-> g[x]]
    BY DEF Highlighted
  <2> QED
    BY <2>1, <2>2
<1> HIDE DEF g
<1>5. g \in Entities
  BY <1>1, <1>4, EntitiesIntro
<1>6. EntitiesOK(g, P)
  BY <1>2, <1>3 DEF EntitiesOK
<1> QED
  BY <1>2, <1>5, <1>6 DEF g

-----------------------------------------------------------------------------
\* The local variables of a handler.

LEMMA NoRequestOK ==
    ASSUME NEW P
    PROVE  /\ NoRequest \in Request
           /\ RequestOK(NoRequest, P)
           /\ NoRequest.op = "none"
<1>1. NoRequest \in Request
  BY NothingOK DEF NoRequest, Request, Op, PC
<1>2. /\ NoRequest.op = "none" /\ NoRequest.pc = "idle"
      /\ NoRequest.mem = Nothing /\ NoRequest.snap = Nothing
  BY DEF NoRequest
<1>3. EntitiesOK(Nothing, P)
  BY NothingOK DEF EntitiesOK
<1> QED
  BY <1>1, <1>2, <1>3 DEF RequestOK, Choosing

LEMMA MovedOK ==
    ASSUME NEW r \in Request, NEW P, RequestOK(r, P), NEW pc \in PC,
           pc \notin {"write", "score", "settle"}, pc \in Choosing => r.app \in P
    PROVE  LET n == [r EXCEPT !.pc = pc] IN
             n \in Request /\ RequestOK(n, P) /\ n.op = r.op /\ n.app = r.app
<1> DEFINE n == [r EXCEPT !.pc = pc]
<1>1. n \in Request
  BY DEF Request
<1>2. /\ n.pc = pc /\ n.op = r.op /\ n.app = r.app /\ n.mem = r.mem /\ n.snap = r.snap
  BY DEF Request
<1> HIDE DEF n
<1>3. RequestOK(n, P)
  BY <1>2 DEF RequestOK
<1> QED
  BY <1>1, <1>2, <1>3 DEF n

LEMMA RequestGrows ==
    ASSUME NEW r \in Request, NEW P, NEW Q, P \subseteq Q, RequestOK(r, P)
    PROVE  RequestOK(r, Q)
<1>1. r.mem \in Entities /\ r.snap \in Entities
  BY DEF Request
<1>2. EntitiesOK(r.mem, Q) /\ EntitiesOK(r.snap, Q)
  BY <1>1, EntitiesGrow DEF RequestOK
<1> QED
  BY <1>2 DEF RequestOK

\* The scoring loop takes a off its list, with or without a score.
LEMMA LoopOK ==
    ASSUME NEW r \in Request, NEW P, RequestOK(r, P), r.pc = "score",
           NEW a \in r.todo
    PROVE  /\ LET n == [r EXCEPT !.todo = @ \ {a}] IN
                n \in Request /\ RequestOK(n, P) /\ n.op = r.op /\ n.app = r.app
           /\ LET n == [r EXCEPT !.todo = @ \ {a}, !.ranked = @ \union {a},
                                 !.mem = Scored(@, a)] IN
                n \in Request /\ RequestOK(n, P) /\ n.op = r.op /\ n.app = r.app
<1>1. /\ r.mem \in Entities /\ a \in DOMAIN r.mem /\ EntitiesOK(r.mem, P)
      /\ r.todo \subseteq DOMAIN r.mem /\ a \in Apps
  BY DEF Request, RequestOK
<1>2. /\ Scored(r.mem, a) \in Entities
      /\ DOMAIN Scored(r.mem, a) = DOMAIN r.mem
      /\ EntitiesOK(Scored(r.mem, a), P)
  BY <1>1, ScoredOK
<1>3. LET n == [r EXCEPT !.todo = @ \ {a}] IN
        n \in Request /\ RequestOK(n, P) /\ n.op = r.op /\ n.app = r.app
  <2> DEFINE n == [r EXCEPT !.todo = @ \ {a}]
  <2>1. n \in Request
    BY DEF Request
  <2>2. /\ n.pc = r.pc /\ n.op = r.op /\ n.app = r.app /\ n.mem = r.mem
        /\ n.snap = r.snap /\ n.todo = r.todo \ {a}
    BY DEF Request
  <2> HIDE DEF n
  <2>3. RequestOK(n, P)
    BY <1>1, <2>2 DEF RequestOK
  <2> QED
    BY <2>1, <2>2, <2>3 DEF n
<1>4. LET n == [r EXCEPT !.todo = @ \ {a}, !.ranked = @ \union {a},
                         !.mem = Scored(@, a)] IN
        n \in Request /\ RequestOK(n, P) /\ n.op = r.op /\ n.app = r.app
  <2> DEFINE n == [r EXCEPT !.todo = @ \ {a}, !.ranked = @ \union {a},
                            !.mem = Scored(@, a)]
  <2>1. n \in Request
    BY <1>1, <1>2 DEF Request
  <2>2. /\ n.pc = r.pc /\ n.op = r.op /\ n.app = r.app /\ n.mem = Scored(r.mem, a)
        /\ n.snap = r.snap /\ n.todo = r.todo \ {a}
    BY DEF Request
  <2> HIDE DEF n
  <2>3. RequestOK(n, P)
    BY <1>1, <1>2, <2>2 DEF RequestOK, Choosing
  <2> QED
    BY <2>1, <2>2, <2>3 DEF n
<1> QED
  BY <1>3, <1>4

-----------------------------------------------------------------------------
\* Frames: what is left to show of a step.

\* The parts of the invariant about one variable each.
Rest ==
    /\ rows \in [Apps -> 0..MaxRows] /\ busy \subseteq Apps /\ vetted \in Vetted
    /\ acts \in 0..MaxActs /\ faults \in 0..MaxFaults

Jobs ==
    /\ queue \in [Apps -> 0..MaxTries]
    /\ JobsOK

Table == app \in [Apps -> Row] /\ RowsOK

Requests ==
    /\ req \in [Handlers -> Request]
    /\ \A h \in Handlers : RequestOK(req[h], paid)

LEMMA IInvParts ==
    IInv <=> Rest /\ Jobs /\ Table /\ Requests /\ OpenRowsOK /\ paid \subseteq Apps
  BY DEF IInv, TypeOK, Rest, Jobs, Table, Requests

\* A handler continues with local variables r.
LEMMA StepRequests ==
    ASSUME Requests, NEW h \in Handlers, NEW r \in Request, RequestOK(r, paid),
           req' = [req EXCEPT ![h] = r], paid' = paid
    PROVE  Requests'
<1>1. req' \in [Handlers -> Request]
  BY DEF Requests
<1>2. ASSUME NEW i \in Handlers PROVE RequestOK(req'[i], paid)
  <2>1. req'[i] = IF i = h THEN r ELSE req[i]
    BY DEF Requests
  <2> QED
    BY <2>1 DEF Requests
<1> QED
  BY <1>1, <1>2 DEF Requests

\* The queue is left alone and no job is taken.
LEMMA StepJobs ==
    ASSUME Jobs, Requests, NEW h \in Handlers, NEW r \in Request,
           r.op = "queue" => req[h].op = "queue" /\ r.app = req[h].app,
           req' = [req EXCEPT ![h] = r], queue' = queue
    PROVE  Jobs'
<1>1. \A i \in Handlers : req'[i] = IF i = h THEN r ELSE req[i]
  BY DEF Requests
<1>2. \A i \in Handlers : req'[i].op = "queue" =>
         req[i].op = "queue" /\ req'[i].app = req[i].app
  BY <1>1
<1> QED
  BY <1>2 DEF Jobs, JobsOK

\* A handler ends; the queue loses no job another handler runs.
LEMMA EndJobs ==
    ASSUME Jobs, Requests, NEW h \in Handlers, Return(h),
           queue' \in [Apps -> 0..MaxTries],
           \A a \in Apps : queue'[a] # queue[a] => req[h].op = "queue" /\ req[h].app = a
    PROVE  Jobs'
<1>1. \A i \in Handlers : req'[i] = IF i = h THEN NoRequest ELSE req[i]
  BY DEF Requests, Return
<1>2. \A i \in Handlers : req'[i].op = "queue" => i # h /\ req'[i] = req[i]
  BY <1>1, NoRequestOK
<1>3. ASSUME NEW i \in Handlers, req'[i].op = "queue" PROVE queue'[req'[i].app] > 0
  <2>1. i # h /\ req'[i] = req[i] /\ req[i].op = "queue"
    BY <1>2, <1>3
  <2>2. req[i].app \in Apps /\ queue[req[i].app] > 0
    BY <2>1 DEF Requests, RequestOK, Jobs, JobsOK
  <2>3. queue'[req[i].app] = queue[req[i].app]
    BY <2>1, <2>2 DEF Jobs, JobsOK
  <2> QED
    BY <2>1, <2>2, <2>3
<1>4. \A i, j \in Handlers :
         req'[i].op = "queue" /\ req'[j].op = "queue" /\ req'[i].app = req'[j].app
           => i = j
  BY <1>2 DEF Jobs, JobsOK
<1> QED
  BY <1>3, <1>4 DEF Jobs, JobsOK

LEMMA EndRequests ==
    ASSUME Requests, NEW h \in Handlers, Return(h), paid' = paid
    PROVE  Requests'
  BY NoRequestOK, StepRequests DEF Return

-----------------------------------------------------------------------------
\* The transaction of a pick opens.
LEMMA OpenedOK ==
    ASSUME NEW r \in Request, NEW P, RequestOK(r, P), r.pc = "clear",
           NEW todo \in SUBSET Apps
    PROVE  LET n == [r EXCEPT !.pc = "commit", !.todo = todo] IN
             n \in Request /\ RequestOK(n, P) /\ n.op = r.op /\ n.app = r.app
<1> DEFINE n == [r EXCEPT !.pc = "commit", !.todo = todo]
<1>1. n \in Request
  BY DEF Request, PC
<1>2. n.pc = "commit" /\ n.op = r.op /\ n.app = r.app /\ n.mem = r.mem /\ n.snap = r.snap
  BY DEF Request
<1> HIDE DEF n
<1>3. RequestOK(n, P)
  BY <1>2 DEF RequestOK, Choosing
<1> QED
  BY <1>1, <1>2, <1>3 DEF n

\* A handler continues with local variables r, and no job is taken or ended.
LEMMA StepOK ==
    ASSUME IInv, NEW h \in Handlers, NEW r \in Request, RequestOK(r, paid),
           r.op = "queue" => req[h].op = "queue" /\ r.app = req[h].app,
           req' = [req EXCEPT ![h] = r],
           UNCHANGED <<busy, vetted, queue, paid, faults>>,
           rows' \in [Apps -> 0..MaxRows], OpenRowsOK',
           acts' \in 0..MaxActs, Table'
    PROVE  IInv'
<1>1. Jobs /\ Requests /\ Rest /\ paid \subseteq Apps
  BY IInvParts
<1>2. Requests'
  BY <1>1, StepRequests
<1>3. Jobs'
  BY <1>1, StepJobs
<1>4. Rest'
  BY <1>1 DEF Rest
<1>5. (paid \subseteq Apps)'
  BY <1>1
<1> QED
  BY <1>2, <1>3, <1>4, <1>5, IInvParts, PTL

\* The rows stay as they are.
LEMMA TableStays ==
    ASSUME IInv, UNCHANGED <<app, rows, paid>>
    PROVE  Table' /\ OpenRowsOK' /\ rows' \in [Apps -> 0..MaxRows]
  BY DEF IInv, TypeOK, Table, RowsOK, OpenRowsOK

\* An action that touches no handler and no queue job.
LEMMA AroundOK ==
    ASSUME IInv, UNCHANGED <<queue, req>>, paid \subseteq paid', paid' \subseteq Apps,
           Rest', Table', OpenRowsOK'
    PROVE  IInv'
<1>1. Jobs /\ Requests
  BY IInvParts
<1>2. Jobs'
  BY <1>1 DEF Jobs, JobsOK
<1>3. Requests'
  BY <1>1, RequestGrows DEF Requests
<1>4. (paid \subseteq Apps)'
  OBVIOUS
<1> QED
  BY <1>2, <1>3, <1>4, IInvParts, PTL

\* One decision more.
LEMMA DecideOK ==
    ASSUME acts \in 0..MaxActs, Decide
    PROVE  acts' \in 0..MaxActs
  BY VettingAssumption DEF Decide

LEMMA FaultOK ==
    ASSUME faults \in 0..MaxFaults, faults < MaxFaults, faults' = faults + 1
    PROVE  faults' \in 0..MaxFaults
  BY VettingAssumption

-----------------------------------------------------------------------------
\* The actions around the rows.

LEMMA ApplyOK ==
    ASSUME IInv, NEW a \in Apps, Apply(a)
    PROVE  IInv'
<1>0. Rest /\ Jobs /\ Table /\ Requests /\ OpenRowsOK /\ paid \subseteq Apps
  BY IInvParts
<1>1. Table'
  <2>1. ASSUME NEW x \in Apps PROVE app'[x] \in Row /\ RowOK(app'[x], x, paid')
    <3>1. RowOK(app[x], x, paid)
      BY <1>0 DEF Table, RowsOK
    <3>2. "APPLIED" \in Status /\ "APPLIED" \notin Gated
      BY DEF Status, Gated
    <3>3. RowOK([app[x] EXCEPT !.status = "APPLIED"], x, paid)
      BY <3>1, <3>2, StatusRow
    <3>4. app'[x] = IF x = a THEN [app[x] EXCEPT !.status = "APPLIED"] ELSE app[x]
      BY <1>0 DEF Apply, Table
    <3>5. RowOK(app'[x], x, paid')
      BY <3>1, <3>3, <3>4 DEF Apply
    <3> QED
      BY <3>5 DEF RowOK
  <2>2. app' = [x \in Apps |-> app'[x]]
    BY <1>0 DEF Apply, Table
  <2> QED
    BY <2>1, <2>2 DEF Table, RowsOK
<1>2. queue' \in [Apps -> 0..MaxTries] /\ \A x \in Apps : queue[x] > 0 => queue'[x] > 0
  <2>1. MaxTries \in 0..MaxTries /\ MaxTries > 0 /\ queue \in [Apps -> 0..MaxTries]
    BY <1>0, VettingAssumption DEF Jobs
  <2> QED
    BY <2>1 DEF Apply
<1>3. Jobs'
  BY <1>0, <1>2 DEF Jobs, JobsOK, Apply, Requests, RequestOK
<1>4. Requests'
  BY <1>0 DEF Requests, Apply
<1>5. faults' \in 0..MaxFaults
  BY <1>0, FaultOK DEF Rest, Apply
<1>6. vetted' \in Vetted
  BY <1>0 DEF Rest, Apply, Vetted
<1>7. Rest' /\ OpenRowsOK' /\ (paid \subseteq Apps)'
  BY <1>0, <1>5, <1>6 DEF Rest, OpenRowsOK, Apply
<1> QED
  BY <1>1, <1>3, <1>4, <1>7, IInvParts, PTL

LEMMA EmployOK ==
    ASSUME IInv, NEW a \in Apps, Employ(a)
    PROVE  IInv'
<1>0. Rest /\ paid \subseteq Apps
  BY IInvParts
<1>1. acts' \in 0..MaxActs
  BY <1>0, DecideOK DEF Employ, Rest
<1>2. Table' /\ OpenRowsOK'
  BY TableStays DEF Employ
<1>3. Rest'
  BY <1>0, <1>1 DEF Employ, Rest
<1> QED
  BY <1>0, <1>2, <1>3, AroundOK DEF Employ

LEMMA RowClosesOK ==
    ASSUME IInv, NEW a \in Apps, RowCloses(a)
    PROVE  IInv'
<1>0. Rest /\ Table /\ OpenRowsOK /\ paid \subseteq Apps
  BY IInvParts
<1>1. acts' \in 0..MaxActs
  BY <1>0, DecideOK DEF RowCloses, Rest
<1>2. rows[a] - 1 \in 0..MaxRows
  BY <1>0, VettingAssumption DEF RowCloses, Rest
<1>3. rows' \in [Apps -> 0..MaxRows] /\ \A x \in Apps : rows'[x] > 0 => rows[x] > 0
  BY <1>0, <1>2 DEF RowCloses, Rest
<1>4. Rest' /\ Table' /\ OpenRowsOK'
  BY <1>0, <1>1, <1>3 DEF RowCloses, Rest, Table, RowsOK, OpenRowsOK
<1> QED
  BY <1>0, <1>4, AroundOK DEF RowCloses

LEMMA HourPassesOK ==
    ASSUME IInv, HourPasses
    PROVE  IInv'
<1>0. Rest /\ paid \subseteq Apps
  BY IInvParts
<1>1. Table' /\ OpenRowsOK'
  BY TableStays DEF HourPasses
<1>2. Rest'
  BY <1>0 DEF HourPasses, Rest, Vetted
<1> QED
  BY <1>0, <1>1, <1>2, AroundOK DEF HourPasses

-----------------------------------------------------------------------------
\* The steps of a vetting and of a settlement.

\* The local variables of a request or job that starts.
LEMMA StartOK ==
    ASSUME NEW h \in Handlers, NEW op \in Op, NEW pc \in PC \ {"write", "score", "settle"},
           NEW a \in Apps \union {None}, op = "queue" => a \in Apps,
           pc \in Choosing => a \in paid, Start(h, op, pc, a)
    PROVE  \E r \in Request :
             /\ RequestOK(r, paid) /\ r.op = op /\ r.app = a
             /\ req' = [req EXCEPT ![h] = r]
<1> DEFINE r == [NoRequest EXCEPT !.op = op, !.pc = pc, !.app = a]
<1>1. NoRequest \in Request /\ NoRequest.mem = Nothing /\ NoRequest.snap = Nothing
  BY NoRequestOK DEF NoRequest
<1>2. r \in Request
  BY <1>1 DEF Request
<1>3. r.pc = pc /\ r.op = op /\ r.app = a /\ r.mem = Nothing /\ r.snap = Nothing
  BY DEF NoRequest
<1>4. req' = [req EXCEPT ![h] = r]
  BY DEF Start
<1> HIDE DEF r
<1>5. RequestOK(r, paid)
  BY <1>3, NothingOK DEF RequestOK, EntitiesOK
<1> QED
  BY <1>2, <1>3, <1>4, <1>5

LEMMA SettleUnlockOK ==
    ASSUME IInv, NEW h \in Handlers, SettleUnlock(h)
    PROVE  IInv'
<1>0. Rest /\ Jobs /\ Table /\ Requests /\ OpenRowsOK /\ paid \subseteq Apps
  BY IInvParts
<1>1. paid \subseteq paid' /\ (paid \subseteq Apps)' /\ Existing \subseteq paid'
  BY <1>0 DEF SettleUnlock, Existing
<1>2. Table'
  <2>1. ASSUME NEW x \in Apps PROVE app'[x] \in Row /\ RowOK(app'[x], x, paid')
    <3> DEFINE u == app[x].unlocked \/ x \in Existing
    <3>1. RowOK(app[x], x, paid') /\ app[x] \in Row
      BY <1>0, <1>1, RowGrows DEF Table, RowsOK
    <3>2. u \in BOOLEAN /\ (u => x \in paid')
      BY <1>1, <3>1 DEF RowOK, Row
    <3>3. app'[x] = [app[x] EXCEPT !.unlocked = u]
      BY DEF SettleUnlock
    <3> HIDE DEF u
    <3>4. app'[x] \in Row /\ app'[x].unlocked = u /\ app'[x].status = app[x].status
      BY <3>1, <3>2, <3>3 DEF Row
    <3> QED
      BY <3>1, <3>2, <3>4 DEF RowOK
  <2>2. app' = [x \in Apps |-> app'[x]]
    BY DEF SettleUnlock
  <2> QED
    BY <2>1, <2>2 DEF Table, RowsOK
<1>3. Rest' /\ OpenRowsOK'
  BY <1>0, <1>1 DEF Rest, OpenRowsOK, SettleUnlock
<1>4. PICK r \in Request : /\ RequestOK(r, paid) /\ r.op = "pay"
                           /\ req' = [req EXCEPT ![h] = r]
  BY StartOK DEF SettleUnlock, Op, PC, Choosing
<1>5. Jobs'
  BY <1>0, <1>4, StepJobs DEF SettleUnlock
<1>6. Requests'
  <2>1. req' \in [Handlers -> Request]
    BY <1>0, <1>4 DEF Requests
  <2>2. ASSUME NEW i \in Handlers PROVE RequestOK(req'[i], paid')
    <3>1. req'[i] = IF i = h THEN r ELSE req[i]
      BY <1>0, <1>4 DEF Requests
    <3>2. req'[i] \in Request /\ RequestOK(req'[i], paid)
      BY <1>0, <1>4, <3>1 DEF Requests
    <3> QED
      BY <1>1, <3>2, RequestGrows
  <2> QED
    BY <2>1, <2>2 DEF Requests
<1> QED
  BY <1>1, <1>2, <1>3, <1>5, <1>6, IInvParts, PTL

LEMMA SettleScanOK ==
    ASSUME IInv, NEW h \in Handlers, SettleScan(h)
    PROVE  IInv'
<1> DEFINE todo == {a \in Apps : app[a].status = "APPLICANT_ACCEPTED"}
           n == [req[h] EXCEPT !.pc = "settle", !.todo = todo]
<1>0. /\ req[h] \in Request /\ RequestOK(req[h], paid) /\ acts \in 0..MaxActs
      /\ req \in [Handlers -> Request] /\ RowsOK
  BY DEF IInv, TypeOK
<1>1. req' = [req EXCEPT ![h] = n]
  BY <1>0 DEF SettleScan
<1>2. todo \in SUBSET Apps /\ (EmployerSets \intersect Gated = {} => todo \subseteq paid)
  BY <1>0 DEF RowsOK, RowOK, Gated
<1> HIDE DEF todo
<1>3. n \in Request
  BY <1>0, <1>2 DEF Request, PC
<1>4. /\ n.pc = "settle" /\ n.op = req[h].op /\ n.app = req[h].app
      /\ n.mem = req[h].mem /\ n.snap = req[h].snap /\ n.todo = todo
  BY <1>0 DEF Request
<1> HIDE DEF n
<1>5. RequestOK(n, paid)
  BY <1>0, <1>2, <1>4 DEF RequestOK, Choosing
<1>6. /\ Table' /\ OpenRowsOK' /\ rows' \in [Apps -> 0..MaxRows] /\ acts' \in 0..MaxActs
  BY <1>0, TableStays DEF SettleScan
<1> QED
  BY <1>1, <1>3, <1>4, <1>5, <1>6, StepOK DEF SettleScan

LEMMA QueueTakeOK ==
    ASSUME IInv, NEW h \in Handlers, NEW a \in Apps, QueueTake(h, a)
    PROVE  IInv'
<1>0. Rest /\ Jobs /\ Table /\ Requests /\ OpenRowsOK /\ paid \subseteq Apps
  BY IInvParts
<1>1. Rest' /\ Table' /\ OpenRowsOK' /\ (paid \subseteq Apps)'
  BY <1>0 DEF QueueTake, Rest, Table, RowsOK, OpenRowsOK
<1>2. CASE Skipped
  <2>1. queue' = [queue EXCEPT ![a] = 0] /\ req' = req /\ paid' = paid
    BY <1>2 DEF QueueTake
  <2>2. queue' \in [Apps -> 0..MaxTries]
    BY <1>0, <2>1, VettingAssumption DEF Jobs
  <2>3. \A i \in Handlers : req[i].op = "queue" =>
           req[i].app \in Apps /\ queue'[req[i].app] = queue[req[i].app]
    BY <1>0, <2>1 DEF QueueTake, Waiting, Requests, RequestOK, Jobs
  <2>4. Jobs'
    BY <1>0, <2>1, <2>2, <2>3 DEF Jobs, JobsOK
  <2>5. Requests'
    BY <1>0, <2>1 DEF Requests
  <2> QED
    BY <1>1, <2>4, <2>5, IInvParts, PTL
<1>3. CASE ~Skipped
  <2>1. PICK r \in Request : /\ RequestOK(r, paid) /\ r.op = "queue" /\ r.app = a
                             /\ req' = [req EXCEPT ![h] = r]
    BY <1>3, StartOK DEF QueueTake, Op, PC, Choosing
  <2>2. Requests'
    BY <1>0, <2>1, StepRequests DEF QueueTake
  <2>3. \A i \in Handlers : req'[i] = IF i = h THEN r ELSE req[i]
    BY <1>0, <2>1 DEF Requests
  <2>4. queue' = queue /\ queue[a] > 0
    BY <1>3 DEF QueueTake, Waiting
  <2>5. \A i \in Handlers : ~(req[i].op = "queue" /\ req[i].app = a)
    BY DEF QueueTake, Waiting
  <2>6. Jobs'
    BY <1>0, <2>1, <2>3, <2>4, <2>5 DEF Jobs, JobsOK
  <2> QED
    BY <1>1, <2>2, <2>6, IInvParts, PTL
<1> QED
  BY <1>2, <1>3

\* A vetting that no queue job starts.
LEMMA VetStartsOK ==
    ASSUME IInv, NEW h \in Handlers, Start(h, "vet", "load", None),
           UNCHANGED <<app, rows, busy, vetted, queue, paid, acts, faults>>
    PROVE  IInv'
<1>1. PICK r \in Request : /\ RequestOK(r, paid) /\ r.op = "vet"
                           /\ req' = [req EXCEPT ![h] = r]
  BY StartOK DEF Op, PC, Choosing
<1>2. Table' /\ OpenRowsOK' /\ rows' \in [Apps -> 0..MaxRows]
  BY TableStays
<1>3. acts' \in 0..MaxActs
  BY DEF IInv, TypeOK
<1> QED
  BY <1>1, <1>2, <1>3, StepOK

LEMMA VetLoadOK ==
    ASSUME IInv, NEW h \in Handlers, VetLoad(h)
    PROVE  IInv'
<1> DEFINE mem == [a \in Existing |-> app[a]]
           n == [req[h] EXCEPT !.pc = "score", !.mem = mem, !.todo = Existing]
<1>0. /\ req[h] \in Request /\ RequestOK(req[h], paid) /\ acts \in 0..MaxActs
      /\ req \in [Handlers -> Request] /\ app \in [Apps -> Row] /\ RowsOK
  BY DEF IInv, TypeOK
<1>1. Existing \in SUBSET Apps
  BY DEF Existing
<1>2. mem \in Entities /\ DOMAIN mem = Existing /\ EntitiesOK(mem, paid)
  BY <1>0, <1>1, LoadedOK
<1>3. req' = [req EXCEPT ![h] = n]
  BY <1>0 DEF VetLoad
<1> HIDE DEF mem
<1>4. n \in Request
  BY <1>0, <1>1, <1>2 DEF Request, PC
<1>5. /\ n.pc = "score" /\ n.op = req[h].op /\ n.app = req[h].app /\ n.mem = mem
      /\ n.snap = req[h].snap /\ n.todo = Existing
  BY <1>0 DEF Request
<1> HIDE DEF n
<1>6. RequestOK(n, paid)
  BY <1>0, <1>2, <1>5 DEF RequestOK, Choosing
<1>7. /\ Table' /\ OpenRowsOK' /\ rows' \in [Apps -> 0..MaxRows] /\ acts' \in 0..MaxActs
  BY <1>0, TableStays DEF VetLoad
<1> QED
  BY <1>3, <1>4, <1>5, <1>6, <1>7, StepOK DEF VetLoad

LEMMA VetScoreOK ==
    ASSUME IInv, NEW h \in Handlers, VetScore(h)
    PROVE  IInv'
<1> DEFINE r == req[h]
<1>0. r \in Request /\ RequestOK(r, paid) /\ r.pc = "score"
  BY DEF IInv, TypeOK, VetScore, At
<1>1. PICK a \in r.todo :
        req' = [req EXCEPT ![h] =
                  IF a \in busy
                  THEN [r EXCEPT !.todo = @ \ {a}]
                  ELSE [r EXCEPT !.todo = @ \ {a}, !.ranked = @ \union {a},
                                 !.mem = Scored(@, a)]]
  BY DEF VetScore
<1> DEFINE n == [r EXCEPT !.todo = @ \ {a}]
           m == [r EXCEPT !.todo = @ \ {a}, !.ranked = @ \union {a},
                          !.mem = Scored(@, a)]
<1>2. n \in Request /\ RequestOK(n, paid) /\ n.op = r.op /\ n.app = r.app
  BY <1>0, LoopOK
<1>3. m \in Request /\ RequestOK(m, paid) /\ m.op = r.op /\ m.app = r.app
  BY <1>0, LoopOK
<1>4. req' = [req EXCEPT ![h] = IF a \in busy THEN n ELSE m]
  BY <1>1
<1>5. /\ Table' /\ OpenRowsOK' /\ rows' \in [Apps -> 0..MaxRows]
      /\ acts' \in 0..MaxActs
  BY TableStays DEF VetScore, IInv, TypeOK
<1>6. UNCHANGED <<busy, vetted, queue, paid, faults>>
  BY DEF VetScore
<1> HIDE DEF n, m
<1>7. CASE a \in busy
  BY <1>2, <1>4, <1>5, <1>6, <1>7, StepOK
<1>8. CASE a \notin busy
  BY <1>3, <1>4, <1>5, <1>6, <1>8, StepOK
<1> QED
  BY <1>7, <1>8

LEMMA VetHighlightOK ==
    ASSUME IInv, NEW h \in Handlers, VetHighlight(h)
    PROVE  IInv'
<1> DEFINE r == req[h]
           snap == [a \in DOMAIN r.mem |-> app[a]]
<1>0. /\ r \in Request /\ RequestOK(r, paid) /\ r.mem \in Entities
      /\ EntitiesOK(r.mem, paid) /\ app \in [Apps -> Row] /\ RowsOK
  BY DEF IInv, TypeOK, Request, RequestOK
<1>1. PICK T : req' = [req EXCEPT ![h] = [r EXCEPT !.pc = "write",
                                   !.mem = Highlighted(r.mem, r.ranked, T),
                                   !.snap = snap]]
  BY DEF VetHighlight
<1> DEFINE mem == Highlighted(r.mem, r.ranked, T)
           n == [r EXCEPT !.pc = "write", !.mem = mem, !.snap = snap]
<1>2. mem \in Entities /\ DOMAIN mem = DOMAIN r.mem /\ EntitiesOK(mem, paid)
  BY <1>0, HighlightedOK
<1>3. DOMAIN r.mem \in SUBSET Apps
  BY <1>0, EntitiesElim
<1>4. snap \in Entities /\ DOMAIN snap = DOMAIN r.mem /\ EntitiesOK(snap, paid)
  BY <1>0, <1>3, LoadedOK
<1>5. req' = [req EXCEPT ![h] = n]
  BY <1>1
<1> HIDE DEF mem, snap, r
<1>6. n \in Request /\ RequestOK(n, paid) /\ n.op = r.op /\ n.app = r.app
  <2>1. n \in Request
    BY <1>0, <1>2, <1>4 DEF Request, PC
  <2>2. n.pc = "write" /\ n.op = r.op /\ n.app = r.app /\ n.mem = mem /\ n.snap = snap
    BY <1>0 DEF Request
  <2> HIDE DEF n
  <2>3. RequestOK(n, paid)
    BY <1>0, <1>2, <1>4, <2>2 DEF RequestOK, Choosing
  <2> QED
    BY <2>1, <2>2, <2>3
<1>7. /\ Table' /\ OpenRowsOK' /\ rows' \in [Apps -> 0..MaxRows]
      /\ acts' \in 0..MaxActs
  BY TableStays DEF VetHighlight, IInv, TypeOK
<1> HIDE DEF n
<1> QED
  BY <1>5, <1>6, <1>7, StepOK DEF VetHighlight, r

\* The rows after an action are good if each one is.
LEMMA TableOK ==
    ASSUME NEW f, app' = [a \in Apps |-> f[a]], \A a \in Apps : RowOK(f[a], a, paid),
           paid' = paid
    PROVE  Table'
<1>1. \A a \in Apps : app'[a] = f[a]
  OBVIOUS
<1>2. \A a \in Apps : RowOK(app'[a], a, paid') /\ app'[a] \in Row
  BY <1>1 DEF RowOK
<1>3. app' = [a \in Apps |-> app'[a]]
  OBVIOUS
<1> QED
  BY <1>2, <1>3 DEF Table, RowsOK

LEMMA VetAdvanceOK ==
    ASSUME IInv, NEW h \in Handlers, VetAdvance(h)
    PROVE  IInv'
<1> DEFINE f == [a \in Apps |-> IF a \in req[h].ranked THEN Advanced(app[a]) ELSE app[a]]
           n == [req[h] EXCEPT !.pc = "complete"]
<1>0. /\ req[h] \in Request /\ RequestOK(req[h], paid) /\ RowsOK
      /\ rows \in [Apps -> 0..MaxRows] /\ acts \in 0..MaxActs /\ OpenRowsOK
      /\ req \in [Handlers -> Request]
  BY DEF IInv, TypeOK
<1>1. \A a \in Apps : RowOK(f[a], a, paid)
  BY <1>0, VetRow DEF RowsOK
<1>2. app' = [a \in Apps |-> f[a]] /\ paid' = paid
  BY DEF VetAdvance
<1> HIDE DEF f
<1>3. Table'
  BY <1>1, <1>2, TableOK
<1>4. n \in Request /\ RequestOK(n, paid) /\ n.op = req[h].op /\ n.app = req[h].app
  BY <1>0, MovedOK DEF PC, Choosing
<1>5. req' = [req EXCEPT ![h] = n]
  BY <1>0 DEF VetAdvance, Goto
<1>6. rows' \in [Apps -> 0..MaxRows] /\ OpenRowsOK' /\ acts' \in 0..MaxActs
  BY <1>0 DEF VetAdvance, OpenRowsOK
<1> HIDE DEF n
<1> QED
  BY <1>3, <1>4, <1>5, <1>6, StepOK DEF VetAdvance

LEMMA VetCompleteOK ==
    ASSUME IInv, NEW h \in Handlers, VetComplete(h)
    PROVE  IInv'
<1>0. Rest /\ Jobs /\ Table /\ Requests /\ OpenRowsOK /\ paid \subseteq Apps
  BY IInvParts
<1>1. /\ queue' \in [Apps -> 0..MaxTries]
      /\ \A a \in Apps : queue'[a] # queue[a] => req[h].op = "queue" /\ req[h].app = a
  <2>1. queue \in [Apps -> 0..MaxTries] /\ 0 \in 0..MaxTries
    BY <1>0, VettingAssumption DEF Jobs
  <2> QED
    BY <2>1 DEF VetComplete
<1>2. Return(h) /\ paid' = paid
  BY DEF VetComplete
<1>3. Jobs' /\ Requests'
  BY <1>0, <1>1, <1>2, EndJobs, EndRequests
<1>4. Rest' /\ (paid \subseteq Apps)'
  BY <1>0 DEF Rest, VetComplete, Vetted
<1>5. Table' /\ OpenRowsOK'
  BY TableStays DEF VetComplete
<1> QED
  BY <1>3, <1>4, <1>5, IInvParts, PTL

LEMMA SettleAdvanceOK ==
    ASSUME IInv, NEW h \in Handlers, SettleAdvance(h)
    PROVE  IInv'
<1> DEFINE f == [a \in Apps |-> IF a \in req[h].todo
                                THEN [app[a] EXCEPT !.status = "PAYMENT_COMPLETE"]
                                ELSE app[a]]
<1>0. /\ RequestOK(req[h], paid) /\ req[h].pc = "settle" /\ RowsOK
      /\ rows \in [Apps -> 0..MaxRows] /\ acts \in 0..MaxActs /\ OpenRowsOK
  BY DEF IInv, TypeOK, SettleAdvance, At
<1>1. ASSUME NEW a \in Apps PROVE RowOK(f[a], a, paid)
  <2>1. RowOK(app[a], a, paid) /\ "PAYMENT_COMPLETE" \in Status
    BY <1>0 DEF RowsOK, Status
  <2>2. CASE a \in req[h].todo
    <3>1. EmployerSets \intersect Gated = {} => a \in paid
      BY <1>0, <2>2 DEF RequestOK
    <3>2. RowOK([app[a] EXCEPT !.status = "PAYMENT_COMPLETE"], a, paid)
      BY <2>1, <3>1, StatusRow
    <3> QED
      BY <2>2, <3>2
  <2>3. CASE a \notin req[h].todo
    BY <2>1, <2>3
  <2> QED
    BY <2>2, <2>3
<1>2. app' = [a \in Apps |-> f[a]] /\ paid' = paid
  BY DEF SettleAdvance
<1> HIDE DEF f
<1>3. Table'
  BY <1>1, <1>2, TableOK
<1>4. NoRequest \in Request /\ RequestOK(NoRequest, paid) /\ NoRequest.op # "queue"
  BY NoRequestOK
<1>5. /\ req' = [req EXCEPT ![h] = NoRequest] /\ rows' \in [Apps -> 0..MaxRows]
      /\ OpenRowsOK' /\ acts' \in 0..MaxActs
  BY <1>0 DEF SettleAdvance, Return, OpenRowsOK
<1> QED
  BY <1>3, <1>4, <1>5, StepOK DEF SettleAdvance

-----------------------------------------------------------------------------
\* Saving rows.

LEMMA SaveReloadOK ==
    ASSUME IInv, NEW h \in Handlers, SaveReload(h)
    PROVE  IInv'
<1> DEFINE r == req[h]
           snap == [a \in DOMAIN r.mem |-> app[a]]
           n == [r EXCEPT !.pc = "write", !.snap = snap]
<1>0. /\ r \in Request /\ RequestOK(r, paid) /\ r.mem \in Entities
      /\ EntitiesOK(r.mem, paid) /\ app \in [Apps -> Row] /\ RowsOK
      /\ req \in [Handlers -> Request]
  BY DEF IInv, TypeOK, Request, RequestOK
<1>1. req' = [req EXCEPT ![h] = n]
  BY <1>0 DEF SaveReload
<1>2. DOMAIN r.mem \in SUBSET Apps
  BY <1>0, EntitiesElim
<1>3. snap \in Entities /\ DOMAIN snap = DOMAIN r.mem /\ EntitiesOK(snap, paid)
  BY <1>0, <1>2, LoadedOK
<1> HIDE DEF r, snap
<1>4. n \in Request
  BY <1>0, <1>3 DEF Request, PC
<1>5. n.pc = "write" /\ n.op = r.op /\ n.app = r.app /\ n.mem = r.mem /\ n.snap = snap
  BY <1>0 DEF Request
<1> HIDE DEF n
<1>6. RequestOK(n, paid)
  BY <1>0, <1>3, <1>5 DEF RequestOK, Choosing
<1>7. /\ Table' /\ OpenRowsOK' /\ rows' \in [Apps -> 0..MaxRows]
      /\ acts' \in 0..MaxActs
  BY TableStays DEF SaveReload, IInv, TypeOK
<1> QED
  BY <1>1, <1>4, <1>5, <1>6, <1>7, StepOK DEF SaveReload, r

\* What a save leaves in the table.
LEMMA SavedTableOK ==
    ASSUME IInv, NEW h \in Handlers, SaveWrite(h)
    PROVE  Table'
<1> DEFINE r == req[h]
           f == [a \in Apps |-> IF a \in DOMAIN r.mem
                                THEN SaveRow(app[a], r.snap[a], r.mem[a]) ELSE app[a]]
<1>0. RequestOK(r, paid) /\ r.pc = "write" /\ RowsOK
  BY DEF IInv, SaveWrite, At
<1>1. EntitiesOK(r.mem, paid) /\ EntitiesOK(r.snap, paid) /\ DOMAIN r.snap = DOMAIN r.mem
  BY <1>0 DEF RequestOK
<1>2. ASSUME NEW a \in Apps PROVE RowOK(f[a], a, paid)
  <2>1. RowOK(app[a], a, paid)
    BY <1>0 DEF RowsOK
  <2>2. CASE a \in DOMAIN r.mem
    <3>1. RowOK(r.snap[a], a, paid) /\ RowOK(r.mem[a], a, paid)
      BY <1>1, <2>2 DEF EntitiesOK
    <3>2. RowOK(SaveRow(app[a], r.snap[a], r.mem[a]), a, paid)
      BY <2>1, <3>1, SaveRowOK
    <3> QED
      BY <2>2, <3>2
  <2>3. CASE a \notin DOMAIN r.mem
    BY <2>1, <2>3
  <2> QED
    BY <2>2, <2>3
<1>3. app' = [a \in Apps |-> f[a]] /\ paid' = paid
  BY DEF SaveWrite
<1> HIDE DEF f
<1> QED
  BY <1>2, <1>3, TableOK

LEMMA SaveWriteOK ==
    ASSUME IInv, NEW h \in Handlers, SaveWrite(h)
    PROVE  IInv'
<1> DEFINE n == [req[h] EXCEPT !.pc = "advance"]
<1>0. /\ req[h] \in Request /\ RequestOK(req[h], paid)
      /\ rows \in [Apps -> 0..MaxRows] /\ acts \in 0..MaxActs /\ OpenRowsOK
      /\ req \in [Handlers -> Request]
  BY DEF IInv, TypeOK
<1>1. Table'
  BY SavedTableOK
<1>2. rows' \in [Apps -> 0..MaxRows] /\ OpenRowsOK' /\ acts' \in 0..MaxActs
  BY <1>0 DEF SaveWrite, OpenRowsOK
<1>3. CASE Return(h)
  <2>1. NoRequest \in Request /\ RequestOK(NoRequest, paid) /\ NoRequest.op = "none"
    BY NoRequestOK
  <2>2. req' = [req EXCEPT ![h] = NoRequest]
    BY <1>3 DEF Return
  <2>3. NoRequest.op = "queue" => req[h].op = "queue" /\ NoRequest.app = req[h].app
    BY <2>1
  <2> QED
    BY <1>1, <1>2, <2>1, <2>2, <2>3, StepOK DEF SaveWrite
<1>4. CASE Goto(h, "advance")
  <2>1. n \in Request /\ RequestOK(n, paid) /\ n.op = req[h].op /\ n.app = req[h].app
    BY <1>0, MovedOK DEF PC, Choosing
  <2>2. req' = [req EXCEPT ![h] = n]
    BY <1>0, <1>4 DEF Goto
  <2> HIDE DEF n
  <2> QED
    BY <1>1, <1>2, <2>1, <2>2, StepOK DEF SaveWrite
<1> QED
  BY <1>3, <1>4 DEF SaveWrite

\* A handler that is about to save a row with another status.
LEMMA EditToOK ==
    ASSUME IInv, NEW h \in Handlers, NEW a \in Apps, NEW s \in Status,
           EmployerSets \intersect Gated = {} => (s \in Gated => a \in paid),
           EditTo(h, a, s)
    PROVE  IInv'
<1> DEFINE mem == [x \in {a} |-> [app[a] EXCEPT !.status = s]]
           n == [NoRequest EXCEPT !.op = "edit", !.pc = "reload", !.app = a, !.mem = mem]
<1>0. /\ RowOK(app[a], a, paid) /\ acts \in 0..MaxActs
  BY DEF IInv, TypeOK, RowsOK
<1>1. RowOK([app[a] EXCEPT !.status = s], a, paid)
  BY <1>0, StatusRow
<1>2. mem \in [{a} -> Row] /\ \A x \in DOMAIN mem : RowOK(mem[x], x, paid)
  BY <1>1 DEF RowOK
<1>3. req' = [req EXCEPT ![h] = n]
  BY DEF EditTo
<1> HIDE DEF mem
<1>4. mem \in Entities /\ EntitiesOK(mem, paid)
  BY <1>2, EntitiesIntro DEF EntitiesOK
<1>5. NoRequest \in Request /\ NoRequest.snap = Nothing
  BY NoRequestOK DEF NoRequest
<1>6. n \in Request
  BY <1>4, <1>5 DEF Request, PC, Op
<1>7. n.pc = "reload" /\ n.op = "edit" /\ n.mem = mem /\ n.snap = Nothing
  BY DEF NoRequest
<1> HIDE DEF n
<1>8. RequestOK(n, paid)
  BY <1>4, <1>7, NothingOK DEF RequestOK, EntitiesOK, Choosing
<1>9. /\ Table' /\ OpenRowsOK' /\ rows' \in [Apps -> 0..MaxRows]
  BY TableStays DEF EditTo
<1>10. acts' \in 0..MaxActs
  BY <1>0, DecideOK DEF EditTo
<1>11. UNCHANGED <<busy, vetted, queue, paid, faults>>
  BY DEF EditTo
<1> QED
  BY <1>3, <1>6, <1>7, <1>8, <1>9, <1>10, <1>11, StepOK

LEMMA EditsOK ==
    ASSUME IInv, NEW h \in Handlers, NEW a \in Apps,
           SetStatus(h, a) \/ Reply(h, a) \/ Withdraw(h, a)
    PROVE  IInv'
<1>1. CASE SetStatus(h, a)
  <2>1. PICK s \in EmployerSets : EditTo(h, a, s)
    BY <1>1 DEF SetStatus
  <2>2. s \in Status /\ (EmployerSets \intersect Gated = {} => s \notin Gated)
    BY VettingAssumption
  <2> QED
    BY <2>1, <2>2, EditToOK
<1>2. CASE EditTo(h, a, "WITHDRAWN")
  BY <1>2, EditToOK DEF Status, Gated
<1>3. CASE Reply(h, a)
  <2>1. EmployerSets \intersect Gated = {} => a \in paid
    <3>1. RowOK(app[a], a, paid) /\ app[a].status \in Gated
      BY <1>3 DEF IInv, RowsOK, Reply, Gated
    <3> QED
      BY <3>1 DEF RowOK
  <2>2. \/ EditTo(h, a, "PAYMENT_COMPLETE") \/ EditTo(h, a, "APPLICANT_ACCEPTED")
        \/ EditTo(h, a, "WITHDRAWN")
    BY <1>3 DEF Reply
  <2>3. /\ "PAYMENT_COMPLETE" \in Status /\ "APPLICANT_ACCEPTED" \in Status
    BY DEF Status
  <2> QED
    BY <1>2, <2>1, <2>2, <2>3, EditToOK
<1> QED
  BY <1>1, <1>2, <1>3 DEF Withdraw

-----------------------------------------------------------------------------
\* Selections and picks.

\* Their guards let only unlocked candidates through.
LEMMA ChooseOK ==
    ASSUME IInv, NEW h \in Handlers, NEW a \in Apps, app[a].unlocked,
           acts' \in 0..MaxActs,
           \/ Start(h, "select", "select", a)
           \/ Start(h, "pick", "check", a),
           UNCHANGED <<app, rows, busy, vetted, queue, paid, faults>>
    PROVE  IInv'
<1>0. RowOK(app[a], a, paid)
  BY DEF IInv, RowsOK
<1>1. a \in paid
  BY <1>0 DEF RowOK
<1>2. Table' /\ OpenRowsOK' /\ rows' \in [Apps -> 0..MaxRows]
  BY TableStays
<1>3. ASSUME NEW op \in {"select", "pick"}, NEW pc \in {"select", "check"},
             Start(h, op, pc, a)
      PROVE  IInv'
  <2>1. op \in Op /\ op # "queue" /\ pc \in PC \ {"write", "score", "settle"}
    BY DEF Op, PC
  <2>2. PICK r \in Request : /\ RequestOK(r, paid) /\ r.op = op
                             /\ req' = [req EXCEPT ![h] = r]
    BY <1>1, <1>3, <2>1, StartOK
  <2> QED
    BY <1>2, <2>1, <2>2, StepOK
<1> QED
  BY <1>3

\* The update of a row a to a status that a paid candidate may have.
LEMMA StatusTableOK ==
    ASSUME IInv, NEW a \in Apps, a \in paid, NEW s \in Status,
           app' = [app EXCEPT ![a].status = s], paid' = paid
    PROVE  Table'
<1> DEFINE f == [x \in Apps |-> IF x = a THEN [app[x] EXCEPT !.status = s] ELSE app[x]]
<1>0. app \in [Apps -> Row] /\ RowsOK
  BY DEF IInv, TypeOK
<1>1. \A x \in Apps : RowOK(f[x], x, paid)
  BY <1>0, StatusRow DEF RowsOK
<1>2. app' = [x \in Apps |-> f[x]]
  BY <1>0
<1> HIDE DEF f
<1> QED
  BY <1>1, <1>2, TableOK

LEMMA SelectWriteOK ==
    ASSUME IInv, NEW h \in Handlers, SelectWrite(h)
    PROVE  IInv'
<1> DEFINE a == req[h].app
<1>0. /\ rows \in [Apps -> 0..MaxRows] /\ acts \in 0..MaxActs /\ OpenRowsOK
      /\ RequestOK(req[h], paid) /\ req[h].pc = "select" /\ paid \subseteq Apps
  BY DEF IInv, TypeOK, SelectWrite, At
<1>1. a \in paid /\ a \in Apps
  BY <1>0 DEF RequestOK, Choosing
<1>2. "SELECTED_FOR_SCREENING" \in Status
  BY DEF Status
<1>3. app' = [app EXCEPT ![a].status = "SELECTED_FOR_SCREENING"] /\ paid' = paid
  BY DEF SelectWrite
<1>4. Table'
  BY <1>1, <1>2, <1>3, StatusTableOK
<1>5. NoRequest \in Request /\ RequestOK(NoRequest, paid) /\ NoRequest.op # "queue"
  BY NoRequestOK
<1>6. req' = [req EXCEPT ![h] = NoRequest]
  BY DEF SelectWrite, Return
<1>7. rows' \in [Apps -> 0..MaxRows] /\ OpenRowsOK' /\ acts' \in 0..MaxActs
  BY <1>0 DEF SelectWrite, OpenRowsOK
<1> QED
  BY <1>4, <1>5, <1>6, <1>7, StepOK DEF SelectWrite

LEMMA PickCheckOK ==
    ASSUME IInv, NEW h \in Handlers, PickCheck(h)
    PROVE  IInv'
<1> DEFINE n == [req[h] EXCEPT !.pc = "clear"]
<1>0. /\ req[h] \in Request /\ RequestOK(req[h], paid) /\ req[h].pc = "check"
      /\ acts \in 0..MaxActs /\ req \in [Handlers -> Request]
  BY DEF IInv, TypeOK, PickCheck, At
<1>1. req[h].app \in paid
  BY <1>0 DEF RequestOK, Choosing
<1>2. /\ Table' /\ OpenRowsOK' /\ rows' \in [Apps -> 0..MaxRows] /\ acts' \in 0..MaxActs
  BY <1>0, TableStays DEF PickCheck
<1>3. CASE Return(h)
  <2>1. NoRequest \in Request /\ RequestOK(NoRequest, paid) /\ NoRequest.op # "queue"
    BY NoRequestOK
  <2>2. req' = [req EXCEPT ![h] = NoRequest]
    BY <1>3 DEF Return
  <2> QED
    BY <1>2, <2>1, <2>2, StepOK DEF PickCheck
<1>4. CASE Goto(h, "clear")
  <2>1. n \in Request /\ RequestOK(n, paid) /\ n.op = req[h].op /\ n.app = req[h].app
    BY <1>0, <1>1, MovedOK DEF PC
  <2>2. req' = [req EXCEPT ![h] = n]
    BY <1>0, <1>4 DEF Goto
  <2> HIDE DEF n
  <2> QED
    BY <1>2, <2>1, <2>2, StepOK DEF PickCheck
<1> QED
  BY <1>3, <1>4 DEF PickCheck

LEMMA PickClearOK ==
    ASSUME IInv, NEW h \in Handlers, PickClear(h)
    PROVE  IInv'
<1> DEFINE todo == {a \in Apps : app[a].status \in Pickable}
           n == [req[h] EXCEPT !.pc = "commit", !.todo = todo]
<1>0. /\ req[h] \in Request /\ RequestOK(req[h], paid) /\ req[h].pc = "clear"
      /\ acts \in 0..MaxActs /\ req \in [Handlers -> Request]
  BY DEF IInv, TypeOK, PickClear, At
<1>1. req' = [req EXCEPT ![h] = n]
  BY <1>0 DEF PickClear
<1>2. todo \in SUBSET Apps
  OBVIOUS
<1> HIDE DEF todo
<1>3. n \in Request /\ RequestOK(n, paid) /\ n.op = req[h].op /\ n.app = req[h].app
  BY <1>0, <1>2, OpenedOK
<1>4. /\ Table' /\ OpenRowsOK' /\ rows' \in [Apps -> 0..MaxRows] /\ acts' \in 0..MaxActs
  BY <1>0, TableStays DEF PickClear
<1> HIDE DEF n
<1> QED
  BY <1>1, <1>3, <1>4, StepOK DEF PickClear

LEMMA PickCommitOK ==
    ASSUME IInv, NEW h \in Handlers, PickCommit(h)
    PROVE  IInv'
<1> DEFINE a == req[h].app
           cleared == {x \in req[h].todo : app[x].status \in Pickable}
           f == [x \in Apps |->
                   IF x = a THEN [app[x] EXCEPT !.status = "OFFER_SENT"]
                   ELSE IF x \in cleared THEN [app[x] EXCEPT !.status = "VETTED"]
                   ELSE app[x]]
<1>0. /\ rows \in [Apps -> 0..MaxRows] /\ acts \in 0..MaxActs /\ OpenRowsOK /\ RowsOK
      /\ RequestOK(req[h], paid) /\ req[h].pc = "commit" /\ paid \subseteq Apps
  BY DEF IInv, TypeOK, PickCommit, At
<1>1. a \in paid /\ a \in Apps
  BY <1>0 DEF RequestOK, Choosing
<1>2. "OFFER_SENT" \in Status /\ "VETTED" \in Status /\ "VETTED" \notin Gated
  BY DEF Status, Gated
<1>3. ASSUME NEW x \in Apps PROVE RowOK(f[x], x, paid)
  <2>1. RowOK(app[x], x, paid)
    BY <1>0 DEF RowsOK
  <2>2. RowOK([app[x] EXCEPT !.status = "VETTED"], x, paid)
    BY <1>2, <2>1, StatusRow
  <2>3. CASE x = a
    BY <1>1, <1>2, <2>1, <2>3, StatusRow
  <2>4. CASE x # a
    BY <2>1, <2>2, <2>4
  <2> QED
    BY <2>3, <2>4
<1>4. /\ app' = [x \in Apps |-> f[x]] /\ paid' = paid
      /\ rows[a] < MaxRows /\ rows' = [rows EXCEPT ![a] = @ + 1]
  BY DEF PickCommit
<1> HIDE DEF f
<1>5. Table'
  BY <1>3, <1>4, TableOK
<1>6. rows[a] + 1 \in 0..MaxRows
  BY <1>0, <1>1, <1>4, VettingAssumption
<1>7. rows' \in [Apps -> 0..MaxRows] /\ OpenRowsOK'
  BY <1>0, <1>1, <1>4, <1>6 DEF OpenRowsOK
<1>8. NoRequest \in Request /\ RequestOK(NoRequest, paid) /\ NoRequest.op # "queue"
  BY NoRequestOK
<1>9. /\ req' = [req EXCEPT ![h] = NoRequest] /\ acts' \in 0..MaxActs
      /\ UNCHANGED <<busy, vetted, queue, paid, faults>>
  BY <1>0 DEF PickCommit, Return
<1> QED
  BY <1>5, <1>7, <1>8, <1>9, StepOK

-----------------------------------------------------------------------------
\* Failures.

LEMMA AbortOK ==
    ASSUME IInv, NEW h \in Handlers, Abort(h)
    PROVE  IInv'
<1>0. Rest /\ Jobs /\ Table /\ Requests /\ OpenRowsOK /\ paid \subseteq Apps
  BY IInvParts
<1>1. /\ queue' \in [Apps -> 0..MaxTries]
      /\ \A a \in Apps : queue'[a] # queue[a] => req[h].op = "queue" /\ req[h].app = a
  <2>1. CASE req[h].op = "queue"
    <3> DEFINE a == req[h].app
    <3>1. a \in Apps /\ queue[a] > 0 /\ queue \in [Apps -> 0..MaxTries]
      BY <1>0, <2>1 DEF Requests, RequestOK, Jobs, JobsOK
    <3>2. queue[a] - 1 \in 0..MaxTries
      BY <3>1, VettingAssumption
    <3>3. queue' = [queue EXCEPT ![a] = queue[a] - 1]
      BY <2>1 DEF Abort
    <3> QED
      BY <2>1, <3>1, <3>2, <3>3
  <2>2. CASE req[h].op # "queue"
    BY <1>0, <2>2 DEF Abort, Jobs
  <2> QED
    BY <2>1, <2>2
<1>2. Return(h) /\ paid' = paid
  BY DEF Abort
<1>3. Jobs' /\ Requests'
  BY <1>0, <1>1, <1>2, EndJobs, EndRequests
<1>4. faults' \in 0..MaxFaults
  BY <1>0, FaultOK DEF Rest, Abort
<1>5. Rest' /\ (paid \subseteq Apps)'
  BY <1>0, <1>4 DEF Rest, Abort
<1>6. Table' /\ OpenRowsOK'
  BY TableStays DEF Abort
<1> QED
  BY <1>3, <1>5, <1>6, IInvParts, PTL

LEMMA CrashOK ==
    ASSUME IInv, Crash
    PROVE  IInv'
<1>0. Rest /\ Jobs /\ Table /\ Requests /\ OpenRowsOK /\ paid \subseteq Apps
  BY IInvParts
<1>1. req' = [h \in Handlers |-> NoRequest] /\ paid' = paid /\ queue' = queue
  BY DEF Crash
<1>2. /\ NoRequest \in Request /\ RequestOK(NoRequest, paid) /\ NoRequest.op = "none"
  BY NoRequestOK
<1>3. \A h \in Handlers : req'[h] = NoRequest
  BY <1>1
<1>4. Requests'
  BY <1>1, <1>2, <1>3 DEF Requests
<1>5. Jobs'
  BY <1>0, <1>1, <1>2, <1>3 DEF Jobs, JobsOK
<1>6. faults' \in 0..MaxFaults
  BY <1>0, FaultOK DEF Rest, Crash
<1>7. Rest' /\ (paid \subseteq Apps)'
  BY <1>0, <1>6 DEF Rest, Crash
<1>8. Table' /\ OpenRowsOK'
  BY TableStays DEF Crash
<1> QED
  BY <1>4, <1>5, <1>7, <1>8, IInvParts, PTL

-----------------------------------------------------------------------------
\* The invariant.

LEMMA InitOK == Init => IInv
<1> SUFFICES ASSUME Init PROVE IInv
  OBVIOUS
<1>1. Rest
  BY VettingAssumption DEF Init, Rest, Vetted
<1>2. /\ NoRequest \in Request /\ RequestOK(NoRequest, paid) /\ NoRequest.op = "none"
      /\ \A h \in Handlers : req[h] = NoRequest
  BY NoRequestOK DEF Init
<1>3. Jobs
  BY <1>2, VettingAssumption DEF Init, Jobs, JobsOK
<1>4. Requests
  BY <1>2 DEF Init, Requests
<1>5. Table
  BY DEF Init, Table, RowsOK, RowOK, Row, Status, Gated
<1>6. OpenRowsOK /\ paid \subseteq Apps
  BY DEF Init, OpenRowsOK
<1> QED
  BY <1>1, <1>3, <1>4, <1>5, <1>6, IInvParts

LEMMA StutterOK ==
    ASSUME IInv, UNCHANGED vars
    PROVE  IInv'
<1>0. Rest
  BY IInvParts
<1>1. Table' /\ OpenRowsOK'
  BY TableStays DEF vars
<1>2. Rest'
  BY <1>0 DEF Rest, vars
<1>3. paid \subseteq Apps
  BY IInvParts
<1> QED
  BY <1>1, <1>2, <1>3, AroundOK DEF vars

LEMMA NextOK ==
    ASSUME IInv, Next
    PROVE  IInv'
<1>1. ASSUME NEW a \in Apps, Apply(a) \/ Employ(a) \/ RowCloses(a) PROVE IInv'
  BY <1>1, ApplyOK, EmployOK, RowClosesOK
<1>2. CASE HourPasses \/ Crash
  BY <1>2, HourPassesOK, CrashOK
<1>3. ASSUME NEW h \in Handlers, NEW a \in Apps,
             \/ QueueTake(h, a) \/ SetStatus(h, a) \/ Reply(h, a) \/ Withdraw(h, a)
             \/ SelectLoad(h, a) \/ PickLoad(h, a)
      PROVE  IInv'
  <2>1. CASE QueueTake(h, a)
    BY <2>1, QueueTakeOK
  <2>2. CASE SetStatus(h, a) \/ Reply(h, a) \/ Withdraw(h, a)
    BY <2>2, EditsOK
  <2>3. CASE SelectLoad(h, a)
    BY <2>3, ChooseOK DEF SelectLoad, IInv, TypeOK
  <2>4. CASE PickLoad(h, a)
    BY <2>4, ChooseOK DEF PickLoad, IInv, TypeOK
  <2> QED
    BY <1>3, <2>1, <2>2, <2>3, <2>4
<1>4. ASSUME NEW h \in Handlers, \/ DailyTake(h) \/ ViewTake(h) \/ SettleUnlock(h)
             \/ Continue(h) \/ Abort(h)
      PROVE  IInv'
  <2>1. CASE DailyTake(h)
    BY <2>1, VetStartsOK DEF DailyTake
  <2>2. CASE ViewTake(h)
    BY <2>2, VetStartsOK DEF ViewTake
  <2>3. CASE SettleUnlock(h)
    BY <2>3, SettleUnlockOK
  <2>4. CASE Continue(h)
    BY <2>4, VetLoadOK, VetScoreOK, VetHighlightOK, VetAdvanceOK, VetCompleteOK,
       SaveReloadOK, SaveWriteOK, SelectWriteOK, PickCheckOK, PickClearOK, PickCommitOK,
       SettleScanOK, SettleAdvanceOK DEF Continue
  <2>5. CASE Abort(h)
    BY <2>5, AbortOK
  <2> QED
    BY <1>4, <2>1, <2>2, <2>3, <2>4, <2>5
<1> QED
  BY <1>1, <1>2, <1>3, <1>4 DEF Next

\* Whatever a handler holds in memory, however stale, it never says of a
\* candidate that they are unlocked or selected whom no payment has unlocked.
THEOREM Invariance == Spec => []IInv
<1>1. IInv /\ [Next]_vars => IInv'
  BY NextOK, StutterOK
<1> QED
  BY InitOK, <1>1, PTL DEF Spec

\* Rows, local variables, queue and counters have their types.
THEOREM TypeCorrect == Spec => []TypeOK
<1>1. IInv => TypeOK
  BY DEF IInv
<1> QED
  BY Invariance, <1>1, PTL

\* job-vetting.service.ts:1040: no candidate is selected for screening, offered
\* the job or given an employees row before a payment has unlocked them, for any
\* number of applications, handlers, failures and restarts.
THEOREM GateHolds == Spec => []GateBeforeSelection
<1>1. IInv => GateBeforeSelection
  BY DEF IInv, RowsOK, RowOK, OpenRowsOK, GateBeforeSelection
<1> QED
  BY Invariance, <1>1, PTL

-----------------------------------------------------------------------------
\* What a step makes of the local variables of its handler.

Others(h) == \A g \in Handlers : g # h => req'[g] = req[g]

LEMMA Places2 ==
    /\ Places["none"] = {"idle"}
    /\ \A op \in Vettings : Places[op] = VettingSteps
    /\ Places["select"] = {"select"}
    /\ Places["pick"] = {"check", "clear", "commit"}
    /\ Places["edit"] = {"reload", "write"}
    /\ Places["pay"] = {"scan", "settle"}
  BY DEF Places, Op, Vettings

\* The operation a step belongs to.
LEMMA PlaceOf ==
    ASSUME IInv, PlacesOK, NEW h \in Handlers
    PROVE  /\ At(h, "idle") => req[h].op = "none"
           /\ req[h].pc \in {"load", "score", "advance", "complete"} => req[h].op \in Vettings
           /\ At(h, "write") => req[h].op \in Vettings \union {"edit"}
           /\ At(h, "reload") => req[h].op = "edit"
           /\ At(h, "select") => req[h].op = "select"
           /\ req[h].pc \in {"check", "clear", "commit"} => req[h].op = "pick"
           /\ req[h].pc \in {"scan", "settle"} => req[h].op = "pay"
<1>1. req[h].op \in Op
  BY DEF IInv, TypeOK, Request
<1>2. req[h].pc \in Places[req[h].op]
  BY DEF PlacesOK
<1> QED
  BY <1>1, <1>2, Places2 DEF Op, At, Vettings, VettingSteps

LEMMA StartFields ==
    ASSUME IInv, NEW h \in Handlers, NEW op, NEW pc, NEW a, Start(h, op, pc, a)
    PROVE  /\ req'[h].op = op /\ req'[h].pc = pc /\ req'[h].mem = Nothing
           /\ req'[h].ranked = {}
           /\ At(h, "idle") /\ Others(h)
<1>1. req \in [Handlers -> Request]
  BY DEF IInv, TypeOK
<1> QED
  BY <1>1 DEF Start, NoRequest, Others

LEMMA ReturnFields ==
    ASSUME IInv, NEW h \in Handlers, Return(h)
    PROVE  /\ req'[h].op = "none" /\ req'[h].pc = "idle" /\ req'[h].mem = Nothing
           /\ Others(h)
<1>1. req \in [Handlers -> Request]
  BY DEF IInv, TypeOK
<1> QED
  BY <1>1 DEF Return, NoRequest, Others

LEMMA GotoFields ==
    ASSUME IInv, NEW h \in Handlers, NEW pc, Goto(h, pc)
    PROVE  /\ req'[h].op = req[h].op /\ req'[h].pc = pc /\ req'[h].mem = req[h].mem
           /\ req'[h].ranked = req[h].ranked
           /\ Others(h)
<1>1. req \in [Handlers -> Request] /\ req[h] \in Request
  BY DEF IInv, TypeOK
<1>2. req' = [req EXCEPT ![h] = [req[h] EXCEPT !.pc = pc]]
  BY <1>1 DEF Goto
<1> QED
  BY <1>1, <1>2 DEF Request, Others

\* Nothing is offered in an empty copy.
LEMMA NothingOffered == Offered(Nothing) = {}
  BY NothingOK DEF Offered

-----------------------------------------------------------------------------
\* One offer at a time.

LEMMA KeepingOf ==
    ASSUME NEW r
    PROVE  /\ Keeping(r) \subseteq Offered(r.mem)
           /\ r.op \in Vettings /\ r.pc \in {"score", "write"} => Keeping(r) = Offered(r.mem)
           /\ r.op \notin Vettings \/ r.pc \notin {"score", "write"} => Keeping(r) = {}
  BY DEF Keeping, Holds

\* A step of h other than a pick's commit: no copy and no row gets an offer that
\* the table or h's copy did not have.
OfferMove(h) ==
    /\ Others(h)
    /\ req'[h].pc \in Places[req'[h].op]
    /\ req'[h].op \notin Vettings => Offered(req'[h].mem) = {}
    /\ Keeping(req'[h]) \subseteq Keeping(req[h]) \union Offered(app)
    /\ Offered(app') \subseteq Offered(app) \union Keeping(req[h])
    /\ req'[h].pc = "commit" => Offered(app') \subseteq req'[h].todo

LEMMA OfferStarts ==
    ASSUME IInv, OfferIInv, NEW h \in Handlers, NEW op \in Op, NEW pc, NEW a,
           Start(h, op, pc, a), pc \in Places[op], pc # "commit",
           Offered(app') \subseteq Offered(app)
    PROVE  OfferMove(h)
  BY StartFields, NothingOffered, KeepingOf DEF OfferMove

LEMMA OfferEnds ==
    ASSUME IInv, OfferIInv, NEW h \in Handlers, Return(h),
           Offered(app') \subseteq Offered(app) \union Keeping(req[h])
    PROVE  OfferMove(h)
  BY ReturnFields, NothingOffered, Places2, KeepingOf DEF OfferMove

LEMMA OfferGoes ==
    ASSUME IInv, OfferIInv, NEW h \in Handlers, NEW pc, Goto(h, pc),
           pc \in Places[req[h].op], pc \notin {"commit", "score", "write"},
           Offered(app') \subseteq Offered(app) \union Keeping(req[h])
    PROVE  OfferMove(h)
  BY GotoFields, KeepingOf DEF OfferMove, OfferIInv, OfferOK

LEMMA OfferVetLoad ==
    ASSUME IInv, OfferIInv, NEW h \in Handlers, VetLoad(h)
    PROVE  OfferMove(h)
<1>1. req \in [Handlers -> Request] /\ req[h] \in Request
  BY DEF IInv, TypeOK
<1>2. /\ req'[h].op = req[h].op /\ req'[h].pc = "score"
      /\ req'[h].mem = [a \in Existing |-> app[a]] /\ Others(h) /\ app' = app
  BY <1>1 DEF VetLoad, Request, Others
<1>3. req[h].op \in Vettings
  BY PlaceOf DEF VetLoad, At, OfferIInv
<1>4. app \in [Apps -> Row] /\ Existing \subseteq Apps
  BY DEF IInv, TypeOK, Existing
<1>5. Offered(req'[h].mem) \subseteq Offered(app)
  BY <1>2, <1>4 DEF Offered
<1> QED
  BY <1>2, <1>3, <1>5, Places2, KeepingOf DEF OfferMove, VettingSteps

LEMMA OfferVetScore ==
    ASSUME IInv, OfferIInv, NEW h \in Handlers, VetScore(h)
    PROVE  OfferMove(h)
<1>1. req \in [Handlers -> Request] /\ req[h] \in Request
  BY DEF IInv, TypeOK
<1>2. /\ req'[h].op = req[h].op /\ req'[h].pc = "score" /\ Others(h) /\ app' = app
      /\ \/ req'[h].mem = req[h].mem
         \/ \E a \in Apps : req'[h].mem = Scored(req[h].mem, a)
  BY <1>1 DEF VetScore, Request, Others, At
<1>3. req[h].op \in Vettings /\ Keeping(req[h]) = Offered(req[h].mem)
  BY PlaceOf, KeepingOf DEF VetScore, At, OfferIInv
<1>4. req[h].mem \in [DOMAIN req[h].mem -> Row]
  BY <1>1, EntitiesElim DEF Request
<1>5. \A a \in Apps : Offered(Scored(req[h].mem, a)) \subseteq Offered(req[h].mem)
  BY <1>4 DEF Scored, Offered, Row
<1>6. Keeping(req'[h]) \subseteq Keeping(req[h])
  BY <1>2, <1>3, <1>5, KeepingOf
<1>7. req'[h].op \in Vettings /\ req'[h].pc = "score" /\ req'[h].pc \in Places[req'[h].op]
  BY <1>2, <1>3, Places2 DEF VettingSteps
<1> QED
  BY <1>2, <1>6, <1>7 DEF OfferMove

LEMMA OfferVetHighlight ==
    ASSUME IInv, OfferIInv, NEW h \in Handlers, VetHighlight(h)
    PROVE  OfferMove(h)
<1>1. req \in [Handlers -> Request] /\ req[h] \in Request
  BY DEF IInv, TypeOK
<1>0. PICK T \in SUBSET req[h].ranked :
        req' = [req EXCEPT ![h] =
                  [req[h] EXCEPT !.pc = "write",
                                 !.mem = Highlighted(req[h].mem, req[h].ranked, T),
                                 !.snap = [a \in DOMAIN req[h].mem |-> app[a]]]]
  BY DEF VetHighlight
<1>2. /\ req'[h].op = req[h].op /\ req'[h].pc = "write" /\ Others(h) /\ app' = app
      /\ req'[h].mem = Highlighted(req[h].mem, req[h].ranked, T)
  BY <1>0, <1>1 DEF VetHighlight, Request, Others
<1>3. req[h].op \in Vettings /\ Keeping(req[h]) = Offered(req[h].mem)
  BY PlaceOf, KeepingOf DEF VetHighlight, At, OfferIInv
<1>4. req[h].mem \in [DOMAIN req[h].mem -> Row]
  BY <1>1, EntitiesElim DEF Request
<1>5. Offered(Highlighted(req[h].mem, req[h].ranked, T)) \subseteq Offered(req[h].mem)
  BY <1>4 DEF Highlighted, Offered, Row
<1>6. Keeping(req'[h]) \subseteq Keeping(req[h])
  BY <1>2, <1>3, <1>5, KeepingOf
<1>7. req'[h].op \in Vettings /\ req'[h].pc = "write" /\ req'[h].pc \in Places[req'[h].op]
  BY <1>2, <1>3, Places2 DEF VettingSteps
<1> QED
  BY <1>2, <1>6, <1>7 DEF OfferMove

LEMMA OfferSaveReload ==
    ASSUME IInv, OfferIInv, NEW h \in Handlers, SaveReload(h)
    PROVE  OfferMove(h)
<1>1. req \in [Handlers -> Request] /\ req[h] \in Request
  BY DEF IInv, TypeOK
<1>2. /\ req'[h].op = req[h].op /\ req'[h].pc = "write" /\ Others(h) /\ app' = app
      /\ req'[h].mem = req[h].mem
  BY <1>1 DEF SaveReload, Request, Others, At
<1>3. req[h].op = "edit"
  BY PlaceOf DEF SaveReload, OfferIInv
<1>4. req'[h].op \notin Vettings /\ Offered(req[h].mem) = {}
  BY <1>2, <1>3 DEF OfferIInv, OfferOK, Vettings
<1>5. Keeping(req'[h]) = {} /\ req'[h].pc \in Places[req'[h].op]
  BY <1>2, <1>3, <1>4, Places2, KeepingOf
<1> QED
  BY <1>2, <1>4, <1>5 DEF OfferMove

LEMMA OfferPickClear ==
    ASSUME IInv, OfferIInv, NEW h \in Handlers, PickClear(h)
    PROVE  OfferMove(h)
<1>1. req \in [Handlers -> Request] /\ req[h] \in Request /\ app \in [Apps -> Row]
  BY DEF IInv, TypeOK
<1>2. /\ req'[h].op = req[h].op /\ req'[h].pc = "commit" /\ Others(h) /\ app' = app
      /\ req'[h].mem = req[h].mem
      /\ req'[h].todo = {a \in Apps : app[a].status \in Pickable}
  BY <1>1 DEF PickClear, Request, Others, At
<1>3. req[h].op = "pick"
  BY PlaceOf DEF PickClear, At, OfferIInv
<1>4. Offered(app) \subseteq req'[h].todo
  BY <1>1, <1>2 DEF Offered, Pickable
<1>5. req'[h].op \notin Vettings /\ Offered(req[h].mem) = {}
  BY <1>2, <1>3 DEF OfferIInv, OfferOK, Vettings
<1>6. Keeping(req'[h]) = {} /\ req'[h].pc \in Places[req'[h].op]
  BY <1>2, <1>3, <1>5, Places2, KeepingOf
<1> QED
  BY <1>2, <1>4, <1>5, <1>6 DEF OfferMove

LEMMA OfferSettleScan ==
    ASSUME IInv, OfferIInv, NEW h \in Handlers, SettleScan(h)
    PROVE  OfferMove(h)
<1>1. req \in [Handlers -> Request] /\ req[h] \in Request
  BY DEF IInv, TypeOK
<1>2. /\ req'[h].op = req[h].op /\ req'[h].pc = "settle" /\ Others(h) /\ app' = app
      /\ req'[h].mem = req[h].mem
  BY <1>1 DEF SettleScan, Request, Others, At
<1>3. req[h].op = "pay"
  BY PlaceOf DEF SettleScan, At, OfferIInv
<1>4. req'[h].op \notin Vettings /\ Offered(req[h].mem) = {}
  BY <1>2, <1>3 DEF OfferIInv, OfferOK, Vettings
<1>5. Keeping(req'[h]) = {} /\ req'[h].pc \in Places[req'[h].op]
  BY <1>2, <1>3, <1>4, Places2, KeepingOf
<1> QED
  BY <1>2, <1>4, <1>5 DEF OfferMove

LEMMA OfferEditTo ==
    ASSUME IInv, OfferIInv, NEW h \in Handlers, NEW a \in Apps,
           NEW s \in Status \ {"OFFER_SENT"}, EditTo(h, a, s), app' = app
    PROVE  OfferMove(h)
<1>1. req \in [Handlers -> Request] /\ app[a] \in Row
  BY DEF IInv, TypeOK
<1>2. /\ req'[h].op = "edit" /\ req'[h].pc = "reload" /\ Others(h)
      /\ req'[h].mem = [x \in {a} |-> [app[a] EXCEPT !.status = s]]
  BY <1>1 DEF EditTo, NoRequest, Others
<1>3. Offered(req'[h].mem) = {}
  BY <1>1, <1>2 DEF Offered, Row
<1> QED
  BY <1>2, <1>3, Places2, KeepingOf DEF OfferMove

\* A row of a table that is built anew.
LEMMA OfferedTable ==
    ASSUME NEW f, NEW t, DOMAIN t = Apps, NEW S,
           \A x \in Apps : t[x].status = "OFFER_SENT" => x \in S
    PROVE  Offered(t) \subseteq S
  BY DEF Offered

LEMMA OfferSaveWrite ==
    ASSUME IInv, OfferIInv, NEW h \in Handlers, SaveWrite(h)
    PROVE  OfferMove(h)
<1>1. req[h].mem \in Entities /\ app \in [Apps -> Row]
  BY DEF IInv, TypeOK, Request
<1>2. /\ DOMAIN app' = Apps
      /\ \A x \in Apps : app'[x] = IF x \in DOMAIN req[h].mem
                                   THEN SaveRow(app[x], req[h].snap[x], req[h].mem[x])
                                   ELSE app[x]
  BY DEF SaveWrite
<1>3. \A x \in Apps : app'[x].status = "OFFER_SENT" =>
         x \in Offered(app) \union Offered(req[h].mem)
  BY <1>1, <1>2 DEF SaveRow, SaveColumn, Offered
<1>4. Offered(req[h].mem) \subseteq Keeping(req[h])
  BY PlaceOf, KeepingOf DEF SaveWrite, At, OfferIInv, OfferOK
<1>5. Offered(app') \subseteq Offered(app) \union Keeping(req[h])
  BY <1>2, <1>3, <1>4, OfferedTable
<1>6. CASE req[h].op = "edit"
  BY <1>5, <1>6, OfferEnds DEF SaveWrite
<1>7. CASE req[h].op # "edit"
  <2>1. req[h].op \in Vettings
    BY <1>7, PlaceOf DEF SaveWrite, OfferIInv
  <2> QED
    BY <1>5, <1>7, <2>1, Places2, OfferGoes DEF SaveWrite, VettingSteps
<1> QED
  BY <1>6, <1>7

LEMMA OfferVetAdvance ==
    ASSUME IInv, OfferIInv, NEW h \in Handlers, VetAdvance(h)
    PROVE  OfferMove(h)
<1>1. app \in [Apps -> Row]
  BY DEF IInv, TypeOK
<1>2. /\ DOMAIN app' = Apps
      /\ \A x \in Apps : app'[x] = IF x \in req[h].ranked THEN Advanced(app[x]) ELSE app[x]
  BY DEF VetAdvance
<1>3. \A x \in Apps : app'[x].status = "OFFER_SENT" => x \in Offered(app)
  BY <1>1, <1>2 DEF Advanced, Offered, Row
<1>4. Offered(app') \subseteq Offered(app)
  BY <1>2, <1>3, OfferedTable
<1>5. req[h].op \in Vettings
  BY PlaceOf DEF VetAdvance, At, OfferIInv
<1> QED
  BY <1>4, <1>5, Places2, OfferGoes DEF VetAdvance, VettingSteps

LEMMA OfferSelectWrite ==
    ASSUME IInv, OfferIInv, NEW h \in Handlers, SelectWrite(h)
    PROVE  OfferMove(h)
<1>1. app \in [Apps -> Row] /\ req[h].app \in Apps
  BY DEF IInv, TypeOK, RequestOK, Choosing, SelectWrite, At
<1>2. app' = [app EXCEPT ![req[h].app].status = "SELECTED_FOR_SCREENING"]
  BY DEF SelectWrite
<1>3. Offered(app') \subseteq Offered(app)
  BY <1>1, <1>2 DEF Offered, Row
<1> QED
  BY <1>3, OfferEnds DEF SelectWrite

LEMMA OfferSettleAdvance ==
    ASSUME IInv, OfferIInv, NEW h \in Handlers, SettleAdvance(h)
    PROVE  OfferMove(h)
<1>1. app \in [Apps -> Row]
  BY DEF IInv, TypeOK
<1>2. /\ DOMAIN app' = Apps
      /\ \A x \in Apps : app'[x] = IF x \in req[h].todo
                                   THEN [app[x] EXCEPT !.status = "PAYMENT_COMPLETE"]
                                   ELSE app[x]
  BY DEF SettleAdvance
<1>3. \A x \in Apps : app'[x].status = "OFFER_SENT" => x \in Offered(app)
  BY <1>1, <1>2 DEF Offered, Row
<1>4. Offered(app') \subseteq Offered(app)
  BY <1>2, <1>3, OfferedTable
<1> QED
  BY <1>4, OfferEnds DEF SettleAdvance

LEMMA OfferSettleUnlock ==
    ASSUME IInv, OfferIInv, NEW h \in Handlers, SettleUnlock(h)
    PROVE  OfferMove(h)
<1>1. app \in [Apps -> Row]
  BY DEF IInv, TypeOK
<1>2. /\ DOMAIN app' = Apps
      /\ \A x \in Apps : app'[x] = [app[x] EXCEPT !.unlocked = @ \/ x \in Existing]
  BY DEF SettleUnlock
<1>3. \A x \in Apps : app'[x].status = app[x].status
  BY <1>1, <1>2 DEF Row
<1>4. Offered(app') \subseteq Offered(app)
  BY <1>1, <1>2, <1>3 DEF Offered
<1> QED
  BY <1>4, Places2, OfferStarts DEF SettleUnlock, Op

LEMMA OfferContinue ==
    ASSUME IInv, OfferIInv, NEW h \in Handlers, Continue(h), ~PickCommit(h)
    PROVE  OfferMove(h)
<1>1. CASE VetComplete(h)
  BY <1>1, OfferEnds DEF VetComplete
<1>2. CASE PickCheck(h)
  <2>1. req[h].op = "pick"
    BY <1>2, PlaceOf DEF PickCheck, At, OfferIInv
  <2>2. Offered(app') \subseteq Offered(app)
    BY <1>2 DEF PickCheck
  <2>3. CASE Goto(h, "clear")
    BY <2>1, <2>2, <2>3, Places2, OfferGoes
  <2>4. CASE Return(h)
    BY <2>2, <2>4, OfferEnds
  <2> QED
    BY <1>2, <2>3, <2>4 DEF PickCheck
<1> QED
  BY <1>1, <1>2, OfferVetLoad, OfferVetScore, OfferVetHighlight, OfferVetAdvance,
     OfferSaveReload, OfferSaveWrite, OfferSelectWrite, OfferPickClear, OfferSettleScan,
     OfferSettleAdvance DEF Continue

\* A step that leaves other copies as they are gives nobody a second offer.
LEMMA OfferMoved ==
    ASSUME IInv, OfferIInv, PicksApart, NEW h \in Handlers, OfferMove(h)
    PROVE  OfferIInv'
<1>1. PlacesOK'
  BY DEF OfferMove, Others, OfferIInv, PlacesOK
<1>2. ASSUME NEW g \in Handlers PROVE OfferOK(req'[g], app')
  <2>1. CASE g = h
    BY <2>1 DEF OfferMove, OfferOK
  <2>2. CASE g # h
    <3>1. req'[g] = req[g] /\ OfferOK(req[g], app)
      BY <2>2 DEF OfferMove, Others, OfferIInv
    <3>2. ASSUME req[g].pc = "commit" PROVE Offered(app') \subseteq req[g].todo
      <4>1. Keeping(req[h]) = {}
        BY <2>2, <3>2 DEF PicksApart, At, Keeping
      <4> QED
        BY <3>1, <3>2, <4>1 DEF OfferMove, OfferOK
    <3> QED
      BY <3>1, <3>2 DEF OfferOK
  <2> QED
    BY <2>1, <2>2
<1>3. Offers' \subseteq Offers
  <2>1. ASSUME NEW g \in Handlers PROVE Keeping(req'[g]) \subseteq Offers
    BY DEF OfferMove, Others, Offers
  <2>2. Offered(app') \subseteq Offers
    BY DEF OfferMove, Offers
  <2> QED
    BY <2>1, <2>2 DEF Offers
<1> QED
  BY <1>1, <1>2, <1>3 DEF OfferIInv

\* A pick's commit leaves the one offer it makes: no copy knows another.
LEMMA OfferPickCommit ==
    ASSUME IInv, OfferIInv, PicksApart, NEW h \in Handlers, PickCommit(h)
    PROVE  OfferIInv'
<1>1. app \in [Apps -> Row] /\ req[h].pc = "commit" /\ req[h].op = "pick"
  BY PlaceOf DEF IInv, TypeOK, PickCommit, At, OfferIInv
<1>2. Offered(app) \subseteq req[h].todo
  BY <1>1 DEF OfferIInv, OfferOK
<1>3. Offered(app') \subseteq {req[h].app}
  <2>1. DOMAIN app' = Apps
    BY DEF PickCommit
  <2>2. ASSUME NEW x \in Apps, x # req[h].app PROVE app'[x].status # "OFFER_SENT"
    <3>1. app'[x] = IF x \in {y \in req[h].todo : app[y].status \in Pickable}
                    THEN [app[x] EXCEPT !.status = "VETTED"] ELSE app[x]
      BY <2>2 DEF PickCommit
    <3>2. CASE app[x].status = "OFFER_SENT"
      BY <1>1, <1>2, <3>1, <3>2 DEF Offered, Pickable, Row
    <3>3. CASE app[x].status # "OFFER_SENT"
      BY <1>1, <3>1, <3>3 DEF Row
    <3> QED
      BY <3>2, <3>3
  <2>3. \A x \in Apps : app'[x].status = "OFFER_SENT" => x \in {req[h].app}
    BY <2>2
  <2> QED
    BY <2>1, <2>3, OfferedTable
<1>4. /\ req'[h].op = "none" /\ req'[h].pc = "idle" /\ req'[h].mem = Nothing
      /\ \A g \in Handlers : g # h => req'[g] = req[g]
  BY ReturnFields DEF PickCommit, Others
<1>5. ASSUME NEW g \in Handlers
      PROVE  /\ Keeping(req'[g]) = {} /\ req'[g].pc # "commit"
             /\ req'[g].op \notin Vettings => Offered(req'[g].mem) = {}
  <2>1. CASE g = h
    BY <1>4, <2>1, NothingOffered, KeepingOf
  <2>2. CASE g # h
    <3>1. req'[g] = req[g] /\ ~At(g, "commit") /\ ~Holds(req[g])
      BY <1>1, <1>4, <2>2 DEF PicksApart, At
    <3> QED
      BY <3>1 DEF OfferIInv, OfferOK, At, Keeping
  <2> QED
    BY <2>1, <2>2
<1>6. PlacesOK'
  BY <1>4, Places2 DEF OfferIInv, PlacesOK
<1>7. Offers' \subseteq {req[h].app}
  BY <1>3, <1>5 DEF Offers
<1> QED
  BY <1>5, <1>6, <1>7 DEF OfferIInv, OfferOK

\* The table has no new offer and every handler is as it was or gone.
LEMMA OfferAround ==
    ASSUME IInv, OfferIInv, Offered(app') \subseteq Offered(app),
           \A g \in Handlers : req'[g] \in {req[g], NoRequest}
    PROVE  OfferIInv'
<1>1. NoRequest.pc = "idle" /\ NoRequest.op = "none" /\ Offered(NoRequest.mem) = {}
      /\ Keeping(NoRequest) = {}
  BY NothingOffered, KeepingOf DEF NoRequest
<1>2. PlacesOK'
  BY <1>1, Places2 DEF OfferIInv, PlacesOK
<1>3. ASSUME NEW g \in Handlers PROVE OfferOK(req'[g], app')
  BY <1>1 DEF OfferIInv, OfferOK
<1>4. Offers' \subseteq Offers
  <2>1. ASSUME NEW g \in Handlers PROVE Keeping(req'[g]) \subseteq Offers
    BY <1>1 DEF Offers
  <2> QED
    BY <2>1 DEF Offers
<1> QED
  BY <1>2, <1>3, <1>4 DEF OfferIInv

LEMMA OfferEnvironment ==
    ASSUME IInv, OfferIInv,
           \/ \E a \in Apps : Apply(a) \/ Employ(a) \/ RowCloses(a)
           \/ HourPasses \/ Crash \/ UNCHANGED vars
    PROVE  OfferIInv'
<1>1. app \in [Apps -> Row] /\ req \in [Handlers -> Request]
  BY DEF IInv, TypeOK
<1>2. ASSUME NEW a \in Apps, Apply(a) PROVE Offered(app') \subseteq Offered(app)
  BY <1>1, <1>2 DEF Apply, Offered, Row
<1>3. Offered(app') \subseteq Offered(app)
  BY <1>2 DEF Employ, RowCloses, HourPasses, Crash, vars
<1>4. \A g \in Handlers : req'[g] \in {req[g], NoRequest}
  BY DEF Apply, Employ, RowCloses, HourPasses, Crash, vars
<1> QED
  BY <1>3, <1>4, OfferAround

LEMMA OfferStartsAll ==
    ASSUME IInv, OfferIInv, "OFFER_SENT" \notin EmployerSets, NEW h \in Handlers,
           \/ \E a \in Apps :
                \/ QueueTake(h, a) \/ SetStatus(h, a) \/ Reply(h, a) \/ Withdraw(h, a)
                \/ SelectLoad(h, a) \/ PickLoad(h, a)
           \/ DailyTake(h) \/ ViewTake(h) \/ SettleUnlock(h) \/ Abort(h)
    PROVE  OfferMove(h) \/ (UNCHANGED <<app, req>>)
<1>1. ASSUME NEW a \in Apps, QueueTake(h, a)
      PROVE  OfferMove(h) \/ (UNCHANGED <<app, req>>)
  <2>1. CASE Skipped
    BY <1>1, <2>1 DEF QueueTake
  <2>2. CASE ~Skipped
    BY <1>1, <2>2, OfferStarts, Places2 DEF QueueTake, Op, Vettings, VettingSteps
  <2> QED
    BY <2>1, <2>2
<1>2. ASSUME NEW a \in Apps, SetStatus(h, a) PROVE OfferMove(h)
  <2>1. PICK s \in EmployerSets : EditTo(h, a, s)
    BY <1>2 DEF SetStatus
  <2>2. s \in Status \ {"OFFER_SENT"}
    BY VettingAssumption
  <2> QED
    BY <2>1, <2>2, OfferEditTo DEF EditTo
<1>3. ASSUME NEW a \in Apps, Reply(h, a) \/ Withdraw(h, a) PROVE OfferMove(h)
  <2>1. PICK s \in {"PAYMENT_COMPLETE", "APPLICANT_ACCEPTED", "WITHDRAWN"} : EditTo(h, a, s)
    BY <1>3 DEF Reply, Withdraw
  <2>2. s \in Status \ {"OFFER_SENT"}
    BY DEF Status
  <2> QED
    BY <2>1, <2>2, OfferEditTo DEF EditTo
<1>4. ASSUME NEW a \in Apps, SelectLoad(h, a) PROVE OfferMove(h)
  BY <1>4, OfferStarts, Places2 DEF SelectLoad, Op
<1>5. ASSUME NEW a \in Apps, PickLoad(h, a) PROVE OfferMove(h)
  BY <1>5, OfferStarts, Places2 DEF PickLoad, Op
<1>6. CASE DailyTake(h) \/ ViewTake(h)
  BY <1>6, OfferStarts, Places2 DEF DailyTake, ViewTake, Op, Vettings, VettingSteps
<1>7. CASE SettleUnlock(h)
  BY <1>7, OfferSettleUnlock
<1>8. CASE Abort(h)
  BY <1>8, OfferEnds DEF Abort
<1> QED
  BY <1>1, <1>2, <1>3, <1>4, <1>5, <1>6, <1>7, <1>8

LEMMA OfferNext ==
    ASSUME IInv, OfferIInv, PicksApart, "OFFER_SENT" \notin EmployerSets, [Next]_vars
    PROVE  OfferIInv'
<1>1. ASSUME NEW h \in Handlers, OfferMove(h) PROVE OfferIInv'
  BY <1>1, OfferMoved
<1>2. CASE UNCHANGED <<app, req>>
  BY <1>2, OfferAround
<1>3. ASSUME NEW h \in Handlers, Continue(h) PROVE OfferIInv'
  BY <1>1, <1>3, OfferContinue, OfferPickCommit
<1>4. CASE UNCHANGED vars
  BY <1>4, OfferEnvironment
<1>5. CASE Next
  <2>1. CASE \/ \E a \in Apps : Apply(a) \/ Employ(a) \/ RowCloses(a)
             \/ HourPasses \/ Crash
    BY <2>1, OfferEnvironment
  <2>2. ASSUME NEW h \in Handlers, NEW a \in Apps,
               \/ QueueTake(h, a) \/ SetStatus(h, a) \/ Reply(h, a) \/ Withdraw(h, a)
               \/ SelectLoad(h, a) \/ PickLoad(h, a)
        PROVE  OfferIInv'
    BY <1>1, <1>2, <2>2, OfferStartsAll
  <2>3. ASSUME NEW h \in Handlers,
               DailyTake(h) \/ ViewTake(h) \/ SettleUnlock(h) \/ Continue(h) \/ Abort(h)
        PROVE  OfferIInv'
    BY <1>1, <1>2, <1>3, <2>3, OfferStartsAll
  <2> QED
    BY <1>5, <2>1, <2>2, <2>3 DEF Next
<1> QED
  BY <1>4, <1>5

LEMMA OfferInit == Init => OfferIInv
<1> SUFFICES ASSUME Init PROVE OfferIInv
  OBVIOUS
<1>1. \A h \in Handlers : req[h].pc = "idle" /\ req[h].op = "none" /\ req[h].mem = Nothing
  BY DEF Init, NoRequest
<1>2. Offered(app) = {}
  BY DEF Init, Offered
<1>3. Offers = {}
  BY <1>1, <1>2, NothingOffered, KeepingOf DEF Offers
<1> QED
  BY <1>1, <1>3, NothingOffered, Places2 DEF OfferIInv, PlacesOK, OfferOK

\* Not two offers, counted.
LEMMA OneOfferCounted ==
    ASSUME app \in [Apps -> Row], OfferIInv
    PROVE  Cardinality({a \in Apps : app[a].status = "OFFER_SENT"}) <= 1
<1> DEFINE S == {a \in Apps : app[a].status = "OFFER_SENT"}
<1>1. \A x, y \in S : x = y
  BY DEF OfferIInv, Offers, Offered
<1>2. CASE S = {}
  BY <1>2, FS_EmptySet
<1>3. CASE S # {}
  <2>1. PICK x \in S : TRUE
    BY <1>3
  <2>2. S = {x}
    BY <1>1, <2>1
  <2>3. Cardinality({x}) = 1
    BY FS_Singleton
  <2> HIDE DEF S
  <2>4. Cardinality(S) <= 1
    BY <2>2, <2>3
  <2> QED
    BY <2>4 DEF S
<1> QED
  BY <1>2, <1>3

\* jobs-employer.controller.ts:281: as long as a pick's open transaction meets no
\* other one and no vetting that is going to save the job's rows -- whatever else
\* overlaps it, and whatever fails or is written back -- a job never has two offers
\* out.
THEOREM OneOfferHolds == Spec /\ []PicksApart => []OneOffer
<1>1. CASE "OFFER_SENT" \in EmployerSets
  <2>1. OneOffer
    BY <1>1 DEF OneOffer
  <2> QED
    BY <2>1, PTL
<1>2. CASE "OFFER_SENT" \notin EmployerSets
  <2>1. IInv /\ OfferIInv /\ PicksApart /\ [Next]_vars => OfferIInv'
    BY <1>2, OfferNext
  <2>2. IInv /\ OfferIInv => OneOffer
    BY OneOfferCounted DEF IInv, TypeOK, OneOffer
  <2> QED
    BY <2>1, <2>2, OfferInit, Invariance, PTL DEF Spec
<1> QED
  BY <1>1, <1>2

-----------------------------------------------------------------------------
\* The statuses a vetting keeps and the marks it sets.

\* A handler that goes on keeps its operation until it ends, at a place of its code.
Stays(h) ==
    /\ Others(h)
    /\ req'[h].op \in {req[h].op, "none"}
    /\ req'[h].pc \in Places[req'[h].op]

LEMMA StaysReturn ==
    ASSUME IInv, NEW h \in Handlers, Return(h)
    PROVE  Stays(h)
  BY ReturnFields, Places2 DEF Stays

LEMMA StaysGoto ==
    ASSUME IInv, NEW h \in Handlers, NEW pc, Goto(h, pc), pc \in Places[req[h].op]
    PROVE  Stays(h)
  BY GotoFields DEF Stays

\* The scoring loop in the two outcomes for one candidate.
LEMMA VetScoreFields ==
    ASSUME IInv, NEW h \in Handlers, VetScore(h)
    PROVE  /\ req'[h].op = req[h].op /\ req'[h].pc = "score" /\ req[h].pc = "score"
           /\ Others(h)
           /\ \E a \in req[h].todo :
                \/ req'[h].mem = req[h].mem /\ req'[h].ranked = req[h].ranked
                \/ /\ req'[h].mem = Scored(req[h].mem, a)
                   /\ req'[h].ranked = req[h].ranked \union {a}
<1>1. req \in [Handlers -> Request] /\ req[h] \in Request /\ req[h].pc = "score"
  BY DEF IInv, TypeOK, VetScore, At
<1>2. PICK a \in req[h].todo :
        req' = [req EXCEPT ![h] =
                  IF a \in busy
                  THEN [req[h] EXCEPT !.todo = @ \ {a}]
                  ELSE [req[h] EXCEPT !.todo = @ \ {a}, !.ranked = @ \union {a},
                                      !.mem = Scored(@, a)]]
  BY DEF VetScore
<1>3. Others(h)
  BY <1>1, <1>2 DEF Others
<1>4. CASE a \in busy
  <2>1. req'[h] = [req[h] EXCEPT !.todo = @ \ {a}]
    BY <1>1, <1>2, <1>4
  <2> QED
    BY <1>1, <1>3, <2>1 DEF Request
<1>5. CASE a \notin busy
  <2>1. req'[h] = [req[h] EXCEPT !.todo = @ \ {a}, !.ranked = @ \union {a},
                                 !.mem = Scored(@, a)]
    BY <1>1, <1>2, <1>5
  <2> QED
    BY <1>1, <1>3, <2>1 DEF Request
<1> QED
  BY <1>4, <1>5

LEMMA StaysVet ==
    ASSUME IInv, PlacesOK, NEW h \in Handlers,
           VetLoad(h) \/ VetScore(h) \/ VetHighlight(h) \/ VetAdvance(h)
    PROVE  Stays(h)
<1>1. req \in [Handlers -> Request] /\ req[h] \in Request
  BY DEF IInv, TypeOK
<1>2. req[h].op \in Vettings
  BY PlaceOf DEF VetLoad, VetScore, VetHighlight, VetAdvance, At
<1>3. CASE VetLoad(h)
  <2>1. req'[h].op = req[h].op /\ req'[h].pc = "score" /\ Others(h)
    BY <1>1, <1>3 DEF VetLoad, Request, Others
  <2> QED
    BY <1>2, <2>1, Places2 DEF Stays, VettingSteps
<1>4. CASE VetScore(h)
  <2>1. req'[h].op = req[h].op /\ req'[h].pc = "score" /\ Others(h)
    BY <1>4, VetScoreFields DEF Others
  <2> QED
    BY <1>2, <2>1, Places2 DEF Stays, VettingSteps
<1>5. CASE VetHighlight(h)
  <2>1. PICK T \in SUBSET req[h].ranked :
          req' = [req EXCEPT ![h] =
                    [req[h] EXCEPT !.pc = "write",
                                   !.mem = Highlighted(req[h].mem, req[h].ranked, T),
                                   !.snap = [a \in DOMAIN req[h].mem |-> app[a]]]]
    BY <1>5 DEF VetHighlight
  <2>2. req'[h].op = req[h].op /\ req'[h].pc = "write" /\ Others(h)
    BY <1>1, <2>1 DEF Request, Others
  <2> QED
    BY <1>2, <2>2, Places2 DEF Stays, VettingSteps
<1>6. CASE VetAdvance(h)
  BY <1>2, <1>6, StaysGoto, Places2 DEF VetAdvance, VettingSteps
<1> QED
  BY <1>3, <1>4, <1>5, <1>6

LEMMA StaysOther ==
    ASSUME IInv, PlacesOK, NEW h \in Handlers,
           SaveReload(h) \/ PickClear(h) \/ SettleScan(h) \/ PickCheck(h) \/ SaveWrite(h)
    PROVE  Stays(h)
<1>1. req \in [Handlers -> Request] /\ req[h] \in Request
  BY DEF IInv, TypeOK
<1>2. CASE SaveReload(h)
  <2>1. req'[h].op = req[h].op /\ req'[h].pc = "write" /\ Others(h)
    BY <1>1, <1>2 DEF SaveReload, Request, Others
  <2> QED
    BY <1>2, <2>1, PlaceOf, Places2 DEF Stays, SaveReload
<1>3. CASE PickClear(h)
  <2>1. req'[h].op = req[h].op /\ req'[h].pc = "commit" /\ Others(h)
    BY <1>1, <1>3 DEF PickClear, Request, Others
  <2> QED
    BY <1>3, <2>1, PlaceOf, Places2 DEF Stays, PickClear, At
<1>4. CASE SettleScan(h)
  <2>1. req'[h].op = req[h].op /\ req'[h].pc = "settle" /\ Others(h)
    BY <1>1, <1>4 DEF SettleScan, Request, Others
  <2> QED
    BY <1>4, <2>1, PlaceOf, Places2 DEF Stays, SettleScan, At
<1>5. CASE PickCheck(h)
  <2>1. req[h].op = "pick"
    BY <1>5, PlaceOf DEF PickCheck, At
  <2> QED
    BY <1>5, <2>1, StaysGoto, StaysReturn, Places2 DEF PickCheck
<1>6. CASE SaveWrite(h)
  <2>1. req[h].op # "edit" => req[h].op \in Vettings
    BY <1>6, PlaceOf DEF SaveWrite
  <2> QED
    BY <1>6, <2>1, StaysGoto, StaysReturn, Places2 DEF SaveWrite, VettingSteps
<1> QED
  BY <1>2, <1>3, <1>4, <1>5, <1>6

LEMMA StaysContinue ==
    ASSUME IInv, PlacesOK, NEW h \in Handlers, Continue(h) \/ Abort(h)
    PROVE  Stays(h) /\ ~At(h, "idle")
<1>1. ~At(h, "idle")
  BY DEF Continue, Abort, VetLoad, VetScore, VetHighlight, VetAdvance, VetComplete,
         SaveReload, SaveWrite, SelectWrite, PickCheck, PickClear, PickCommit,
         SettleScan, SettleAdvance, At
<1>2. ASSUME Return(h) PROVE Stays(h)
  BY <1>2, StaysReturn
<1>3. Stays(h)
  BY <1>2, StaysVet, StaysOther
     DEF Continue, Abort, VetComplete, SelectWrite, PickCommit, SettleAdvance
<1> QED
  BY <1>1, <1>3

\* A request or job starts, or a queue job is skipped.
LEMMA StartShape ==
    ASSUME IInv, NEW h \in Handlers,
           \/ \E a \in Apps :
                \/ QueueTake(h, a) \/ SetStatus(h, a) \/ Reply(h, a) \/ Withdraw(h, a)
                \/ SelectLoad(h, a) \/ PickLoad(h, a)
           \/ DailyTake(h) \/ ViewTake(h) \/ SettleUnlock(h)
    PROVE  \/ UNCHANGED <<app, req>>
           \/ /\ Others(h) /\ At(h, "idle") /\ req'[h].op \in Op
              /\ req'[h].op # "none" /\ req'[h].pc \in Places[req'[h].op]
              /\ req'[h].op \in Vettings => req'[h].pc = "load" /\ req'[h].ranked = {}
<1> DEFINE Begins == /\ Others(h) /\ At(h, "idle") /\ req'[h].op \in Op
                     /\ req'[h].op # "none" /\ req'[h].pc \in Places[req'[h].op]
                     /\ req'[h].op \in Vettings => req'[h].pc = "load" /\ req'[h].ranked = {}
<1>1. ASSUME NEW op \in Vettings, NEW a, Start(h, op, "load", a) PROVE Begins
  BY <1>1, StartFields, Places2 DEF VettingSteps, Vettings, Op
<1>2. ASSUME NEW a, \/ Start(h, "select", "select", a) \/ Start(h, "pick", "check", a)
                    \/ Start(h, "pay", "scan", a)
      PROVE  Begins
  BY <1>2, StartFields, Places2 DEF Vettings, Op
<1>3. ASSUME NEW a \in Apps, NEW s, EditTo(h, a, s) PROVE Begins
  <2>1. req \in [Handlers -> Request]
    BY DEF IInv, TypeOK
  <2>2. /\ req'[h].op = "edit" /\ req'[h].pc = "reload" /\ Others(h) /\ At(h, "idle")
    BY <1>3, <2>1 DEF EditTo, NoRequest, Others
  <2> QED
    BY <2>2, Places2 DEF Vettings, Op
<1>4. ASSUME NEW a \in Apps, QueueTake(h, a) PROVE Begins \/ UNCHANGED <<app, req>>
  BY <1>1, <1>4 DEF QueueTake, Vettings
<1>5. ASSUME NEW a \in Apps, SetStatus(h, a) \/ Reply(h, a) \/ Withdraw(h, a) PROVE Begins
  BY <1>3, <1>5 DEF SetStatus, Reply, Withdraw
<1>6. ASSUME NEW a \in Apps, SelectLoad(h, a) \/ PickLoad(h, a) PROVE Begins
  BY <1>2, <1>6 DEF SelectLoad, PickLoad
<1>7. ASSUME DailyTake(h) \/ ViewTake(h) PROVE Begins
  BY <1>1, <1>7 DEF DailyTake, ViewTake, Vettings
<1>8. ASSUME SettleUnlock(h) PROVE Begins
  BY <1>2, <1>8 DEF SettleUnlock
<1> QED
  BY <1>4, <1>5, <1>6, <1>7, <1>8

\* Starting changes neither a status nor a mark.
LEMMA StartKeeps ==
    ASSUME IInv, NEW h \in Handlers,
           \/ \E a \in Apps :
                \/ QueueTake(h, a) \/ SetStatus(h, a) \/ Reply(h, a) \/ Withdraw(h, a)
                \/ SelectLoad(h, a) \/ PickLoad(h, a)
           \/ DailyTake(h) \/ ViewTake(h) \/ SettleUnlock(h)
    PROVE  \A a \in Apps : app'[a].status = app[a].status /\ app'[a].lit = app[a].lit
<1>1. app \in [Apps -> Row]
  BY DEF IInv, TypeOK
<1>2. CASE SettleUnlock(h)
  <2>1. \A x \in Apps : app'[x] = [app[x] EXCEPT !.unlocked = @ \/ x \in Existing]
    BY <1>2 DEF SettleUnlock
  <2> QED
    BY <1>1, <2>1 DEF Row
<1>3. CASE ~SettleUnlock(h)
  <2>1. app' = app
    BY <1>3 DEF QueueTake, SetStatus, Reply, Withdraw, EditTo, SelectLoad, PickLoad,
                DailyTake, ViewTake
  <2> QED
    BY <2>1
<1> QED
  BY <1>2, <1>3

\* The steps of a vetting.
LEMMA VettingStep ==
    ASSUME IInv, PlacesOK, NEW h \in Handlers, req[h].op \in Vettings,
           Continue(h) \/ Abort(h)
    PROVE  \/ VetLoad(h) \/ VetScore(h) \/ VetHighlight(h) \/ SaveWrite(h) \/ VetAdvance(h)
           \/ Return(h) /\ app' = app
<1>1. req[h].pc \in VettingSteps
  BY Places2 DEF PlacesOK
<1> QED
  BY <1>1 DEF VettingSteps, SaveReload, SelectWrite, PickCheck, PickClear, PickCommit,
              SettleScan, SettleAdvance, At, Continue, VetComplete, Abort

LEMMA VetLoadFields ==
    ASSUME IInv, NEW h \in Handlers, VetLoad(h)
    PROVE  /\ req[h].pc = "load" /\ req'[h].pc = "score" /\ req'[h].op = req[h].op
           /\ req'[h].mem = [a \in Existing |-> app[a]] /\ req'[h].ranked = req[h].ranked
           /\ app' = app
<1>1. req \in [Handlers -> Request] /\ req[h] \in Request
  BY DEF IInv, TypeOK
<1> QED
  BY <1>1 DEF VetLoad, Request, At

\* The marks a vetting sets in its copy are those it chose.
LEMMA MarksSet ==
    ASSUME NEW f \in Entities, NEW S, S \subseteq DOMAIN f, NEW T \in SUBSET S
    PROVE  /\ DOMAIN Highlighted(f, S, T) = DOMAIN f
           /\ \A a \in DOMAIN f : Highlighted(f, S, T)[a].status = f[a].status
           /\ Lit(Highlighted(f, S, T), S) = T
<1>1. f \in [DOMAIN f -> Row]
  BY EntitiesElim
<1>2. \A a \in S : Highlighted(f, S, T)[a].lit = (a \in T)
  BY <1>1 DEF Highlighted, Row
<1>3. Lit(Highlighted(f, S, T), S) = T
  BY <1>2 DEF Lit
<1>4. \A a \in DOMAIN f : Highlighted(f, S, T)[a].status = f[a].status
  BY <1>1 DEF Highlighted, Row
<1> QED
  BY <1>3, <1>4 DEF Highlighted

LEMMA VetHighlightFields ==
    ASSUME IInv, NEW h \in Handlers, VetHighlight(h)
    PROVE  /\ req[h].pc = "score" /\ req'[h].pc = "write" /\ req'[h].op = req[h].op
           /\ req'[h].ranked = req[h].ranked /\ app' = app
           /\ DOMAIN req'[h].mem = DOMAIN req[h].mem
           /\ \A a \in DOMAIN req[h].mem :
                req'[h].mem[a].status = req[h].mem[a].status /\ req'[h].snap[a] = app[a]
           /\ req[h].ranked \subseteq DOMAIN req[h].mem =>
                IsTop(Lit(req'[h].mem, req[h].ranked), req[h].ranked)
<1>1. req \in [Handlers -> Request] /\ req[h] \in Request /\ req[h].pc = "score"
  BY DEF IInv, TypeOK, VetHighlight, At
<1>2. PICK T \in SUBSET req[h].ranked :
        /\ IsTop(T, req[h].ranked)
        /\ req' = [req EXCEPT ![h] =
                    [req[h] EXCEPT !.pc = "write",
                                   !.mem = Highlighted(req[h].mem, req[h].ranked, T),
                                   !.snap = [a \in DOMAIN req[h].mem |-> app[a]]]]
  BY DEF VetHighlight
<1>3. PICK n : n = Highlighted(req[h].mem, req[h].ranked, T)
  OBVIOUS
<1>4. /\ req'[h].pc = "write" /\ app' = app /\ req'[h].ranked = req[h].ranked
      /\ req'[h].op = req[h].op /\ req'[h].mem = n
      /\ req'[h].snap = [a \in DOMAIN req[h].mem |-> app[a]]
  BY <1>1, <1>2, <1>3 DEF Request, VetHighlight
<1>5. req[h].mem \in Entities /\ req[h].mem \in [DOMAIN req[h].mem -> Row]
  BY <1>1, EntitiesElim DEF Request
<1>6. /\ DOMAIN n = DOMAIN req[h].mem
      /\ \A a \in DOMAIN req[h].mem : n[a].status = req[h].mem[a].status
  BY <1>3, <1>5 DEF Highlighted, Row
<1>7. ASSUME req[h].ranked \subseteq DOMAIN req[h].mem
      PROVE  Lit(n, req[h].ranked) = T
  BY <1>3, <1>5, <1>7, MarksSet
<1> QED
  BY <1>1, <1>2, <1>4, <1>6, <1>7

\* A row that has, in the copy to be saved and in the one it is compared with, the
\* table's status keeps it; one with the table's mark in the latter gets the copy's.
LEMMA SavedRow ==
    ASSUME IInv, NEW h \in Handlers, SaveWrite(h), NEW a \in DOMAIN req[h].mem
    PROVE  /\ req[h].mem[a].status = app[a].status /\ req[h].snap[a].status = app[a].status
                => app'[a].status = app[a].status
           /\ req[h].snap[a].lit = app[a].lit => app'[a].lit = req[h].mem[a].lit
<1>1. DOMAIN req[h].mem \subseteq Apps
  BY EntitiesElim DEF IInv, TypeOK, Request
<1>2. app'[a] = SaveRow(app[a], req[h].snap[a], req[h].mem[a])
  BY <1>1 DEF SaveWrite
<1> QED
  BY <1>2 DEF SaveRow, SaveColumn

LEMMA StatusSaved ==
    ASSUME IInv, PlacesOK, NEW h \in Handlers, StatusesOK(req[h], app), SaveWrite(h),
           req[h].op \in Vettings
    PROVE  \A a \in Apps : app'[a].status = app[a].status
<1>1. Holds(req[h]) /\ req[h].pc = "write"
  BY DEF Holds, SaveWrite, At
<1>2. \A a \in DOMAIN req[h].mem :
        /\ req[h].mem[a].status = app[a].status /\ req[h].snap[a].status = app[a].status
  BY <1>1 DEF StatusesOK
<1>3. \A a \in DOMAIN req[h].mem : app'[a].status = app[a].status
  BY <1>2, SavedRow
<1>4. \A a \in Apps : a \notin DOMAIN req[h].mem => app'[a] = app[a]
  BY DEF SaveWrite
<1> QED
  BY <1>3, <1>4

LEMMA VetAdvanceRows ==
    ASSUME IInv, NEW h \in Handlers, VetAdvance(h), NEW a \in Apps
    PROVE  /\ app'[a].lit = app[a].lit
           /\ app'[a].status # app[a].status =>
                app[a].status = "APPLIED" /\ app'[a].status = "VETTED"
<1>1. app[a] \in Row
  BY DEF IInv, TypeOK
<1>2. app'[a] = IF a \in req[h].ranked THEN Advanced(app[a]) ELSE app[a]
  BY DEF VetAdvance
<1> QED
  BY <1>1, <1>2 DEF Advanced, Row

\* What a step changes in the rows while it moves a vetting.
LEMMA VettingWrites ==
    ASSUME IInv, PlacesOK, [Next]_vars, NEW h \in Handlers,
           req[h].op \in Vettings, req'[h] # req[h]
    PROVE  app' = app \/ SaveWrite(h) \/ VetAdvance(h)
<1>1. req \in [Handlers -> Request]
  BY DEF IInv, TypeOK
<1>2. ~At(h, "idle")
  BY PlaceOf DEF Vettings
<1>3. CASE \/ \E a \in Apps : Apply(a) \/ Employ(a) \/ RowCloses(a)
           \/ HourPasses \/ Crash \/ UNCHANGED vars
  BY <1>3 DEF Apply, Employ, RowCloses, HourPasses, Crash, vars
<1>4. ASSUME NEW g \in Handlers,
             \/ \E a \in Apps :
                  \/ QueueTake(g, a) \/ SetStatus(g, a) \/ Reply(g, a) \/ Withdraw(g, a)
                  \/ SelectLoad(g, a) \/ PickLoad(g, a)
             \/ DailyTake(g) \/ ViewTake(g) \/ SettleUnlock(g)
      PROVE  app' = app
  <2>1. CASE UNCHANGED <<app, req>>
    BY <2>1
  <2>2. CASE Others(g) /\ At(g, "idle")
    BY <1>2, <2>2 DEF Others
  <2> QED
    BY <1>4, <2>1, <2>2, StartShape
<1>5. ASSUME NEW g \in Handlers, Continue(g) \/ Abort(g)
      PROVE  app' = app \/ SaveWrite(h) \/ VetAdvance(h)
  <2>1. g = h
    BY <1>1, <1>5, StaysContinue DEF Stays, Others
  <2> QED
    BY <1>1, <1>5, <2>1, VettingStep DEF VetLoad, VetScore, VetHighlight
<1> QED
  BY <1>3, <1>4, <1>5 DEF Next

-----------------------------------------------------------------------------
\* While nobody writes a status under a vetting, it writes none either.

\* The step of a handler itself.
LEMMA StatusOwn ==
    ASSUME IInv, PlacesOK, NEW h \in Handlers, StatusesOK(req[h], app),
           Continue(h) \/ Abort(h)
    PROVE  StatusesOK(req'[h], app')
<1>1. CASE ~Holds(req'[h])
  BY <1>1 DEF StatusesOK
<1>2. CASE Holds(req'[h])
  <2>1. req[h].op \in Vettings
    BY <1>2, StaysContinue DEF Stays, Holds, Vettings
  <2>2. CASE VetLoad(h)
    <3>1. /\ req'[h].pc = "score" /\ app' = app
          /\ req'[h].mem = [a \in Existing |-> app[a]]
      BY <2>2, VetLoadFields
    <3>2. \A a \in Existing : app[a].status # "NONE"
      BY DEF Existing
    <3> QED
      BY <3>1, <3>2 DEF StatusesOK
  <2>3. CASE VetScore(h)
    <3>1. req'[h].pc = "score" /\ Holds(req[h]) /\ app' = app
      BY <2>1, <2>3, VetScoreFields DEF VetScore, Holds
    <3>2. req[h].mem \in [DOMAIN req[h].mem -> Row]
      BY EntitiesElim DEF IInv, TypeOK, Request
    <3>3. \A a : /\ DOMAIN Scored(req[h].mem, a) = DOMAIN req[h].mem
                 /\ \A x \in DOMAIN req[h].mem :
                      Scored(req[h].mem, a)[x].status = req[h].mem[x].status
      BY <3>2 DEF Scored, Row
    <3>4. /\ DOMAIN req'[h].mem = DOMAIN req[h].mem
          /\ \A x \in DOMAIN req[h].mem : req'[h].mem[x].status = req[h].mem[x].status
      BY <2>3, <3>3, VetScoreFields
    <3> QED
      BY <3>1, <3>4 DEF StatusesOK
  <2>4. CASE VetHighlight(h)
    <3>1. Holds(req[h])
      BY <2>1, <2>4, VetHighlightFields DEF Holds
    <3> QED
      BY <2>4, <3>1, VetHighlightFields DEF StatusesOK
  <2>5. ASSUME SaveWrite(h) \/ VetAdvance(h) PROVE FALSE
    BY <1>2, <2>1, <2>5, GotoFields DEF SaveWrite, VetAdvance, Holds, Vettings
  <2>6. ASSUME Return(h) PROVE FALSE
    BY <1>2, <2>6, ReturnFields DEF Holds, Vettings
  <2> QED
    BY <2>1, <2>2, <2>3, <2>4, <2>5, <2>6, VettingStep
<1> QED
  BY <1>1, <1>2

\* The step of a handler that is not about to write a status changes none.
LEMMA StatusKept ==
    ASSUME IInv, PlacesOK, NEW h \in Handlers, StatusesOK(req[h], app),
           ~WritesStatus(req[h]), Continue(h) \/ Abort(h)
    PROVE  \A a \in Apps : app'[a].status = app[a].status
<1>1. ~SelectWrite(h) /\ ~PickCommit(h) /\ ~SettleAdvance(h) /\ ~VetAdvance(h)
  BY DEF WritesStatus, SelectWrite, PickCommit, SettleAdvance, VetAdvance, At
<1>2. CASE SaveWrite(h)
  <2>1. req[h].op \in Vettings
    BY <1>2, PlaceOf DEF WritesStatus, SaveWrite, At
  <2> QED
    BY <1>2, <2>1, StatusSaved
<1>3. CASE ~SaveWrite(h)
  <2>1. app' = app
    BY <1>1, <1>3 DEF Continue, Abort, VetLoad, VetScore, VetHighlight, VetComplete,
                      SaveReload, PickCheck, PickClear, SettleScan
  <2> QED
    BY <2>1
<1> QED
  BY <1>2, <1>3

\* A copy whose rows keep their statuses in the table.
LEMMA StatusBeside ==
    ASSUME IInv, NEW g \in Handlers, StatusesOK(req[g], app),
           \A a \in Apps : app[a].status # "NONE" => app'[a].status = app[a].status
    PROVE  StatusesOK(req[g], app')
<1>1. DOMAIN req[g].mem \subseteq Apps
  BY EntitiesElim DEF IInv, TypeOK, Request
<1> QED
  BY <1>1 DEF StatusesOK

LEMMA StatusAround ==
    ASSUME IInv, StatusIInv,
           \/ \E a \in Apps : Apply(a) \/ Employ(a) \/ RowCloses(a)
           \/ HourPasses \/ Crash \/ UNCHANGED vars \/ UNCHANGED <<app, req>>
    PROVE  StatusIInv'
<1>1. CASE Crash
  <2>1. \A g \in Handlers : req'[g].op = "none" /\ req'[g].pc = "idle"
    BY <1>1 DEF Crash, NoRequest
  <2> QED
    BY <2>1, Places2 DEF StatusIInv, PlacesOK, StatusesOK, Holds, Vettings
<1>2. CASE ~Crash
  <2>1. req' = req
    BY <1>2 DEF Apply, Employ, RowCloses, HourPasses, vars
  <2>2. \A a \in Apps : app[a].status # "NONE" => app'[a].status = app[a].status
    BY <1>2 DEF Apply, Employ, RowCloses, HourPasses, vars, IInv, TypeOK, Existing
  <2> QED
    BY <2>1, <2>2, StatusBeside DEF StatusIInv, PlacesOK
<1> QED
  BY <1>1, <1>2

LEMMA StatusContinue ==
    ASSUME IInv, StatusIInv, StatusesApart, NEW h \in Handlers, Continue(h) \/ Abort(h)
    PROVE  StatusIInv'
<1>1. PlacesOK /\ Stays(h)
  BY StaysContinue DEF StatusIInv
<1>2. PlacesOK'
  BY <1>1 DEF PlacesOK, Stays, Others
<1>3. ASSUME NEW g \in Handlers PROVE StatusesOK(req'[g], app')
  <2>1. CASE g = h
    BY <1>1, <2>1, StatusOwn DEF StatusIInv
  <2>2. CASE g # h
    <3>1. req'[g] = req[g] /\ StatusesOK(req[g], app) /\ StatusesOK(req[h], app)
      BY <1>1, <2>2 DEF Stays, Others, StatusIInv
    <3>2. CASE ~Holds(req[g])
      BY <3>1, <3>2 DEF StatusesOK
    <3>3. CASE Holds(req[g])
      <4>1. ~WritesStatus(req[h])
        BY <2>2, <3>3 DEF StatusesApart
      <4> QED
        BY <1>1, <3>1, <4>1, StatusKept, StatusBeside
    <3> QED
      BY <3>2, <3>3
  <2> QED
    BY <2>1, <2>2
<1> QED
  BY <1>2, <1>3 DEF StatusIInv

LEMMA StatusStarts ==
    ASSUME IInv, StatusIInv, NEW h \in Handlers,
           \/ \E a \in Apps :
                \/ QueueTake(h, a) \/ SetStatus(h, a) \/ Reply(h, a) \/ Withdraw(h, a)
                \/ SelectLoad(h, a) \/ PickLoad(h, a)
           \/ DailyTake(h) \/ ViewTake(h) \/ SettleUnlock(h)
    PROVE  StatusIInv'
<1>1. CASE UNCHANGED <<app, req>>
  BY <1>1, StatusAround
<1>2. CASE /\ Others(h) /\ req'[h].pc \in Places[req'[h].op]
           /\ req'[h].op \in Vettings => req'[h].pc = "load"
  <2>1. PlacesOK'
    BY <1>2 DEF StatusIInv, PlacesOK, Others
  <2>2. ASSUME NEW g \in Handlers PROVE StatusesOK(req'[g], app')
    <3>1. CASE g = h
      BY <1>2, <3>1 DEF StatusesOK, Holds
    <3>2. CASE g # h
      <4>1. req'[g] = req[g] /\ StatusesOK(req[g], app)
        BY <1>2, <3>2 DEF Others, StatusIInv
      <4> QED
        BY <4>1, StartKeeps, StatusBeside
    <3> QED
      BY <3>1, <3>2
  <2> QED
    BY <2>1, <2>2 DEF StatusIInv
<1> QED
  BY <1>1, <1>2, StartShape

LEMMA StatusNext ==
    ASSUME IInv, StatusIInv, StatusesApart, [Next]_vars
    PROVE  StatusIInv'
<1>1. CASE UNCHANGED vars
  BY <1>1, StatusAround
<1>2. CASE Next
  <2>1. CASE \/ \E a \in Apps : Apply(a) \/ Employ(a) \/ RowCloses(a)
             \/ HourPasses \/ Crash
    BY <2>1, StatusAround
  <2>2. ASSUME NEW h \in Handlers, NEW a \in Apps,
               \/ QueueTake(h, a) \/ SetStatus(h, a) \/ Reply(h, a) \/ Withdraw(h, a)
               \/ SelectLoad(h, a) \/ PickLoad(h, a)
        PROVE  StatusIInv'
    BY <2>2, StatusStarts
  <2>3. ASSUME NEW h \in Handlers,
               DailyTake(h) \/ ViewTake(h) \/ SettleUnlock(h) \/ Continue(h) \/ Abort(h)
        PROVE  StatusIInv'
    BY <2>3, StatusStarts, StatusContinue
  <2> QED
    BY <1>2, <2>1, <2>2, <2>3 DEF Next
<1> QED
  BY <1>1, <1>2

LEMMA StatusInit == Init => StatusIInv
  BY Places2 DEF Init, NoRequest, StatusIInv, PlacesOK, StatusesOK, Holds, Vettings

\* job-vetting.service.ts:623: while no other handler is about to write a status
\* when a vetting has the rows in memory, the steps of vettings only move APPLIED to
\* VETTED, although they save whole rows loaded before.
THEOREM VettingKeepsSelectionsHolds == Spec /\ []StatusesApart => VettingKeepsSelections
<1> DEFINE Keeps == \A h \in Handlers, a \in Apps :
             (req[h].op \in {"queue", "vet"} /\ req'[h] # req[h]
                /\ app'[a].status # app[a].status)
             => app[a].status = "APPLIED" /\ app'[a].status = "VETTED"
<1>1. ASSUME IInv, StatusIInv, [Next]_vars PROVE Keeps
  <2>1. ASSUME NEW h \in Handlers, NEW a \in Apps, req[h].op \in Vettings,
               req'[h] # req[h], app'[a].status # app[a].status
        PROVE  app[a].status = "APPLIED" /\ app'[a].status = "VETTED"
    <3>1. PlacesOK /\ StatusesOK(req[h], app)
      BY <1>1 DEF StatusIInv
    <3>2. SaveWrite(h) \/ VetAdvance(h)
      BY <1>1, <2>1, <3>1, VettingWrites
    <3> QED
      BY <1>1, <2>1, <3>1, <3>2, StatusSaved, VetAdvanceRows
  <2> QED
    BY <2>1 DEF Vettings
<1>2. IInv /\ StatusIInv /\ [Next]_vars => [Keeps]_vars
  BY <1>1
<1>3. IInv /\ StatusIInv /\ StatusesApart /\ [Next]_vars => StatusIInv'
  BY StatusNext
<1> QED
  BY <1>2, <1>3, StatusInit, Invariance, PTL DEF Spec, VettingKeepsSelections

-----------------------------------------------------------------------------
\* While nobody saves rows under the marks of a vetting, they are what it chose.

LEMMA MarkOwn ==
    ASSUME IInv, PlacesOK, NEW h \in Handlers, req[h].op \in Vettings,
           MarksOK(req[h], app), Continue(h) \/ Abort(h)
    PROVE  MarksOK(req'[h], app')
<1>1. CASE VetLoad(h)
  BY <1>1, VetLoadFields DEF MarksOK
<1>2. CASE VetScore(h)
  <2>1. req[h].pc = "score" /\ req'[h].pc = "score" /\ req'[h].op = req[h].op
    BY <1>2, VetScoreFields
  <2>2. req[h].ranked \subseteq DOMAIN req[h].mem
    BY <2>1 DEF MarksOK, Holds
  <2>3. req[h].todo \subseteq DOMAIN req[h].mem
    BY <2>1 DEF IInv, RequestOK
  <2>4. \A a : DOMAIN Scored(req[h].mem, a) = DOMAIN req[h].mem
    BY DEF Scored
  <2>5. req'[h].ranked \subseteq DOMAIN req'[h].mem
    BY <1>2, <2>2, <2>3, <2>4, VetScoreFields
  <2> QED
    BY <2>1, <2>5 DEF MarksOK
<1>3. CASE VetHighlight(h)
  <2>1. req[h].ranked \subseteq DOMAIN req[h].mem
    BY <1>3, VetHighlightFields DEF MarksOK, Holds
  <2> QED
    BY <1>3, <2>1, VetHighlightFields DEF MarksOK
<1>4. CASE SaveWrite(h)
  <2>1. Goto(h, "advance") /\ req[h].pc = "write" /\ Holds(req[h])
    BY <1>4 DEF SaveWrite, Vettings, At, Holds
  <2>2. req'[h].pc = "advance" /\ req'[h].ranked = req[h].ranked
    BY <2>1, GotoFields
  <2>3. /\ req[h].ranked \subseteq DOMAIN req[h].mem
        /\ IsTop(Lit(req[h].mem, req[h].ranked), req[h].ranked)
        /\ \A a \in DOMAIN req[h].mem : req[h].snap[a].lit = app[a].lit
    BY <2>1 DEF MarksOK
  <2>4. \A a \in DOMAIN req[h].mem : app'[a].lit = req[h].mem[a].lit
    BY <1>4, <2>3, SavedRow
  <2>5. Lit(app', req[h].ranked) = Lit(req[h].mem, req[h].ranked)
    BY <2>3, <2>4 DEF Lit
  <2> QED
    BY <2>2, <2>3, <2>5 DEF MarksOK, Holds
<1>5. CASE VetAdvance(h)
  <2>1. req[h].ranked \subseteq Apps /\ req[h].pc = "advance"
    BY <1>5 DEF IInv, TypeOK, Request, VetAdvance, At
  <2>2. req'[h].pc = "complete" /\ req'[h].ranked = req[h].ranked
    BY <1>5, GotoFields DEF VetAdvance
  <2>3. Lit(app', req[h].ranked) = Lit(app, req[h].ranked)
    BY <1>5, <2>1, VetAdvanceRows DEF Lit
  <2> QED
    BY <2>1, <2>2, <2>3 DEF MarksOK, Holds
<1>6. CASE Return(h)
  <2>1. req'[h].pc = "idle"
    BY <1>6, ReturnFields
  <2> QED
    BY <2>1 DEF MarksOK, Holds
<1> QED
  BY <1>1, <1>2, <1>3, <1>4, <1>5, <1>6, VettingStep

\* A handler that is no vetting has no marks.
LEMMA NoVetting ==
    ASSUME NEW r, r.op \in Op, r.op \notin Vettings, r.pc \in Places[r.op], NEW table
    PROVE  MarksOK(r, table)
  BY Places2 DEF MarksOK, Holds, Op, Vettings

\* Only the save of whole rows sets or clears a mark.
LEMMA MarksKept ==
    ASSUME IInv, NEW h \in Handlers, ~At(h, "write"), Continue(h) \/ Abort(h)
    PROVE  \A a \in Apps : app'[a].lit = app[a].lit
<1>1. app \in [Apps -> Row]
  BY DEF IInv, TypeOK
<1>2. CASE VetAdvance(h)
  BY <1>2, VetAdvanceRows
<1>3. CASE SelectWrite(h)
  <2>1. app' = [app EXCEPT ![req[h].app].status = "SELECTED_FOR_SCREENING"]
    BY <1>3 DEF SelectWrite
  <2> QED
    BY <1>1, <2>1 DEF Row
<1>4. CASE PickCommit(h)
  <2>1. \A x \in Apps :
          \/ app'[x] = [app[x] EXCEPT !.status = "OFFER_SENT"]
          \/ app'[x] = [app[x] EXCEPT !.status = "VETTED"]
          \/ app'[x] = app[x]
    BY <1>4 DEF PickCommit
  <2> QED
    BY <1>1, <2>1 DEF Row
<1>5. CASE SettleAdvance(h)
  <2>1. \A x \in Apps :
          \/ app'[x] = [app[x] EXCEPT !.status = "PAYMENT_COMPLETE"]
          \/ app'[x] = app[x]
    BY <1>5 DEF SettleAdvance
  <2> QED
    BY <1>1, <2>1 DEF Row
<1>6. CASE UNCHANGED app
  BY <1>6
<1> QED
  BY <1>2, <1>3, <1>4, <1>5, <1>6
     DEF Continue, Abort, VetLoad, VetScore, VetHighlight, VetComplete, SaveReload,
         SaveWrite, PickCheck, PickClear, SettleScan

\* A vetting under which the table keeps its marks.
LEMMA MarkBeside ==
    ASSUME IInv, NEW g \in Handlers, MarksOK(req[g], app),
           \A a \in Apps : app'[a].lit = app[a].lit
    PROVE  MarksOK(req[g], app')
<1>1. DOMAIN req[g].mem \subseteq Apps /\ req[g].ranked \subseteq Apps
  BY EntitiesElim DEF IInv, TypeOK, Request
<1>2. Lit(app', req[g].ranked) = Lit(app, req[g].ranked)
  BY <1>1 DEF Lit
<1> QED
  BY <1>1, <1>2 DEF MarksOK

LEMMA MarkAround ==
    ASSUME IInv, MarkIInv,
           \/ \E a \in Apps : Apply(a) \/ Employ(a) \/ RowCloses(a)
           \/ HourPasses \/ Crash \/ UNCHANGED vars \/ UNCHANGED <<app, req>>
    PROVE  MarkIInv'
<1>1. CASE Crash
  <2>1. \A g \in Handlers : req'[g].op = "none" /\ req'[g].pc = "idle"
    BY <1>1 DEF Crash, NoRequest
  <2> QED
    BY <2>1, Places2 DEF MarkIInv, PlacesOK, MarksOK, Holds
<1>2. CASE ~Crash
  <2>1. req' = req
    BY <1>2 DEF Apply, Employ, RowCloses, HourPasses, vars
  <2>2. app \in [Apps -> Row]
    BY DEF IInv, TypeOK
  <2>3. ASSUME NEW a \in Apps, Apply(a) PROVE \A x \in Apps : app'[x].lit = app[x].lit
    BY <2>2, <2>3 DEF Apply, Row
  <2>4. \A x \in Apps : app'[x].lit = app[x].lit
    BY <1>2, <2>3 DEF Employ, RowCloses, HourPasses, vars
  <2> QED
    BY <2>1, <2>4, MarkBeside DEF MarkIInv, PlacesOK
<1> QED
  BY <1>1, <1>2

LEMMA MarkContinue ==
    ASSUME IInv, MarkIInv, MarksApart, NEW h \in Handlers, Continue(h) \/ Abort(h)
    PROVE  MarkIInv'
<1>1. PlacesOK /\ Stays(h)
  BY StaysContinue DEF MarkIInv
<1>2. PlacesOK'
  BY <1>1 DEF PlacesOK, Stays, Others
<1>3. ASSUME NEW g \in Handlers, req'[g].op \notin Vettings PROVE MarksOK(req'[g], app')
  <2>1. req[g].op \in Op /\ "none" \in Op
    BY DEF IInv, TypeOK, Request, Op
  <2>2. req'[g].op \in Op
    BY <1>1, <2>1 DEF Stays, Others
  <2> QED
    BY <1>2, <1>3, <2>2, NoVetting DEF PlacesOK
<1>4. ASSUME NEW g \in Handlers, req'[g].op \in Vettings PROVE MarksOK(req'[g], app')
  <2>1. CASE g = h
    <3>1. req[h].op \in Vettings
      BY <1>1, <1>4, <2>1 DEF Stays, Vettings
    <3> QED
      BY <1>1, <2>1, <3>1, MarkOwn DEF MarkIInv
  <2>2. CASE g # h
    <3>1. req'[g] = req[g] /\ MarksOK(req[g], app) /\ req[g].op \in Vettings
      BY <1>1, <1>4, <2>2 DEF Stays, Others, MarkIInv
    <3>2. CASE req[g].pc \in {"write", "advance", "complete"}
      <4>1. ~At(h, "write")
        BY <2>2, <3>1, <3>2 DEF MarksApart
      <4> QED
        BY <3>1, <4>1, MarksKept, MarkBeside
    <3>3. CASE req[g].pc \notin {"write", "advance", "complete"}
      BY <3>1, <3>3 DEF MarksOK
    <3> QED
      BY <3>2, <3>3
  <2> QED
    BY <2>1, <2>2
<1> QED
  BY <1>2, <1>3, <1>4 DEF MarkIInv

LEMMA MarkStarts ==
    ASSUME IInv, MarkIInv, NEW h \in Handlers,
           \/ \E a \in Apps :
                \/ QueueTake(h, a) \/ SetStatus(h, a) \/ Reply(h, a) \/ Withdraw(h, a)
                \/ SelectLoad(h, a) \/ PickLoad(h, a)
           \/ DailyTake(h) \/ ViewTake(h) \/ SettleUnlock(h)
    PROVE  MarkIInv'
<1>1. CASE UNCHANGED <<app, req>>
  BY <1>1, MarkAround
<1>2. CASE /\ Others(h) /\ req'[h].op \in Op /\ req'[h].pc \in Places[req'[h].op]
           /\ req'[h].op \in Vettings => req'[h].pc = "load" /\ req'[h].ranked = {}
  <2>1. PlacesOK'
    BY <1>2 DEF MarkIInv, PlacesOK, Others
  <2>2. ASSUME NEW g \in Handlers PROVE MarksOK(req'[g], app')
    <3>1. CASE g = h /\ req'[h].op \in Vettings
      BY <1>2, <3>1 DEF MarksOK, Holds
    <3>2. CASE g = h /\ req'[h].op \notin Vettings
      BY <1>2, <3>2, NoVetting
    <3>3. CASE g # h
      <4>1. req'[g] = req[g] /\ MarksOK(req[g], app)
        BY <1>2, <3>3 DEF Others, MarkIInv
      <4> QED
        BY <4>1, StartKeeps, MarkBeside
    <3> QED
      BY <3>1, <3>2, <3>3
  <2> QED
    BY <2>1, <2>2 DEF MarkIInv
<1> QED
  BY <1>1, <1>2, StartShape

LEMMA MarkNext ==
    ASSUME IInv, MarkIInv, MarksApart, [Next]_vars
    PROVE  MarkIInv'
<1>1. CASE UNCHANGED vars
  BY <1>1, MarkAround
<1>2. CASE Next
  <2>1. CASE \/ \E a \in Apps : Apply(a) \/ Employ(a) \/ RowCloses(a)
             \/ HourPasses \/ Crash
    BY <2>1, MarkAround
  <2>2. ASSUME NEW h \in Handlers, NEW a \in Apps,
               \/ QueueTake(h, a) \/ SetStatus(h, a) \/ Reply(h, a) \/ Withdraw(h, a)
               \/ SelectLoad(h, a) \/ PickLoad(h, a)
        PROVE  MarkIInv'
    BY <2>2, MarkStarts
  <2>3. ASSUME NEW h \in Handlers,
               DailyTake(h) \/ ViewTake(h) \/ SettleUnlock(h) \/ Continue(h) \/ Abort(h)
        PROVE  MarkIInv'
    BY <2>3, MarkStarts, MarkContinue
  <2> QED
    BY <1>2, <2>1, <2>2, <2>3 DEF Next
<1> QED
  BY <1>1, <1>2

LEMMA MarkInit == Init => MarkIInv
<1> SUFFICES ASSUME Init PROVE MarkIInv
  OBVIOUS
<1>1. \A h \in Handlers : req[h].op = "none" /\ req[h].pc = "idle"
  BY DEF Init, NoRequest
<1>2. \A h \in Handlers : MarksOK(req[h], app)
  BY <1>1 DEF MarksOK, Holds
<1> QED
  BY <1>1, <1>2, Places2 DEF MarkIInv, PlacesOK

\* When a vetting completes under which nobody saved rows since the SELECT of its
\* own save, the stored highlight is on the best of those it ranked and on no more
\* than the job's count.
THEOREM HighlightsAreTopHolds == Spec /\ []MarksApart => HighlightsAreTop
<1> DEFINE Top == \A h \in Handlers :
             At(h, "complete") /\ vetted'.done /\ ~At(h, "complete")' /\ faults' = faults =>
               IsTop({a \in req[h].ranked : app'[a].lit}, req[h].ranked)
<1>1. ASSUME IInv, MarkIInv, [Next]_vars PROVE Top
  <2>1. ASSUME NEW h \in Handlers, At(h, "complete"), ~At(h, "complete")'
        PROVE  IsTop({a \in req[h].ranked : app'[a].lit}, req[h].ranked)
    <3>1. req[h].op \in Vettings /\ req'[h] # req[h] /\ PlacesOK
      BY <1>1, <2>1, PlaceOf DEF MarkIInv, At
    <3>2. app' = app
      BY <1>1, <2>1, <3>1, VettingWrites DEF SaveWrite, VetAdvance, At
    <3>3. IsTop(Lit(app, req[h].ranked), req[h].ranked)
      BY <1>1, <2>1 DEF MarkIInv, MarksOK, At
    <3> QED
      BY <3>2, <3>3 DEF Lit
  <2> QED
    BY <2>1
<1>2. IInv /\ MarkIInv /\ [Next]_vars => [Top]_vars
  BY <1>1
<1>3. IInv /\ MarkIInv /\ MarksApart /\ [Next]_vars => MarkIInv'
  BY MarkNext
<1> QED
  BY <1>2, <1>3, MarkInit, Invariance, PTL DEF Spec, HighlightsAreTop
=============================================================================
