----------------------- MODULE ContractSigningProofs -----------------------
(***************************************************************************)
(* Contract signing with any number of placements, contracts, overlapping  *)
(* requests, listener calls and failures: CONTRACT_SIGNED and every stored *)
(* signature were asked for, although nothing locks a contract, and        *)
(* whoever is HIRED becomes ACTIVE.  While no two requests work on one     *)
(* contract, statuses follow signatures, an executed contract is final,    *)
(* and the whole implements ContractLedger.                                *)
(***************************************************************************)
EXTENDS ContractSigningInv, TLAPS

OP == {"none", "generate", "sign", "void", "cancel", "hire"}
PC == {"idle", "insert", "mark", "reload", "write", "hireReload",
       "hireWrite", "find", "remove", "activate"}

-----------------------------------------------------------------------------
\* A saved row is a row, and each of its signatures was in the table or in the
\* handler's entity.
LEMMA SaveContractRow ==
    ASSUME NEW row \in ContractRow, NEW snap \in ContractRow, NEW mem \in ContractRow
    PROVE  /\ SaveContract(row, snap, mem) \in ContractRow
           /\ SaveContract(row, snap, mem).signed \subseteq row.signed \union mem.signed
<1>1. CASE snap.status = "REMOVED"
  BY <1>1 DEF SaveContract
<1>2. CASE snap.status # "REMOVED" /\ row.status = "REMOVED"
  BY <1>2 DEF SaveContract
<1>3. CASE snap.status # "REMOVED" /\ row.status # "REMOVED"
  <2> DEFINE S == {p \in Party : SaveColumn(p \in row.signed, p \in snap.signed,
                                            p \in mem.signed)}
             s == SaveColumn(row.status, snap.status, mem.status)
  <2>1. SaveContract(row, snap, mem) = [status |-> s, signed |-> S]
    BY <1>3 DEF SaveContract
  <2>2. s \in ContractStatus
    BY DEF SaveColumn, ContractRow
  <2>3. S \subseteq row.signed \union mem.signed
    BY DEF SaveColumn
  <2>4. S \subseteq Party
    OBVIOUS
  <2> QED
    BY <2>1, <2>2, <2>3, <2>4 DEF ContractRow
<1> QED
  BY <1>1, <1>2, <1>3

\* A row a party has signed in memory is a row with that one signature more.
LEMMA SignedRow ==
    ASSUME NEW row \in ContractRow, NEW party \in Party
    PROVE  /\ Signed(row, party) \in ContractRow
           /\ Signed(row, party).signed = row.signed \union {party}
  BY DEF Signed, SignedStatus, ContractRow, ContractStatus

\* A request stays well typed whichever fields a step assigns.
LEMMA RequestType ==
    /\ NoRequest \in Request
    /\ \A r \in Request, pc \in PC : [r EXCEPT !.pc = pc] \in Request
    /\ \A r \in Request, pc \in PC, row \in ContractRow :
          [r EXCEPT !.pc = pc, !.snap = row] \in Request
    /\ \A r \in Request, pc \in PC, s \in AppStatus :
          [r EXCEPT !.pc = pc, !.appSnap = s] \in Request
    /\ \A r \in Request, pc \in PC, c \in Contracts :
          [r EXCEPT !.pc = pc, !.contract = c] \in Request
    /\ \A op \in OP, pc \in PC, e \in Employees :
          [NoRequest EXCEPT !.op = op, !.pc = pc, !.employee = e] \in Request
    /\ \A op \in OP, pc \in PC, c \in Contracts, row \in ContractRow :
          [NoRequest EXCEPT !.op = op, !.pc = pc, !.contract = c, !.mem = row] \in Request
<1> USE DEF Request
<1>0. NoRequest \in Request
  BY DEF NoRequest
<1>1. ASSUME NEW r \in Request, NEW pc \in PC
      PROVE  [r EXCEPT !.pc = pc] \in Request
  BY DEF PC
<1>2. ASSUME NEW r \in Request, NEW pc \in PC, NEW row \in ContractRow
      PROVE  [r EXCEPT !.pc = pc, !.snap = row] \in Request
  BY DEF PC
<1>3. ASSUME NEW r \in Request, NEW pc \in PC, NEW s \in AppStatus
      PROVE  [r EXCEPT !.pc = pc, !.appSnap = s] \in Request
  BY DEF PC
<1>4. ASSUME NEW r \in Request, NEW pc \in PC, NEW c \in Contracts
      PROVE  [r EXCEPT !.pc = pc, !.contract = c] \in Request
  BY DEF PC
<1>5. ASSUME NEW op \in OP, NEW pc \in PC, NEW e \in Employees
      PROVE  [NoRequest EXCEPT !.op = op, !.pc = pc, !.employee = e] \in Request
  BY DEF NoRequest, PC, OP
<1>6. ASSUME NEW op \in OP, NEW pc \in PC, NEW c \in Contracts, NEW row \in ContractRow
      PROVE  [NoRequest EXCEPT !.op = op, !.pc = pc, !.contract = c, !.mem = row] \in Request
  BY DEF NoRequest, PC, OP
<1> QED
  BY <1>0, <1>1, <1>2, <1>3, <1>4, <1>5, <1>6

\* The three ways a step changes the requests, and what the moved one becomes.
LEMMA RequestSteps ==
    ASSUME TypeOK, NEW h \in Handlers
    PROVE  /\ \A pc \in PC : Goto(h, pc) =>
                /\ req' \in [Handlers -> Request]
                /\ req'[h] = [req[h] EXCEPT !.pc = pc]
                /\ \A g \in Handlers \ {h} : req'[g] = req[g]
           /\ \A r \in Request : Start(h, r) =>
                /\ req' \in [Handlers -> Request]
                /\ req'[h] = r
                /\ \A g \in Handlers \ {h} : req'[g] = req[g]
           /\ Return(h) =>
                /\ req' \in [Handlers -> Request]
                /\ req'[h] = NoRequest
                /\ \A g \in Handlers \ {h} : req'[g] = req[g]
<1>1. ASSUME NEW pc \in PC, Goto(h, pc)
      PROVE  /\ req' \in [Handlers -> Request]
             /\ req'[h] = [req[h] EXCEPT !.pc = pc]
             /\ \A g \in Handlers \ {h} : req'[g] = req[g]
  BY <1>1, RequestType DEF TypeOK, Goto
<1>2. ASSUME NEW r \in Request, Start(h, r)
      PROVE  /\ req' \in [Handlers -> Request]
             /\ req'[h] = r
             /\ \A g \in Handlers \ {h} : req'[g] = req[g]
  BY <1>2 DEF TypeOK, Start
<1>3. ASSUME Return(h)
      PROVE  /\ req' \in [Handlers -> Request]
             /\ req'[h] = NoRequest
             /\ \A g \in Handlers \ {h} : req'[g] = req[g]
  BY <1>3, RequestType DEF TypeOK, Return
<1> QED
  BY <1>1, <1>2, <1>3

-----------------------------------------------------------------------------
\* What every step does to the history.
Grows == \A c \in Contracts : asked[c] \subseteq asked'[c]

\* Two signatures asked for stay asked for.
LEMMA BothGrows ==
    ASSUME TypeOK', Grows, NEW e \in Employees, BothAsked(e)
    PROVE  BothAsked(e)'
<1>1. PICK c \in Contracts : OwnerOf[c] = e /\ asked[c] = Party
  BY DEF BothAsked
<1>2. asked'[c] = Party
  BY <1>1 DEF Grows, TypeOK
<1> QED
  BY <1>1, <1>2 DEF BothAsked

\* The parts of the invariant about rows and events survive a step that writes
\* neither contracts nor applications and emits nothing.
LEMMA Quiet ==
    ASSUME IInv, TypeOK', Grows, UNCHANGED <<contract, app>>,
           \A e \in Employees : events'[e] > 0 => events[e] > 0
    PROVE  SignatureWasAsked' /\ EventsOK' /\ SignedOnlyIfBothAsked'
<1>1. SignatureWasAsked'
  BY DEF IInv, SignatureWasAsked, Grows
<1>2. EventsOK'
  BY BothGrows DEF IInv, EventsOK
<1>3. ASSUME NEW e \in Employees, app'[e] = "CONTRACT_SIGNED" PROVE BothAsked(e)'
  BY <1>3, BothGrows DEF IInv, SignedOnlyIfBothAsked, BothAsked
<1> QED
  BY <1>1, <1>2, <1>3 DEF SignedOnlyIfBothAsked, BothAsked

\* The requests a step does not move may still rely on what they did.
LEMMA Others ==
    ASSUME IInv, Grows, NEW h \in Handlers, RequestOK(h)',
           \A g \in Handlers \ {h} : req'[g] = req[g]
    PROVE  \A g \in Handlers : RequestOK(g)'
<1>1. ASSUME NEW g \in Handlers, g # h PROVE RequestOK(g)'
  <2>1. RequestOK(g) /\ req'[g] = req[g]
    BY <1>1 DEF IInv
  <2> QED
    BY <2>1 DEF RequestOK, Grows, Editing
<1> QED
  BY <1>1

\* A finished request relies on nothing.
LEMMA Finished ==
    ASSUME NEW h \in Handlers, req'[h] = NoRequest
    PROVE  RequestOK(h)'
  BY DEF RequestOK, NoRequest, Editing, Hiring

-----------------------------------------------------------------------------
\* One lemma per action: it preserves the invariant.

LEMMA GenerateFindStep ==
    ASSUME IInv, NEW h \in Handlers, NEW e \in Employees, GenerateFind(h, e)
    PROVE  IInv'
<1> DEFINE r == [NoRequest EXCEPT !.op = "generate", !.pc = "insert", !.employee = e]
<1>1. r \in Request
  BY RequestType DEF OP, PC
<1>2. /\ req' \in [Handlers -> Request]
      /\ req'[h] = r
      /\ \A g \in Handlers \ {h} : req'[g] = req[g]
  BY <1>1, RequestSteps DEF GenerateFind, IInv
<1>3. TypeOK' /\ Grows
  BY <1>2 DEF GenerateFind, IInv, TypeOK, Grows
<1>4. RequestOK(h)'
  BY <1>2 DEF RequestOK, NoRequest, Editing, Hiring
<1> QED
  BY <1>2, <1>3, <1>4, Quiet, Others DEF GenerateFind, IInv

LEMMA GenerateInsertStep ==
    ASSUME IInv, NEW h \in Handlers, GenerateInsert(h)
    PROVE  IInv'
<1>1. PICK c \in Contracts :
          contract' = [contract EXCEPT ![c].status = "PENDING_SIGNATURES"]
  BY DEF GenerateInsert, Unused
<1>2. contract' \in [Contracts -> ContractRow]
  BY <1>1 DEF IInv, TypeOK, ContractRow, ContractStatus
<1>3. \A d \in Contracts : contract'[d].signed = contract[d].signed
  BY <1>1 DEF IInv, TypeOK, ContractRow
<1>4. /\ req' \in [Handlers -> Request]
      /\ req'[h] = NoRequest
      /\ \A g \in Handlers \ {h} : req'[g] = req[g]
  BY RequestSteps DEF GenerateInsert, IInv
<1>5. TypeOK' /\ Grows
  BY <1>2, <1>4 DEF GenerateInsert, IInv, TypeOK, Grows
<1>6. SignatureWasAsked' /\ EventsOK' /\ SignedOnlyIfBothAsked'
  BY <1>3 DEF GenerateInsert, IInv, SignatureWasAsked, EventsOK, SignedOnlyIfBothAsked, BothAsked
<1> QED
  BY <1>4, <1>5, <1>6, Finished, Others DEF IInv

LEMMA SignLoadStep ==
    ASSUME IInv, NEW h \in Handlers, NEW c \in Contracts, NEW party \in Party,
           SignLoad(h, c, party)
    PROVE  IInv'
<1> DEFINE row == Signed(contract[c], party)
           r == [NoRequest EXCEPT !.op = "sign", !.pc = "mark", !.contract = c, !.mem = row]
<1>1. contract[c] \in ContractRow
  BY DEF IInv, TypeOK
<1>2. row \in ContractRow /\ row.signed = contract[c].signed \union {party}
  BY <1>1, SignedRow
<1>3. r \in Request
  BY <1>2, RequestType DEF OP, PC
<1>4. /\ req' \in [Handlers -> Request]
      /\ req'[h] = r
      /\ \A g \in Handlers \ {h} : req'[g] = req[g]
  BY <1>3, RequestSteps DEF SignLoad, IInv
<1>5. asked' \in [Contracts -> SUBSET Party] /\ asked'[c] = asked[c] \union {party} /\ Grows
  BY DEF SignLoad, IInv, TypeOK, Grows
<1>6. TypeOK'
  BY <1>4, <1>5 DEF SignLoad, IInv, TypeOK
<1>7. row.signed \subseteq asked'[c]
  BY <1>2, <1>5 DEF IInv, SignatureWasAsked
<1>8. r.pc = "mark" /\ r.contract = c /\ r.mem = row
  BY DEF NoRequest
<1> HIDE DEF r, row
<1>9. RequestOK(h)'
  BY <1>2, <1>4, <1>7, <1>8 DEF RequestOK, Editing, Hiring
<1> QED
  BY <1>4, <1>5, <1>6, <1>9, Quiet, Others DEF SignLoad, IInv

LEMMA CancelLoadStep ==
    ASSUME IInv, NEW h \in Handlers, NEW c \in Contracts, NEW op \in {"void", "cancel"},
           CancelLoad(h, c, op)
    PROVE  IInv'
<1> DEFINE row == [contract[c] EXCEPT !.status = "CANCELLED"]
           r == [NoRequest EXCEPT !.op = op, !.pc = "reload", !.contract = c, !.mem = row]
<1>1. row \in ContractRow /\ row.signed = contract[c].signed
  BY DEF IInv, TypeOK, ContractRow, ContractStatus
<1>2. r \in Request
  BY <1>1, RequestType DEF OP, PC
<1>3. /\ req' \in [Handlers -> Request]
      /\ req'[h] = r
      /\ \A g \in Handlers \ {h} : req'[g] = req[g]
  BY <1>2, RequestSteps DEF CancelLoad, IInv
<1>4. TypeOK' /\ Grows
  BY <1>3 DEF CancelLoad, IInv, TypeOK, Grows
<1>5. row.signed \subseteq asked'[c]
  BY <1>1 DEF CancelLoad, IInv, SignatureWasAsked
<1>6. r.pc = "reload" /\ r.contract = c /\ r.mem = row
  BY DEF NoRequest
<1> HIDE DEF r, row
<1>7. RequestOK(h)'
  BY <1>1, <1>3, <1>5, <1>6 DEF RequestOK, Editing, Hiring
<1> QED
  BY <1>3, <1>4, <1>7, Quiet, Others DEF CancelLoad, IInv

\* The event goes out on two signatures in memory, both of them asked for.
LEMMA SignMarkStep ==
    ASSUME IInv, NEW h \in Handlers, SignMark(h)
    PROVE  IInv'
<1> DEFINE c == req[h].contract
<1>1. req[h].pc = "mark" /\ req[h] \in Request
  BY DEF SignMark, At, IInv, TypeOK
<1>2. /\ c \in Contracts /\ req[h].mem \in ContractRow
      /\ req[h].mem.signed \subseteq asked[c]
  BY <1>1 DEF IInv, RequestOK, Editing
<1>3. OwnerOf[c] \in Employees
  BY <1>2, ContractAssumption
<1>4. /\ req' \in [Handlers -> Request]
      /\ req'[h] = [req[h] EXCEPT !.pc = "reload"]
      /\ \A g \in Handlers \ {h} : req'[g] = req[g]
  BY RequestSteps DEF SignMark, IInv, PC
<1>5. events' \in [Employees -> 0..MaxEvents]
  BY <1>3, ContractAssumption DEF SignMark, IInv, TypeOK
<1>6. TypeOK' /\ Grows
  BY <1>4, <1>5 DEF SignMark, IInv, TypeOK, Grows
<1>7. RequestOK(h)'
  <2>1. req'[h].pc = "reload" /\ req'[h].contract = c /\ req'[h].mem = req[h].mem
    BY <1>1, <1>4 DEF Request
  <2> QED
    BY <1>2, <1>6, <2>1 DEF RequestOK, Editing, Hiring, Grows
<1>8. ASSUME NEW e \in Employees, events'[e] > 0 PROVE BothAsked(e)'
  <2>1. CASE events[e] > 0
    BY <1>6, <2>1, BothGrows DEF IInv, EventsOK
  <2>2. CASE ~(events[e] > 0)
    <3>1. req[h].mem.signed = Party /\ e = OwnerOf[c]
      BY <1>3, <1>8, <2>2 DEF SignMark, IInv, TypeOK
    <3>2. asked'[c] = Party
      BY <1>2, <3>1 DEF SignMark, IInv, TypeOK
    <3> QED
      BY <1>2, <3>1, <3>2 DEF BothAsked
  <2> QED
    BY <2>1, <2>2
<1>9. SignatureWasAsked' /\ SignedOnlyIfBothAsked'
  BY DEF SignMark, IInv, SignatureWasAsked, SignedOnlyIfBothAsked, BothAsked
<1> QED
  BY <1>4, <1>6, <1>7, <1>8, <1>9, Others DEF IInv, EventsOK

LEMMA SaveReloadStep ==
    ASSUME IInv, NEW h \in Handlers, SaveReload(h)
    PROVE  IInv'
<1> DEFINE c == req[h].contract
           row == contract[c]
<1>1. req[h].pc = "reload" /\ req[h] \in Request
  BY DEF SaveReload, At, IInv, TypeOK
<1>2. /\ c \in Contracts /\ req[h].mem \in ContractRow
      /\ req[h].mem.signed \subseteq asked[c]
  BY <1>1 DEF IInv, RequestOK, Editing
<1>3. row \in ContractRow /\ row.signed \subseteq asked[c]
  BY <1>2 DEF IInv, TypeOK, SignatureWasAsked
<1>4. [req[h] EXCEPT !.pc = "write", !.snap = row] \in Request
  BY <1>1, <1>3, RequestType DEF PC
<1>5. /\ req' \in [Handlers -> Request]
      /\ req'[h] = [req[h] EXCEPT !.pc = "write", !.snap = row]
      /\ \A g \in Handlers \ {h} : req'[g] = req[g]
  BY <1>4 DEF SaveReload, IInv, TypeOK
<1>6. TypeOK' /\ Grows
  BY <1>5 DEF SaveReload, IInv, TypeOK, Grows
<1>7. RequestOK(h)'
  <2>1. /\ req'[h].pc = "write" /\ req'[h].contract = c
        /\ req'[h].mem = req[h].mem /\ req'[h].snap = row
    BY <1>1, <1>5 DEF Request
  <2> QED
    BY <1>2, <1>3, <1>6, <2>1 DEF RequestOK, Editing, Hiring, Grows
<1> QED
  BY <1>5, <1>6, <1>7, Quiet, Others DEF SaveReload, IInv

\* A stale save brings back only signatures that were asked for.
LEMMA SaveWriteStep ==
    ASSUME IInv, NEW h \in Handlers, SaveWrite(h)
    PROVE  IInv'
<1> DEFINE c == req[h].contract
           row == SaveContract(contract[c], req[h].snap, req[h].mem)
<1>1. req[h].pc = "write"
  BY DEF SaveWrite, At
<1>2. /\ c \in Contracts /\ req[h].mem \in ContractRow
      /\ req[h].mem.signed \subseteq asked[c] /\ req[h].snap \in ContractRow
  BY <1>1 DEF IInv, RequestOK, Editing
<1>3. contract[c] \in ContractRow /\ contract[c].signed \subseteq asked[c]
  BY <1>2 DEF IInv, TypeOK, SignatureWasAsked
<1>4. row \in ContractRow /\ row.signed \subseteq asked[c]
  BY <1>2, <1>3, SaveContractRow
<1>5. contract' = [contract EXCEPT ![c] = row]
  BY DEF SaveWrite
<1> HIDE DEF row
<1>6. contract' \in [Contracts -> ContractRow]
  BY <1>4, <1>5 DEF IInv, TypeOK
<1>7. /\ req' \in [Handlers -> Request]
      /\ req'[h] = NoRequest
      /\ \A g \in Handlers \ {h} : req'[g] = req[g]
  BY RequestSteps DEF SaveWrite, IInv
<1>8. TypeOK' /\ Grows
  BY <1>6, <1>7 DEF SaveWrite, IInv, TypeOK, Grows
<1>9. SignatureWasAsked'
  BY <1>2, <1>4, <1>5 DEF SaveWrite, IInv, TypeOK, SignatureWasAsked
<1>10. EventsOK' /\ SignedOnlyIfBothAsked'
  BY DEF SaveWrite, IInv, EventsOK, SignedOnlyIfBothAsked, BothAsked
<1> QED
  BY <1>7, <1>8, <1>9, <1>10, Finished, Others DEF IInv

\* The listener's update is justified by the event that caused it.
LEMMA ContractFullyExecutedStep ==
    ASSUME IInv, NEW e \in Employees, ContractFullyExecuted(e)
    PROVE  IInv'
<1>1. app' \in [Employees -> AppStatus]
  BY DEF ContractFullyExecuted, IInv, TypeOK, AppStatus
<1>2. events' \in [Employees -> 0..MaxEvents]
  BY ContractAssumption DEF ContractFullyExecuted, IInv, TypeOK
<1>3. TypeOK'
  BY <1>1, <1>2 DEF ContractFullyExecuted, IInv, TypeOK
<1>4. \A d \in Employees : events'[d] > 0 => events[d] > 0
  BY ContractAssumption DEF ContractFullyExecuted, IInv, TypeOK
<1>5. SignatureWasAsked' /\ EventsOK'
  BY <1>4 DEF ContractFullyExecuted, IInv, SignatureWasAsked, EventsOK, BothAsked
<1>6. BothAsked(e)
  BY DEF ContractFullyExecuted, IInv, EventsOK
<1>7. SignedOnlyIfBothAsked'
  BY <1>6 DEF ContractFullyExecuted, IInv, TypeOK, SignedOnlyIfBothAsked, BothAsked
<1>8. \A g \in Handlers : RequestOK(g)'
  BY DEF ContractFullyExecuted, IInv, RequestOK
<1> QED
  BY <1>3, <1>5, <1>7, <1>8 DEF IInv

LEMMA HireLoadStep ==
    ASSUME IInv, NEW h \in Handlers, NEW e \in Employees, HireLoad(h, e)
    PROVE  IInv'
<1> DEFINE r == [NoRequest EXCEPT !.op = "hire", !.pc = "hireReload", !.employee = e]
<1>1. r \in Request
  BY RequestType DEF OP, PC
<1>2. /\ req' \in [Handlers -> Request]
      /\ req'[h] = r
      /\ \A g \in Handlers \ {h} : req'[g] = req[g]
  BY <1>1, RequestSteps DEF HireLoad, IInv
<1>3. TypeOK' /\ Grows
  BY <1>2 DEF HireLoad, IInv, TypeOK, Grows
<1>4. RequestOK(h)'
  BY <1>2 DEF RequestOK, NoRequest, Editing, Hiring
<1> QED
  BY <1>2, <1>3, <1>4, Quiet, Others DEF HireLoad, IInv

LEMMA HireReloadStep ==
    ASSUME IInv, NEW h \in Handlers, HireReload(h)
    PROVE  IInv'
<1> DEFINE s == app[req[h].employee]
<1>1. req[h].pc = "hireReload" /\ req[h] \in Request
  BY DEF HireReload, At, IInv, TypeOK
<1>2. req[h].employee \in Employees
  BY <1>1 DEF IInv, RequestOK, Hiring
<1>3. s \in AppStatus
  BY <1>2 DEF IInv, TypeOK
<1>4. [req[h] EXCEPT !.pc = "hireWrite", !.appSnap = s] \in Request
  BY <1>1, <1>3, RequestType DEF PC
<1>5. /\ req' \in [Handlers -> Request]
      /\ req'[h] = [req[h] EXCEPT !.pc = "hireWrite", !.appSnap = s]
      /\ \A g \in Handlers \ {h} : req'[g] = req[g]
  BY <1>4 DEF HireReload, IInv, TypeOK
<1>6. TypeOK' /\ Grows
  BY <1>5 DEF HireReload, IInv, TypeOK, Grows
<1>7. RequestOK(h)'
  <2>1. /\ req'[h].pc = "hireWrite" /\ req'[h].employee = req[h].employee
        /\ req'[h].appSnap = s
    BY <1>1, <1>5 DEF Request
  <2> QED
    BY <1>2, <1>3, <2>1 DEF RequestOK, Editing, Hiring
<1> QED
  BY <1>5, <1>6, <1>7, Quiet, Others DEF HireReload, IInv

\* confirmHire writes HIRED or leaves the status as it is.
LEMMA HireWriteStep ==
    ASSUME IInv, NEW h \in Handlers, HireWrite(h)
    PROVE  IInv'
<1> DEFINE e == req[h].employee
<1>1. req[h].pc = "hireWrite" /\ req[h] \in Request
  BY DEF HireWrite, At, IInv, TypeOK
<1>2. e \in Employees
  BY <1>1 DEF IInv, RequestOK, Hiring
<1>3. app'[e] \in {app[e], "HIRED"} /\ \A d \in Employees \ {e} : app'[d] = app[d]
  BY <1>2 DEF HireWrite, SaveColumn, IInv, TypeOK
<1>4. app' \in [Employees -> AppStatus]
  BY <1>2 DEF HireWrite, SaveColumn, IInv, TypeOK, AppStatus
<1>5. /\ req' \in [Handlers -> Request]
      /\ req'[h] = [req[h] EXCEPT !.pc = "find"]
      /\ \A g \in Handlers \ {h} : req'[g] = req[g]
  BY RequestSteps DEF HireWrite, IInv, PC
<1>6. TypeOK' /\ Grows
  BY <1>4, <1>5 DEF HireWrite, IInv, TypeOK, Grows
<1>7. RequestOK(h)'
  <2>1. req'[h].pc = "find" /\ req'[h].employee = e
    BY <1>1, <1>5 DEF Request
  <2> QED
    BY <1>2, <2>1 DEF RequestOK, Editing, Hiring
<1>8. SignatureWasAsked' /\ EventsOK'
  BY DEF HireWrite, IInv, SignatureWasAsked, EventsOK, BothAsked
<1>9. ASSUME NEW d \in Employees, app'[d] = "CONTRACT_SIGNED"
      PROVE  \E c \in Contracts : OwnerOf[c] = d /\ asked'[c] = Party
  <2>1. app[d] = "CONTRACT_SIGNED"
    BY <1>3, <1>9
  <2> QED
    BY <2>1 DEF HireWrite, IInv, SignedOnlyIfBothAsked
<1>10. SignedOnlyIfBothAsked'
  BY <1>9 DEF SignedOnlyIfBothAsked
<1> QED
  BY <1>5, <1>6, <1>7, <1>8, <1>10, Others DEF IInv

LEMMA HireFindStep ==
    ASSUME IInv, NEW h \in Handlers, HireFind(h)
    PROVE  IInv'
<1> DEFINE e == req[h].employee
<1>1. req[h].pc = "find" /\ req[h] \in Request
  BY DEF HireFind, At, IInv, TypeOK
<1>2. e \in Employees
  BY <1>1 DEF IInv, RequestOK, Hiring
<1>3. CASE Goto(h, "activate")
  <2>1. /\ req' \in [Handlers -> Request]
        /\ req'[h] = [req[h] EXCEPT !.pc = "activate"]
        /\ \A g \in Handlers \ {h} : req'[g] = req[g]
    BY <1>3, RequestSteps DEF IInv, PC
  <2>2. req'[h].pc = "activate" /\ req'[h].employee = e
    BY <1>1, <2>1 DEF Request
  <2>3. RequestOK(h)'
    BY <1>2, <2>2 DEF RequestOK, Editing, Hiring
  <2>4. TypeOK' /\ Grows
    BY <2>1 DEF HireFind, IInv, TypeOK, Grows
  <2> QED
    BY <2>1, <2>3, <2>4, Quiet, Others DEF HireFind, IInv
<1>4. CASE \E c \in Contracts :
             req' = [req EXCEPT ![h].pc = "remove", ![h].contract = c]
  <2>1. PICK c \in Contracts :
            req' = [req EXCEPT ![h].pc = "remove", ![h].contract = c]
    BY <1>4
  <2>2. [req[h] EXCEPT !.pc = "remove", !.contract = c] \in Request
    BY <1>1, RequestType DEF PC
  <2>3. /\ req' \in [Handlers -> Request]
        /\ req'[h] = [req[h] EXCEPT !.pc = "remove", !.contract = c]
        /\ \A g \in Handlers \ {h} : req'[g] = req[g]
    BY <2>1, <2>2 DEF IInv, TypeOK
  <2>4. req'[h].pc = "remove" /\ req'[h].employee = e /\ req'[h].contract = c
    BY <1>1, <2>3 DEF Request
  <2>5. RequestOK(h)'
    BY <1>2, <2>4 DEF RequestOK, Editing, Hiring
  <2>6. TypeOK' /\ Grows
    BY <2>3 DEF HireFind, IInv, TypeOK, Grows
  <2> QED
    BY <2>3, <2>5, <2>6, Quiet, Others DEF HireFind, IInv
<1> QED
  BY <1>3, <1>4 DEF HireFind, UncompletedOf, ContractsOf

LEMMA HireRemoveStep ==
    ASSUME IInv, NEW h \in Handlers, HireRemove(h)
    PROVE  IInv'
<1> DEFINE c == req[h].contract
<1>1. req[h].pc = "remove" /\ req[h] \in Request
  BY DEF HireRemove, At, IInv, TypeOK
<1>2. c \in Contracts /\ req[h].employee \in Employees
  BY <1>1 DEF IInv, RequestOK, Hiring
<1>3. contract' \in [Contracts -> ContractRow]
  BY <1>2 DEF HireRemove, IInv, TypeOK, ContractRow, ContractStatus
<1>4. \A d \in Contracts : contract'[d].signed = contract[d].signed
  BY <1>2 DEF HireRemove, IInv, TypeOK, ContractRow
<1>5. /\ req' \in [Handlers -> Request]
      /\ req'[h] = [req[h] EXCEPT !.pc = "activate"]
      /\ \A g \in Handlers \ {h} : req'[g] = req[g]
  BY RequestSteps DEF HireRemove, IInv, PC
<1>6. TypeOK' /\ Grows
  BY <1>3, <1>5 DEF HireRemove, IInv, TypeOK, Grows
<1>7. RequestOK(h)'
  <2>1. req'[h].pc = "activate" /\ req'[h].employee = req[h].employee
    BY <1>1, <1>5 DEF Request
  <2> QED
    BY <1>2, <2>1 DEF RequestOK, Editing, Hiring
<1>8. SignatureWasAsked' /\ EventsOK' /\ SignedOnlyIfBothAsked'
  BY <1>4 DEF HireRemove, IInv, SignatureWasAsked, EventsOK, SignedOnlyIfBothAsked, BothAsked
<1> QED
  BY <1>5, <1>6, <1>7, <1>8, Others DEF IInv

LEMMA HireActivateStep ==
    ASSUME IInv, NEW h \in Handlers, HireActivate(h)
    PROVE  IInv'
<1>1. /\ req' \in [Handlers -> Request]
      /\ req'[h] = NoRequest
      /\ \A g \in Handlers \ {h} : req'[g] = req[g]
  BY RequestSteps DEF HireActivate, IInv
<1>2. employee' \in [Employees -> {"ONBOARDING", "ACTIVE"}]
  BY DEF HireActivate, IInv, TypeOK
<1>3. TypeOK' /\ Grows
  BY <1>1, <1>2 DEF HireActivate, IInv, TypeOK, Grows
<1> QED
  BY <1>1, <1>3, Finished, Quiet, Others DEF HireActivate, IInv

\* A failure, of whatever kind, forgets requests and listener calls only.
LEMMA FaultStep ==
    ASSUME IInv,
           \/ \E h \in Handlers : Abort(h)
           \/ \E e \in Employees : ListenerFails(e)
           \/ Crash
    PROVE  IInv'
<1>1. ASSUME NEW h \in Handlers, Abort(h) PROVE IInv'
  <2>1. /\ req' \in [Handlers -> Request]
        /\ req'[h] = NoRequest
        /\ \A g \in Handlers \ {h} : req'[g] = req[g]
    BY <1>1, RequestSteps DEF Abort, IInv
  <2>2. faults' \in 0..MaxFaults
    BY <1>1, ContractAssumption DEF Abort, IInv, TypeOK
  <2>3. TypeOK' /\ Grows
    BY <1>1, <2>1, <2>2 DEF Abort, IInv, TypeOK, Grows
  <2> QED
    BY <1>1, <2>1, <2>3, Finished, Quiet, Others DEF Abort, IInv
<1>2. ASSUME NEW e \in Employees, ListenerFails(e) PROVE IInv'
  <2>1. faults' \in 0..MaxFaults
    BY <1>2, ContractAssumption DEF ListenerFails, IInv, TypeOK
  <2>2. /\ events' \in [Employees -> 0..MaxEvents]
        /\ \A d \in Employees : events'[d] > 0 => events[d] > 0
    BY <1>2, ContractAssumption DEF ListenerFails, IInv, TypeOK
  <2>3. TypeOK' /\ Grows
    BY <1>2, <2>1, <2>2 DEF ListenerFails, IInv, TypeOK, Grows
  <2>4. \A g \in Handlers : RequestOK(g)'
    BY <1>2 DEF ListenerFails, IInv, RequestOK
  <2> QED
    BY <1>2, <2>2, <2>3, <2>4, Quiet DEF ListenerFails, IInv
<1>3. CASE Crash
  <2>1. faults' \in 0..MaxFaults
    BY <1>3, ContractAssumption DEF Crash, IInv, TypeOK
  <2>2. /\ events' \in [Employees -> 0..MaxEvents]
        /\ \A d \in Employees : events'[d] > 0 => events[d] > 0
    BY <1>3, ContractAssumption DEF Crash, IInv, TypeOK
  <2>3. /\ req' \in [Handlers -> Request]
        /\ \A h \in Handlers : req'[h] = NoRequest
    BY <1>3, RequestType DEF Crash
  <2>4. TypeOK' /\ Grows
    BY <1>3, <2>1, <2>2, <2>3 DEF Crash, IInv, TypeOK, Grows
  <2>5. \A g \in Handlers : RequestOK(g)'
    BY <2>3, Finished
  <2> QED
    BY <1>3, <2>2, <2>4, <2>5, Quiet DEF Crash, IInv
<1> QED
  BY <1>1, <1>2, <1>3

-----------------------------------------------------------------------------
LEMMA InitInv == Init => IInv
<1> SUFFICES ASSUME Init PROVE IInv
  OBVIOUS
<1>1. TypeOK
  <2>1. contract \in [Contracts -> ContractRow]
    BY DEF Init, ContractRow, ContractStatus
  <2>2. app \in [Employees -> AppStatus]
    BY DEF Init, AppStatus
  <2>3. events \in [Employees -> 0..MaxEvents] /\ faults \in 0..MaxFaults
    BY ContractAssumption DEF Init
  <2>4. req \in [Handlers -> Request]
    BY RequestType DEF Init
  <2> QED
    BY <2>1, <2>2, <2>3, <2>4 DEF Init, TypeOK
<1>2. SignatureWasAsked /\ EventsOK /\ SignedOnlyIfBothAsked
  BY DEF Init, SignatureWasAsked, EventsOK, SignedOnlyIfBothAsked
<1>3. \A h \in Handlers : RequestOK(h)
  BY DEF Init, RequestOK, NoRequest, Editing, Hiring
<1> QED
  BY <1>1, <1>2, <1>3 DEF IInv

LEMMA InvStep == IInv /\ [Next]_vars => IInv'
<1> SUFFICES ASSUME IInv, [Next]_vars PROVE IInv'
  OBVIOUS
<1>1. CASE Next
  <2>1. ASSUME NEW h \in Handlers, Continue(h) PROVE IInv'
    BY <2>1, GenerateInsertStep, SignMarkStep, SaveReloadStep, SaveWriteStep,
       HireReloadStep, HireWriteStep, HireFindStep, HireRemoveStep, HireActivateStep
       DEF Continue
  <2> QED
    BY <1>1, <2>1, GenerateFindStep, HireLoadStep, SignLoadStep, CancelLoadStep,
       ContractFullyExecutedStep, FaultStep DEF Next
<1>2. CASE UNCHANGED vars
  BY <1>2 DEF vars, IInv, TypeOK, SignatureWasAsked, EventsOK, BothAsked,
              SignedOnlyIfBothAsked, RequestOK
<1> QED
  BY <1>1, <1>2

\* Whatever a request holds in memory, a row stores or an event carries was
\* asked for by the parties: the invariant behind the two theorems below.
THEOREM Invariance == Spec => []IInv
  BY InitInv, InvStep, PTL DEF Spec

\* An application is CONTRACT_SIGNED only if both parties have asked to sign
\* the same contract of the placement (signContract and its listener).
THEOREM SignedWasAsked == Spec => []SignedOnlyIfBothAsked
<1>1. IInv => SignedOnlyIfBothAsked
  BY DEF IInv
<1> QED
  BY <1>1, Invariance, PTL

\* A contract carries no signature its party did not ask for, whatever stale
\* rows are saved or inserted again.
THEOREM StoredWasAsked == Spec => []SignatureWasAsked
<1>1. IInv => SignatureWasAsked
  BY DEF IInv
<1> QED
  BY <1>1, Invariance, PTL

\* The rows, requests, events and history keep their types.
THEOREM TypeCorrect == Spec => []TypeOK
<1>1. IInv => TypeOK
  BY DEF IInv
<1> QED
  BY <1>1, Invariance, PTL

-----------------------------------------------------------------------------
\* An employee whose application is HIRED becomes ACTIVE.

\* A step that keeps applications, employees and whoever is on the way.
LEMMA StillActivating ==
    ASSUME HiringIInv, faults' = 0 => faults = 0,
           \A e \in Employees : employee[e] = "ACTIVE" => employee'[e] = "ACTIVE",
           \A e \in Schedulable : app'[e] = "HIRED" =>
             \/ app[e] = "HIRED"
             \/ \E h \in Handlers : Activating(e, req'[h]),
           \A e \in Schedulable, h \in Handlers :
             faults' = 0 /\ Activating(e, req[h]) =>
               Activating(e, req'[h]) \/ employee'[e] = "ACTIVE"
    PROVE  HiringIInv'
<1> SUFFICES ASSUME faults' = 0, NEW e \in Schedulable, app'[e] = "HIRED"
             PROVE  employee'[e] = "ACTIVE" \/ \E h \in Handlers : Activating(e, req'[h])
  BY DEF HiringIInv, Activating
<1>1. e \in Employees
  BY ContractAssumption
<1>2. CASE app[e] = "HIRED"
  BY <1>1, <1>2 DEF HiringIInv
<1>3. CASE \E h \in Handlers : Activating(e, req'[h])
  BY <1>3
<1> QED
  BY <1>2, <1>3

\* A step of h that takes nobody off the way.
LEMMA MovesOn ==
    ASSUME HiringIInv, NEW h \in Handlers, UNCHANGED <<app, employee, faults>>,
           \A g \in Handlers \ {h} : req'[g] = req[g],
           \A e \in Schedulable : Activating(e, req[h]) => Activating(e, req'[h])
    PROVE  HiringIInv'
<1>1. \A e \in Schedulable, g \in Handlers :
        Activating(e, req[g]) => Activating(e, req'[g])
  OBVIOUS
<1> QED
  BY <1>1, StillActivating

LEMMA HiringStep == IInv /\ HiringIInv /\ [Next]_vars => HiringIInv'
<1> SUFFICES ASSUME IInv, HiringIInv, [Next]_vars PROVE HiringIInv'
  OBVIOUS
<1>0. req \in [Handlers -> Request] /\ \A h \in Handlers : req[h] \in Request
  BY DEF IInv, TypeOK
<1>1. CASE UNCHANGED vars
  BY <1>1, StillActivating DEF vars
<1>2. ASSUME NEW h \in Handlers, UNCHANGED <<app, employee, faults>>,
             \A g \in Handlers \ {h} : req'[g] = req[g],
             req[h].pc \notin {"find", "remove", "activate"}
      PROVE  HiringIInv'
  BY <1>2, MovesOn DEF Activating
<1>3. ASSUME NEW h \in Handlers, NEW r, Start(h, r), UNCHANGED <<app, employee, faults>>
      PROVE  HiringIInv'
  <2>1. /\ req[h].pc = "idle"
        /\ \A g \in Handlers \ {h} : req'[g] = req[g]
    BY <1>0, <1>3 DEF Start, At
  <2> QED
    BY <1>2, <1>3, <2>1
<1>4. CASE \E h \in Handlers, e \in Employees : GenerateFind(h, e) \/ HireLoad(h, e)
  BY <1>3, <1>4 DEF GenerateFind, HireLoad
<1>5. CASE \E h \in Handlers, c \in Contracts, party \in Party : SignLoad(h, c, party)
  BY <1>3, <1>5 DEF SignLoad
<1>6. CASE \E h \in Handlers, c \in Contracts, op \in {"void", "cancel"} : CancelLoad(h, c, op)
  BY <1>3, <1>6 DEF CancelLoad
<1>7. ASSUME NEW h \in Handlers,
             GenerateInsert(h) \/ SignMark(h) \/ SaveReload(h) \/ SaveWrite(h) \/ HireReload(h)
      PROVE  HiringIInv'
  <2>1. \A g \in Handlers \ {h} : req'[g] = req[g]
    BY <1>0, <1>7 DEF GenerateInsert, SignMark, SaveReload, SaveWrite, HireReload, Goto, Return
  <2>2. req[h].pc \in {"insert", "mark", "reload", "write", "hireReload"}
    BY <1>7 DEF GenerateInsert, SignMark, SaveReload, SaveWrite, HireReload, At
  <2>3. UNCHANGED <<app, employee, faults>>
    BY <1>7 DEF GenerateInsert, SignMark, SaveReload, SaveWrite, HireReload
  <2> QED
    BY <1>2, <2>1, <2>2, <2>3
<1>8. ASSUME NEW h \in Handlers, HireWrite(h) PROVE HiringIInv'
  <2>1. /\ req[h].pc = "hireWrite" /\ UNCHANGED <<employee, faults>>
        /\ app' = [app EXCEPT ![req[h].employee] = SaveColumn(@, req[h].appSnap, "HIRED")]
        /\ req' = [req EXCEPT ![h].pc = "find"]
    BY <1>8 DEF HireWrite, At, Goto
  <2>2. req'[h].pc = "find" /\ req'[h].employee = req[h].employee
    BY <1>0, <2>1 DEF Request
  <2>3. \A g \in Handlers \ {h} : req'[g] = req[g]
    BY <1>0, <2>1
  <2>4. \A e \in Schedulable : app'[e] # app[e] => e = req[h].employee
    BY <2>1, ContractAssumption DEF IInv, TypeOK
  <2>5. Activating(req[h].employee, req'[h])
    BY <2>2 DEF Activating
  <2>6. \A e \in Schedulable, g \in Handlers :
          Activating(e, req[g]) => Activating(e, req'[g])
    BY <2>1, <2>3 DEF Activating
  <2> QED
    BY <2>1, <2>4, <2>5, <2>6, StillActivating
<1>9. ASSUME NEW h \in Handlers, HireFind(h) \/ HireRemove(h) PROVE HiringIInv'
  <2>1. /\ req'[h].pc \in {"remove", "activate"} /\ req'[h].employee = req[h].employee
        /\ \A g \in Handlers \ {h} : req'[g] = req[g]
    <3>1. \/ req' = [req EXCEPT ![h].pc = "activate"]
          \/ \E c \in Contracts : req' = [req EXCEPT ![h].pc = "remove", ![h].contract = c]
      BY <1>9 DEF HireFind, HireRemove, Goto, UncompletedOf, ContractsOf
    <3> QED
      BY <1>0, <3>1 DEF Request
  <2>2. UNCHANGED <<app, employee, faults>>
    BY <1>9 DEF HireFind, HireRemove
  <2> QED
    BY <2>1, <2>2, MovesOn DEF Activating
<1>10. ASSUME NEW h \in Handlers, HireActivate(h) PROVE HiringIInv'
  <2>1. /\ req[h].pc = "activate" /\ UNCHANGED <<app, faults>>
        /\ employee' = [employee EXCEPT ![req[h].employee] =
                          IF req[h].employee \in Schedulable THEN "ACTIVE" ELSE @]
        /\ \A g \in Handlers \ {h} : req'[g] = req[g]
    BY <1>0, <1>10 DEF HireActivate, At, Return
  <2>2. employee \in [Employees -> {"ONBOARDING", "ACTIVE"}]
    BY DEF IInv, TypeOK
  <2>3. \A e \in Schedulable : Activating(e, req[h]) => employee'[e] = "ACTIVE"
    BY <2>1, <2>2, ContractAssumption DEF Activating
  <2>4. \A e \in Employees : employee[e] = "ACTIVE" => employee'[e] = "ACTIVE"
    BY <2>1, <2>2
  <2> QED
    BY <2>1, <2>3, <2>4, StillActivating
<1>11. CASE \E e \in Employees : ContractFullyExecuted(e)
  <2>1. PICK d \in Employees : ContractFullyExecuted(d)
    BY <1>11
  <2>2. UNCHANGED <<employee, req, faults>> /\ app' = [app EXCEPT ![d] = "CONTRACT_SIGNED"]
    BY <2>1 DEF ContractFullyExecuted
  <2>3. \A e \in Schedulable : app'[e] = "HIRED" => app[e] = "HIRED"
    BY <2>2, ContractAssumption DEF IInv, TypeOK
  <2> QED
    BY <2>2, <2>3, StillActivating
<1>12. CASE \/ \E h \in Handlers : Abort(h)
            \/ \E e \in Employees : ListenerFails(e)
            \/ Crash
  <2>1. faults' = faults + 1 /\ faults \in Nat
    BY <1>12, ContractAssumption DEF Abort, ListenerFails, Crash, IInv, TypeOK
  <2>2. faults' # 0
    BY <2>1
  <2> QED
    BY <2>2 DEF HiringIInv
<1> QED
  BY <1>1, <1>4, <1>5, <1>6, <1>7, <1>8, <1>9, <1>10, <1>11, <1>12 DEF Next, Continue

\* Until something fails, whenever no request is in progress the employee of a HIRED
\* application is ACTIVE if a probation schedule can be made from its dates, although
\* confirmHire saves HIRED long before and other requests run in between.
THEOREM HiredIsActiveHolds == Spec => []HiredIsActive
<1>1. Init => HiringIInv
  BY ContractAssumption DEF Init, HiringIInv
<1>2. HiringIInv => HiredIsActive
  BY DEF HiringIInv, HiredIsActive, Activating, Idle, At
<1> QED
  BY <1>1, <1>2, HiringStep, Invariance, PTL DEF Spec

-----------------------------------------------------------------------------
\* While no two requests work on one contract, statuses follow signatures and a
\* fully executed contract is final.

\* The row after a save by whoever had it to itself is the one in memory.
LEMMA SoleSave ==
    ASSUME NEW row \in ContractRow, NEW mem \in ContractRow, row.status # "REMOVED"
    PROVE  SaveContract(row, row, mem) = mem
<1> DEFINE S == {p \in Party : SaveColumn(p \in row.signed, p \in row.signed,
                                          p \in mem.signed)}
<1>1. SaveContract(row, row, mem) =
        [status |-> SaveColumn(row.status, row.status, mem.status), signed |-> S]
  BY DEF SaveContract
<1>2. SaveColumn(row.status, row.status, mem.status) = mem.status
  BY DEF SaveColumn
<1>3. \A p \in Party : SaveColumn(p \in row.signed, p \in row.signed, p \in mem.signed)
                         <=> p \in mem.signed
  BY DEF SaveColumn
<1>4. S = mem.signed
  BY <1>3 DEF ContractRow
<1> QED
  BY <1>1, <1>2, <1>4 DEF ContractRow

LEMMA SignedAgrees ==
    ASSUME NEW row \in ContractRow, NEW party \in Party
    PROVE  /\ Agrees(Signed(row, party))
           /\ Signed(row, party).status \notin {"NONE", "REMOVED"}
<1> DEFINE S == row.signed \union {party}
           s == SignedStatus(S, party)
<1>1. S \subseteq {"employer", "employee"} /\ party \in S
  BY DEF ContractRow, Party
<1>2. Signed(row, party).status = s /\ Signed(row, party).signed = S
  BY DEF Signed
<1>3. CASE S = Party
  <2>1. s = "FULLY_EXECUTED"
    BY <1>3 DEF SignedStatus
  <2>2. "employer" \in S /\ "employee" \in S /\ "employer" # "employee"
    BY <1>3 DEF Party
  <2>3. S # {} /\ S # {"employer"} /\ S # {"employee"}
    BY <2>2
  <2> QED
    BY <1>2, <2>1, <2>3 DEF Agrees
<1>4. CASE S # Party /\ party = "employer"
  <2>1. s = "EMPLOYER_SIGNED" /\ S = {"employer"}
    BY <1>1, <1>4 DEF SignedStatus, Party
  <2>2. S # {}
    BY <2>1
  <2> QED
    BY <1>2, <2>1, <2>2 DEF Agrees
<1>5. CASE S # Party /\ party = "employee"
  <2>1. s = "EMPLOYEE_SIGNED" /\ S = {"employee"}
    BY <1>1, <1>5 DEF SignedStatus, Party
  <2>2. S # {} /\ S # {"employer"}
    BY <2>1
  <2> QED
    BY <1>2, <2>1, <2>2 DEF Agrees
<1> QED
  BY <1>3, <1>4, <1>5 DEF Party

\* A request that has a row to itself makes a row of it whose status says which
\* signatures it carries.
LEMMA ChangesAgree ==
    ASSUME NEW r, NEW row \in ContractRow, Agrees(row), Changes(r, row),
           row.status \notin {"NONE", "REMOVED"}
    PROVE  /\ Agrees(r.mem) /\ r.mem.status \notin {"NONE", "REMOVED"}
           /\ r.op # "void" => row.status # "FULLY_EXECUTED"
<1>1. CASE r.op = "sign" /\ \E party \in Party \ row.signed : r.mem = Signed(row, party)
  <2>1. PICK party \in Party \ row.signed : r.mem = Signed(row, party)
    BY <1>1
  <2>2. row.signed \in {{}, {"employer"}, {"employee"}}
    BY <2>1 DEF Party, ContractRow
  <2> QED
    BY <2>1, <2>2, SignedAgrees DEF Agrees
<1>2. CASE /\ r.op \in {"void", "cancel"} /\ row.status # "CANCELLED"
           /\ r.op = "cancel" => row.status # "FULLY_EXECUTED"
           /\ r.mem = [row EXCEPT !.status = "CANCELLED"]
  <2>1. r.mem.status = "CANCELLED"
    BY <1>2 DEF ContractRow
  <2> QED
    BY <1>2, <2>1 DEF Agrees, Uncompleted
<1> QED
  BY <1>1, <1>2 DEF Changes

\* A step of h that writes no contract of another request.
LEMMA ApartStep ==
    ASSUME ApartIInv, NEW h \in Handlers, ApartOK(req[h])',
           \A g \in Handlers \ {h} : req'[g] = req[g],
           \A c \in Contracts : /\ Agrees(contract'[c])
                                /\ contract'[c].status = "NONE" => contract'[c].signed = {},
           \A g \in Handlers \ {h} : req[g].pc \in Editing \union {"remove"} =>
             contract'[req[g].contract] = contract[req[g].contract]
    PROVE  ApartIInv'
<1>1. ASSUME NEW g \in Handlers \ {h} PROVE ApartOK(req[g])'
  <2>1. ApartOK(req[g]) /\ req'[g] = req[g]
    BY DEF ApartIInv
  <2>2. req[g].pc \in Editing \union {"remove"} =>
          contract'[req[g].contract] = contract[req[g].contract]
    OBVIOUS
  <2> QED
    BY <2>1, <2>2 DEF ApartOK, Editing, Exists
<1> QED
  BY <1>1 DEF ApartIInv

LEMMA ApartKeeps ==
    ASSUME ApartIInv, NEW h \in Handlers, ApartOK(req'[h]), UNCHANGED contract,
           \A g \in Handlers \ {h} : req'[g] = req[g]
    PROVE  ApartIInv'
<1>1. ApartOK(req[h])'
  BY DEF ApartOK, Exists
<1> QED
  BY <1>1, ApartStep DEF ApartIInv

\* The contract of another request is another contract.
LEMMA ApartOthers ==
    ASSUME IInv, Apart, NEW h \in Handlers, req[h].contract \in Contracts,
           NEW g \in Handlers \ {h}, req[g].pc \in Editing \union {"remove"}
    PROVE  req[g].contract \in Contracts /\ req[g].contract # req[h].contract
<1>1. req[g].contract \in Contracts
  BY DEF IInv, RequestOK, Editing
<1> QED
  BY <1>1, ContractAssumption DEF Apart

\* What a request that had the row to itself has in memory is what is stored.
LEMMA SoleSaveWrite ==
    ASSUME IInv, ApartIInv, NEW h \in Handlers, SaveWrite(h)
    PROVE  /\ req[h].contract \in Contracts /\ Exists(req[h].contract)
           /\ Changes(req[h], contract[req[h].contract])
           /\ contract' = [contract EXCEPT ![req[h].contract] = req[h].mem]
<1>1. req[h].pc = "write" /\ ApartOK(req[h]) /\ RequestOK(h)
  BY DEF SaveWrite, At, ApartIInv, IInv
<1>2. /\ req[h].contract \in Contracts /\ req[h].mem \in ContractRow
      /\ Exists(req[h].contract) /\ Changes(req[h], contract[req[h].contract])
      /\ req[h].snap = contract[req[h].contract]
  BY <1>1 DEF ApartOK, RequestOK, Editing
<1>3. contract[req[h].contract] \in ContractRow
  BY <1>2 DEF IInv, TypeOK
<1>4. SaveContract(contract[req[h].contract], req[h].snap, req[h].mem) = req[h].mem
  BY <1>2, <1>3, SoleSave DEF Exists
<1> QED
  BY <1>2, <1>4 DEF SaveWrite

LEMMA ApartKept == IInv /\ Apart /\ ApartIInv /\ [Next]_vars => ApartIInv'
<1> SUFFICES ASSUME IInv, Apart, ApartIInv, [Next]_vars PROVE ApartIInv'
  OBVIOUS
<1>0. /\ req \in [Handlers -> Request] /\ \A h \in Handlers : req[h] \in Request
      /\ contract \in [Contracts -> ContractRow]
      /\ \A c \in Contracts : contract[c] \in ContractRow
  BY DEF IInv, TypeOK
<1>1. CASE UNCHANGED <<contract, req>>
  BY <1>1 DEF ApartIInv, ApartOK, Exists
<1>2. ASSUME NEW h \in Handlers, NEW pc \in PC \ {"reload", "write", "mark", "remove"},
             req'[h].pc = pc, req'[h].op # "void", UNCHANGED contract,
             \A g \in Handlers \ {h} : req'[g] = req[g]
      PROVE  ApartIInv'
  BY <1>2, ApartKeeps DEF ApartOK, Editing
<1>3. CASE \E h \in Handlers, e \in Employees : GenerateFind(h, e) \/ HireLoad(h, e)
  <2>1. PICK h \in Handlers, e \in Employees : GenerateFind(h, e) \/ HireLoad(h, e)
    BY <1>3
  <2>2. /\ req'[h].pc \in {"insert", "hireReload"} /\ req'[h].op \in {"generate", "hire"}
        /\ \A g \in Handlers \ {h} : req'[g] = req[g]
    BY <1>0, <2>1 DEF GenerateFind, HireLoad, Start, NoRequest
  <2> QED
    BY <1>2, <2>1, <2>2 DEF GenerateFind, HireLoad, PC
<1>4. ASSUME NEW h \in Handlers, NEW c \in Contracts, NEW party \in Party,
             SignLoad(h, c, party)
      PROVE  ApartIInv'
  <2> DEFINE row == Signed(contract[c], party)
  <2>1. /\ req'[h].pc = "mark" /\ req'[h].op = "sign" /\ req'[h].contract = c
        /\ req'[h].mem = row /\ \A g \in Handlers \ {h} : req'[g] = req[g]
    BY <1>0, <1>4 DEF SignLoad, Start, NoRequest
  <2>2. Exists(c) /\ party \in Party \ contract[c].signed /\ UNCHANGED contract
    BY <1>4 DEF SignLoad
  <2>3. Changes(req'[h], contract[c])
    BY <2>1, <2>2 DEF Changes
  <2>4. ApartOK(req'[h])
    BY <2>1, <2>2, <2>3 DEF ApartOK, Editing
  <2> QED
    BY <2>1, <2>2, <2>4, ApartKeeps
<1>5. ASSUME NEW h \in Handlers, NEW c \in Contracts, NEW op \in {"void", "cancel"},
             CancelLoad(h, c, op)
      PROVE  ApartIInv'
  <2> DEFINE row == [contract[c] EXCEPT !.status = "CANCELLED"]
  <2>1. /\ req'[h].pc = "reload" /\ req'[h].op = op /\ req'[h].contract = c
        /\ req'[h].mem = row /\ \A g \in Handlers \ {h} : req'[g] = req[g]
    BY <1>0, <1>5 DEF CancelLoad, Start, NoRequest
  <2>2. /\ Exists(c) /\ UNCHANGED contract /\ contract[c].status # "CANCELLED"
        /\ op = "cancel" => contract[c].status # "FULLY_EXECUTED"
    BY <1>5 DEF CancelLoad
  <2>3. Changes(req'[h], contract[c])
    BY <2>1, <2>2 DEF Changes
  <2>4. ApartOK(req'[h])
    BY <2>1, <2>2, <2>3 DEF ApartOK, Editing
  <2> QED
    BY <2>1, <2>2, <2>4, ApartKeeps
<1>6. ASSUME NEW h \in Handlers, GenerateInsert(h) PROVE ApartIInv'
  <2>1. PICK c \in Contracts : /\ contract[c].status = "NONE"
                               /\ contract' = [contract EXCEPT ![c].status = "PENDING_SIGNATURES"]
    BY <1>6 DEF GenerateInsert, Unused
  <2>2. contract'[c] = [status |-> "PENDING_SIGNATURES", signed |-> {}]
    BY <1>0, <2>1 DEF ApartIInv, ContractRow
  <2>3. \A d \in Contracts \ {c} : contract'[d] = contract[d]
    BY <1>0, <2>1
  <2>4. Agrees(contract'[c])
    BY <2>2 DEF Agrees
  <2>5. req'[h] = NoRequest /\ \A g \in Handlers \ {h} : req'[g] = req[g]
    BY <1>0, <1>6 DEF GenerateInsert, Return
  <2>6. ApartOK(req[h])'
    BY <2>5 DEF ApartOK, NoRequest, Editing
  <2>7. \A g \in Handlers : req[g].pc \in Editing \union {"remove"} =>
          req[g].contract \in Contracts \ {c}
    BY <2>1 DEF ApartIInv, ApartOK, Exists, IInv, RequestOK, Editing, Uncompleted
  <2> QED
    BY <2>2, <2>3, <2>4, <2>5, <2>6, <2>7, ApartStep DEF ApartIInv
<1>7. ASSUME NEW h \in Handlers, SignMark(h) PROVE ApartIInv'
  <2>1. /\ req[h].pc = "mark" /\ req' = [req EXCEPT ![h].pc = "reload"] /\ UNCHANGED contract
    BY <1>7 DEF SignMark, At, Goto
  <2>2. /\ req'[h].pc = "reload" /\ req'[h].op = req[h].op /\ req'[h].mem = req[h].mem
        /\ req'[h].contract = req[h].contract
        /\ \A g \in Handlers \ {h} : req'[g] = req[g]
    BY <1>0, <2>1 DEF Request
  <2>3. ApartOK(req[h])
    BY DEF ApartIInv
  <2>4. ApartOK(req'[h])
    BY <2>1, <2>2, <2>3 DEF ApartOK, Editing, Changes
  <2> QED
    BY <2>1, <2>2, <2>4, ApartKeeps
<1>8. ASSUME NEW h \in Handlers, SaveReload(h) PROVE ApartIInv'
  <2>1. /\ req[h].pc = "reload" /\ UNCHANGED contract
        /\ req' = [req EXCEPT ![h].pc = "write", ![h].snap = contract[req[h].contract]]
    BY <1>8 DEF SaveReload, At
  <2>2. /\ req'[h].pc = "write" /\ req'[h].op = req[h].op /\ req'[h].mem = req[h].mem
        /\ req'[h].contract = req[h].contract /\ req'[h].snap = contract[req[h].contract]
        /\ \A g \in Handlers \ {h} : req'[g] = req[g]
    BY <1>0, <2>1 DEF Request
  <2>3. ApartOK(req[h])
    BY DEF ApartIInv
  <2>4. ApartOK(req'[h])
    BY <2>1, <2>2, <2>3 DEF ApartOK, Editing, Changes
  <2> QED
    BY <2>1, <2>2, <2>4, ApartKeeps
<1>9. ASSUME NEW h \in Handlers, SaveWrite(h) PROVE ApartIInv'
  <2> DEFINE c == req[h].contract
  <2>1. /\ c \in Contracts /\ Exists(c) /\ Changes(req[h], contract[c])
        /\ contract' = [contract EXCEPT ![c] = req[h].mem]
    BY <1>9, SoleSaveWrite
  <2>2. Agrees(req[h].mem) /\ req[h].mem.status # "NONE"
    BY <1>0, <2>1, ChangesAgree DEF Exists, ApartIInv
  <2>3. req'[h] = NoRequest /\ \A g \in Handlers \ {h} : req'[g] = req[g]
    BY <1>0, <1>9 DEF SaveWrite, Return
  <2>4. ApartOK(req[h])'
    BY <2>3 DEF ApartOK, NoRequest, Editing
  <2>5. \A g \in Handlers \ {h} : req[g].pc \in Editing \union {"remove"} =>
          contract'[req[g].contract] = contract[req[g].contract]
    BY <1>0, <2>1, ApartOthers
  <2>6. \A d \in Contracts : /\ Agrees(contract'[d])
                             /\ contract'[d].status = "NONE" => contract'[d].signed = {}
    BY <1>0, <2>1, <2>2 DEF ApartIInv
  <2> QED
    BY <2>3, <2>4, <2>5, <2>6, ApartStep
<1>10. ASSUME NEW h \in Handlers, HireReload(h) \/ HireWrite(h) PROVE ApartIInv'
  <2>1. /\ UNCHANGED contract
        /\ \/ req' = [req EXCEPT ![h].pc = "find"]
           \/ req' = [req EXCEPT ![h].pc = "hireWrite", ![h].appSnap = app[req[h].employee]]
    BY <1>10 DEF HireReload, HireWrite, Goto
  <2>2. /\ req'[h].pc \in {"find", "hireWrite"} /\ req'[h].op = req[h].op
        /\ \A g \in Handlers \ {h} : req'[g] = req[g]
    BY <1>0, <2>1 DEF Request
  <2>3. req[h].op # "void"
    BY <1>10 DEF HireReload, HireWrite, At, ApartIInv, ApartOK, Editing
  <2> QED
    BY <1>2, <2>1, <2>2, <2>3 DEF PC
<1>11. ASSUME NEW h \in Handlers, HireFind(h) PROVE ApartIInv'
  <2>0. req[h].op # "void"
    BY <1>11 DEF HireFind, At, ApartIInv, ApartOK, Editing
  <2>1. CASE Goto(h, "activate")
    <3>1. /\ req'[h].pc = "activate" /\ req'[h].op = req[h].op
          /\ \A g \in Handlers \ {h} : req'[g] = req[g]
      BY <1>0, <2>1 DEF Goto, Request
    <3> QED
      BY <1>2, <1>11, <2>0, <3>1 DEF PC, HireFind
  <2>2. ASSUME NEW c \in UncompletedOf(req[h].employee),
               req' = [req EXCEPT ![h].pc = "remove", ![h].contract = c]
        PROVE  ApartIInv'
    <3>1. req'[h].pc = "remove" /\ req'[h].contract = c /\ req'[h].op = req[h].op
          /\ \A g \in Handlers \ {h} : req'[g] = req[g]
      BY <1>0, <2>2 DEF Request
    <3>2. contract[c].status \in Uncompleted
      BY DEF UncompletedOf
    <3>3. ApartOK(req'[h])
      BY <2>0, <3>1, <3>2 DEF ApartOK, Editing
    <3> QED
      BY <1>11, <3>1, <3>3, ApartKeeps DEF HireFind
  <2> QED
    BY <1>11, <2>1, <2>2 DEF HireFind
<1>12. ASSUME NEW h \in Handlers, HireRemove(h) PROVE ApartIInv'
  <2> DEFINE c == req[h].contract
  <2>1. /\ req[h].pc = "remove" /\ c \in Contracts
        /\ contract' = [contract EXCEPT ![c].status = "REMOVED"]
        /\ req' = [req EXCEPT ![h].pc = "activate"]
    BY <1>12 DEF HireRemove, At, Goto, IInv, RequestOK
  <2>2. contract'[c].status = "REMOVED" /\ \A d \in Contracts \ {c} : contract'[d] = contract[d]
    BY <1>0, <2>1 DEF ContractRow
  <2>3. /\ req'[h].pc = "activate" /\ req'[h].op = req[h].op
        /\ \A g \in Handlers \ {h} : req'[g] = req[g]
    BY <1>0, <2>1 DEF Request
  <2>4. ApartOK(req[h])'
    BY <2>1, <2>3 DEF ApartOK, Editing, ApartIInv
  <2>5. \A g \in Handlers \ {h} : req[g].pc \in Editing \union {"remove"} =>
          contract'[req[g].contract] = contract[req[g].contract]
    BY <2>1, <2>2, ApartOthers
  <2>6. \A d \in Contracts : /\ Agrees(contract'[d])
                             /\ contract'[d].status = "NONE" => contract'[d].signed = {}
    BY <2>2 DEF ApartIInv, Agrees, Uncompleted
  <2> QED
    BY <2>3, <2>4, <2>5, <2>6, ApartStep
<1>13. ASSUME NEW h \in Handlers, Return(h), UNCHANGED contract PROVE ApartIInv'
  <2>1. /\ req'[h].pc = "idle" /\ req'[h].op = "none"
        /\ \A g \in Handlers \ {h} : req'[g] = req[g]
    BY <1>0, <1>13 DEF Return, NoRequest
  <2> QED
    BY <1>2, <1>13, <2>1 DEF PC
<1>14. CASE Crash
  <2>1. UNCHANGED contract /\ \A h \in Handlers : req'[h] = NoRequest
    BY <1>14 DEF Crash
  <2>2. \A h \in Handlers : ApartOK(req[h])'
    BY <2>1 DEF ApartOK, NoRequest, Editing
  <2> QED
    BY <2>1, <2>2 DEF ApartIInv
<1>15. ASSUME NEW h \in Handlers, HireActivate(h) \/ Abort(h) PROVE ApartIInv'
  BY <1>13, <1>15 DEF HireActivate, Abort
<1>16. ASSUME NEW e \in Employees, ContractFullyExecuted(e) \/ ListenerFails(e)
       PROVE  ApartIInv'
  BY <1>1, <1>16 DEF ContractFullyExecuted, ListenerFails
<1> QED
  BY <1>1, <1>3, <1>4, <1>5, <1>6, <1>7, <1>8, <1>9, <1>10, <1>11, <1>12, <1>14, <1>15,
     <1>16 DEF Next, Continue, vars

LEMMA ApartInitially == Init => ApartIInv
  BY DEF Init, ApartIInv, ApartOK, NoRequest, Agrees, Uncompleted, Editing

\* While no two requests work on one contract, the status of a contract that is not
\* cancelled says which signatures it carries: the two branches of signContract and
\* its check for both, with cancellations, deletions and failures in between.
THEOREM StatusFollowsSignaturesHolds == Spec /\ []Apart => []StatusFollowsSignatures
<1>1. ApartIInv => StatusFollowsSignatures
  BY DEF ApartIInv, StatusFollowsSignatures, Agrees
<1> QED
  BY <1>1, ApartInitially, ApartKept, Invariance, PTL DEF Spec

\* ... and a fully executed contract is changed by nobody but the administrator who
\* voids it, although signContract and confirmHire never look at what it has become.
THEOREM ExecutedIsFinalHolds == Spec /\ []Apart => ExecutedIsFinal
<1> DEFINE Final == \A c \in Contracts :
             contract[c].status = "FULLY_EXECUTED" /\ contract'[c] # contract[c] =>
               \E h \in Handlers : req[h].op = "void" /\ req[h].contract = c
<1>1. ASSUME IInv, ApartIInv, [Next]_vars, NEW c \in Contracts,
             contract[c].status = "FULLY_EXECUTED", contract'[c] # contract[c]
      PROVE  \E h \in Handlers : req[h].op = "void" /\ req[h].contract = c
  <2>0. contract \in [Contracts -> ContractRow]
    BY <1>1 DEF IInv, TypeOK
  <2>1. CASE \E h \in Handlers : GenerateInsert(h)
    BY <1>1, <2>0, <2>1 DEF GenerateInsert, Unused
  <2>2. CASE \E h \in Handlers : SaveWrite(h)
    <3>1. PICK h \in Handlers : SaveWrite(h)
      BY <2>2
    <3>2. req[h].contract = c /\ req[h].pc = "write"
      BY <1>1, <2>0, <3>1 DEF SaveWrite, At
    <3>3. req[h].op = "void"
      BY <1>1, <2>0, <3>2, ChangesAgree DEF ApartIInv, ApartOK, Editing
    <3> QED
      BY <3>2, <3>3
  <2>3. CASE \E h \in Handlers : HireRemove(h)
    BY <1>1, <2>0, <2>3 DEF HireRemove, At, ApartIInv, ApartOK, Uncompleted
  <2>4. \/ UNCHANGED contract
        \/ \E h \in Handlers : GenerateInsert(h) \/ SaveWrite(h) \/ HireRemove(h)
    BY <1>1 DEF Next, Continue, vars, GenerateFind, HireLoad, SignLoad, CancelLoad, SignMark,
       SaveReload, HireReload, HireWrite, HireFind, HireActivate, Abort,
       ContractFullyExecuted, ListenerFails, Crash
  <2> QED
    BY <1>1, <2>1, <2>2, <2>3, <2>4
<1>2. IInv /\ ApartIInv /\ [Next]_vars => [Final]_vars
  BY <1>1
<1> QED
  BY <1>2, ApartInitially, ApartKept, Invariance, PTL DEF Spec, ExecutedIsFinal

-----------------------------------------------------------------------------
\* Refinement of ContractLedger.

\* In the ledger a contract in force carries both signatures only if its row says
\* FULLY_EXECUTED.
LEMMA ExecutedSaysSo ==
    ASSUME NEW row \in ContractRow, Agrees(row), row.signed = Party,
           Phase(row.status) = "inForce"
    PROVE  row.status = "FULLY_EXECUTED"
<1>1. row.status \in Uncompleted \union {"FULLY_EXECUTED"}
  BY DEF Phase, ContractRow, ContractStatus, Uncompleted
<1>2. row.signed # {} /\ row.signed # {"employer"} /\ row.signed # {"employee"}
  BY DEF Party
<1> QED
  BY <1>1, <1>2 DEF Agrees

\* A step that writes one row changes the ledger's view of that contract only.
LEMMA OneRow ==
    ASSUME contract \in [Contracts -> ContractRow], NEW c \in Contracts,
           NEW row \in ContractRow, contract' = [contract EXCEPT ![c] = row]
    PROVE  /\ Phases' = [Phases EXCEPT ![c] = Phase(row.status)]
           /\ Signatures' = [Signatures EXCEPT ![c] = row.signed]
           /\ Phases[c] = Phase(contract[c].status)
           /\ Signatures[c] = contract[c].signed
  BY DEF Phases, Signatures

\* The administrators' requests after a step of h.
LEMMA VoidingSteps ==
    ASSUME NEW h \in Handlers, \A g \in Handlers \ {h} : req'[g] = req[g]
    PROVE  /\ /\ req'[h].op = "void" <=> req[h].op = "void"
              /\ req[h].op = "void" => req'[h].contract = req[h].contract
              => Voiding' = Voiding
           /\ req'[h].op # "void" => Voiding' \subseteq Voiding
           /\ \A c \in Contracts : 
                req'[h].op = "void" /\ req'[h].contract = c /\ req[h].op # "void" =>
                  Voiding' = Voiding \union {c}
<1> QED
  BY DEF Voiding

LEMMA LedgerGenerate ==
    ASSUME IInv, ApartIInv, NEW h \in Handlers, GenerateInsert(h)
    PROVE  Ledger!Next
<1>0. /\ contract \in [Contracts -> ContractRow] /\ req \in [Handlers -> Request]
      /\ asked' = asked /\ app' = app
  BY DEF IInv, TypeOK, GenerateInsert
<1>1. PICK c \in Contracts :
          /\ contract[c].status = "NONE"
          /\ contract' = [contract EXCEPT ![c].status = "PENDING_SIGNATURES"]
  BY DEF GenerateInsert, Unused
<1> DEFINE row == [contract[c] EXCEPT !.status = "PENDING_SIGNATURES"]
<1>2. /\ row \in ContractRow /\ row.status = "PENDING_SIGNATURES"
      /\ row.signed = contract[c].signed /\ contract' = [contract EXCEPT ![c] = row]
  BY <1>0, <1>1 DEF ContractRow, ContractStatus
<1> HIDE DEF row
<1>3. /\ Phases[c] = "absent" /\ Phases' = [Phases EXCEPT ![c] = "inForce"]
      /\ Signatures' = [Signatures EXCEPT ![c] = Signatures[c]]
  <2>1. Phase(row.status) = "inForce" /\ Phase(contract[c].status) = "absent"
    BY <1>1, <1>2 DEF Phase
  <2>2. /\ Phases' = [Phases EXCEPT ![c] = Phase(row.status)]
        /\ Signatures' = [Signatures EXCEPT ![c] = row.signed]
        /\ Phases[c] = Phase(contract[c].status) /\ Signatures[c] = contract[c].signed
    BY <1>0, <1>2, OneRow
  <2> QED
    BY <1>2, <2>1, <2>2
<1>4. Signatures' = Signatures
  BY <1>3 DEF Signatures
<1>5. Voiding' = Voiding
  <2>1. /\ req'[h].op = "none" /\ req[h].op # "void"
        /\ \A g \in Handlers \ {h} : req'[g] = req[g]
    BY <1>0 DEF GenerateInsert, At, Return, NoRequest, ApartIInv, ApartOK, Editing
  <2> QED
    BY <2>1, VoidingSteps
<1>6. Ledger!Generate(c)
  BY <1>0, <1>3, <1>4, <1>5 DEF Ledger!Generate
<1> QED
  BY <1>6 DEF Ledger!Next

LEMMA LedgerAsk ==
    ASSUME IInv, ApartIInv, NEW h \in Handlers, NEW c \in Contracts, NEW party \in Party,
           SignLoad(h, c, party)
    PROVE  Ledger!Next
<1>0. /\ contract \in [Contracts -> ContractRow] /\ req \in [Handlers -> Request]
      /\ UNCHANGED <<contract, app>> /\ asked' = [asked EXCEPT ![c] = @ \union {party}]
  BY DEF IInv, TypeOK, SignLoad
<1>1. Phases' = Phases /\ Signatures' = Signatures
  BY <1>0 DEF Phases, Signatures
<1>2. Phases[c] \in {"inForce", "cancelled"} /\ party \notin Signatures[c]
  BY DEF SignLoad, Exists, Phases, Phase, Signatures
<1>3. Voiding' = Voiding
  <2>1. /\ req'[h].op = "sign" /\ req[h].op # "void"
        /\ \A g \in Handlers \ {h} : req'[g] = req[g]
    BY <1>0 DEF SignLoad, At, Start, NoRequest, ApartIInv, ApartOK, Editing
  <2> QED
    BY <2>1, VoidingSteps
<1>4. Ledger!Ask(c, party)
  BY <1>0, <1>1, <1>2, <1>3 DEF Ledger!Ask
<1> QED
  BY <1>4 DEF Ledger!Next

LEMMA LedgerCancelLoad ==
    ASSUME IInv, ApartIInv, NEW h \in Handlers, NEW c \in Contracts,
           NEW op \in {"void", "cancel"}, CancelLoad(h, c, op)
    PROVE  Ledger!Next \/ UNCHANGED Ledger!vars
<1>0. req \in [Handlers -> Request] /\ UNCHANGED <<contract, app, asked>>
  BY DEF IInv, TypeOK, CancelLoad
<1>1. Phases' = Phases /\ Signatures' = Signatures
  BY <1>0 DEF Phases, Signatures
<1>2. Phases[c] = "inForce"
  BY DEF CancelLoad, Exists, Phases, Phase
<1>3. /\ req'[h].op = op /\ req'[h].contract = c /\ req[h].op # "void"
      /\ \A g \in Handlers \ {h} : req'[g] = req[g]
  BY <1>0 DEF CancelLoad, At, Start, NoRequest, ApartIInv, ApartOK, Editing
<1>4. CASE op = "void"
  <2>1. Voiding' = Voiding \union {c}
    BY <1>3, <1>4, VoidingSteps
  <2>2. Ledger!StartVoid(c)
    BY <1>0, <1>1, <1>2, <2>1 DEF Ledger!StartVoid
  <2> QED
    BY <2>2 DEF Ledger!Next
<1>5. CASE op = "cancel"
  <2>1. Voiding' = Voiding
    BY <1>3, <1>5, VoidingSteps
  <2> QED
    BY <1>0, <1>1, <2>1 DEF Ledger!vars
<1> QED
  BY <1>4, <1>5

\* The save of a request is the moment of the signature or the cancellation.
LEMMA LedgerSave ==
    ASSUME IInv, Apart, ApartIInv, NEW h \in Handlers, SaveWrite(h)
    PROVE  Ledger!Next
<1> DEFINE c == req[h].contract
           row == contract[c]
           mem == req[h].mem
<1>0. /\ contract \in [Contracts -> ContractRow] /\ req \in [Handlers -> Request]
      /\ UNCHANGED <<asked, app>>
  BY DEF IInv, TypeOK, SaveWrite
<1>1. /\ c \in Contracts /\ Exists(c) /\ Changes(req[h], row)
      /\ contract' = [contract EXCEPT ![c] = mem]
  BY SoleSaveWrite
<1>2. mem \in ContractRow /\ mem.signed \subseteq asked[c]
  BY DEF SaveWrite, At, IInv, RequestOK, Editing
<1>3. row \in ContractRow /\ Agrees(row)
  BY <1>0, <1>1 DEF ApartIInv
<1>4. /\ Phases' = [Phases EXCEPT ![c] = Phase(mem.status)]
      /\ Signatures' = [Signatures EXCEPT ![c] = mem.signed]
      /\ Phases[c] = Phase(row.status) /\ Signatures[c] = row.signed
  BY <1>0, <1>1, <1>2, OneRow
<1>5. req'[h].op = "none" /\ \A g \in Handlers \ {h} : req'[g] = req[g]
  BY <1>0 DEF SaveWrite, Return, NoRequest
<1>6. \A g \in Handlers \ {h} : req[g].contract # c
  BY <1>1, ContractAssumption DEF Apart
<1>7. CASE req[h].op = "sign" /\ \E party \in Party \ row.signed : mem = Signed(row, party)
  <2>1. PICK party \in Party \ row.signed : mem = Signed(row, party)
    BY <1>7
  <2>2. /\ mem.signed = row.signed \union {party}
        /\ mem.status \in {"FULLY_EXECUTED", "EMPLOYER_SIGNED", "EMPLOYEE_SIGNED"}
    BY <2>1 DEF Signed, SignedStatus
  <2>3. Phase(mem.status) = "inForce" /\ Phases[c] \in {"inForce", "cancelled"}
    BY <1>1, <1>4, <2>2 DEF Phase, Exists
  <2>4. Voiding' = Voiding
    BY <1>5, <1>7, VoidingSteps
  <2>5. party \in asked[c] \ Signatures[c]
    BY <1>2, <1>4, <2>2
  <2>6. Signatures' = [Signatures EXCEPT ![c] = @ \union {party}]
    BY <1>4, <2>2 DEF Signatures
  <2> HIDE DEF c, row, mem
  <2>7. Ledger!Sign(c, party)
    BY <1>0, <1>4, <2>3, <2>4, <2>5, <2>6 DEF Ledger!Sign
  <2> QED
    BY <1>1, <2>7 DEF Ledger!Next
<1>8. CASE /\ req[h].op \in {"void", "cancel"} /\ row.status # "CANCELLED"
           /\ req[h].op = "cancel" => row.status # "FULLY_EXECUTED"
           /\ mem = [row EXCEPT !.status = "CANCELLED"]
  <2>1. mem.status = "CANCELLED" /\ mem.signed = row.signed
    BY <1>3, <1>8 DEF ContractRow
  <2>2. Phases[c] = "inForce" /\ Phases' = [Phases EXCEPT ![c] = "cancelled"]
    BY <1>1, <1>4, <1>8, <2>1 DEF Exists, Phase
  <2>3. Signatures' = Signatures
    BY <1>4, <2>1 DEF Signatures
  <2>4. Voiding' = Voiding \ {c}
    BY <1>5, <1>6 DEF Voiding
  <2>5. Ledger!Executed(c) => c \in Voiding
    <3>1. ASSUME Signatures[c] = Party PROVE req[h].op = "void"
      BY <1>3, <1>4, <1>8, <2>2, <3>1, ExecutedSaysSo
    <3> QED
      BY <1>1, <3>1 DEF Ledger!Executed, Voiding
  <2> HIDE DEF c, row, mem
  <2>6. Ledger!Cancel(c)
    BY <1>0, <2>2, <2>3, <2>4, <2>5 DEF Ledger!Cancel
  <2> QED
    BY <1>1, <2>6 DEF Ledger!Next
<1> QED
  BY <1>1, <1>7, <1>8 DEF Changes

LEMMA LedgerDelete ==
    ASSUME IInv, ApartIInv, NEW h \in Handlers, HireRemove(h)
    PROVE  Ledger!Next
<1> DEFINE c == req[h].contract
           row == [contract[c] EXCEPT !.status = "REMOVED"]
<1>0. /\ contract \in [Contracts -> ContractRow] /\ req \in [Handlers -> Request]
      /\ UNCHANGED <<asked, app>>
  BY DEF IInv, TypeOK, HireRemove
<1>1. /\ c \in Contracts /\ contract[c].status \in Uncompleted /\ req[h].op # "void"
      /\ contract' = [contract EXCEPT ![c].status = "REMOVED"]
  BY DEF HireRemove, At, IInv, RequestOK, ApartIInv, ApartOK, Editing
<1>2. contract[c] \in ContractRow /\ Agrees(contract[c])
  BY <1>0, <1>1 DEF ApartIInv
<1>3. /\ row \in ContractRow /\ row.status = "REMOVED" /\ row.signed = contract[c].signed
      /\ contract' = [contract EXCEPT ![c] = row]
  BY <1>0, <1>1, <1>2 DEF ContractRow, ContractStatus
<1> HIDE DEF c, row
<1>4. /\ Phases[c] = "inForce" /\ Phases' = [Phases EXCEPT ![c] = "deleted"]
      /\ Signatures' = [Signatures EXCEPT ![c] = Signatures[c]]
      /\ Signatures[c] = contract[c].signed
  <2>1. Phase(row.status) = "deleted" /\ Phase(contract[c].status) = "inForce"
    BY <1>1, <1>3 DEF Phase, Uncompleted
  <2>2. /\ Phases' = [Phases EXCEPT ![c] = Phase(row.status)]
        /\ Signatures' = [Signatures EXCEPT ![c] = row.signed]
        /\ Phases[c] = Phase(contract[c].status) /\ Signatures[c] = contract[c].signed
    BY <1>0, <1>1, <1>3, OneRow
  <2> QED
    BY <1>3, <2>1, <2>2
<1>5. Signatures' = Signatures
  BY <1>4 DEF Signatures
<1>6. ~Ledger!Executed(c)
  BY <1>1, <1>2, <1>4, ExecutedSaysSo DEF Ledger!Executed, Uncompleted, Phases
<1>7. Voiding' = Voiding
  <2>1. req'[h].op = req[h].op /\ \A g \in Handlers \ {h} : req'[g] = req[g]
    BY <1>0 DEF HireRemove, Goto, Request
  <2> QED
    BY <1>1, <2>1, VoidingSteps
<1>8. Ledger!Delete(c)
  BY <1>0, <1>4, <1>5, <1>6, <1>7 DEF Ledger!Delete
<1> QED
  BY <1>1, <1>8 DEF Ledger!Next

\* A step that leaves contracts and asked alone and starts no administrator's
\* request.
LEMMA LedgerApplications ==
    ASSUME UNCHANGED <<contract, asked>>, Voiding' = Voiding,
           \/ app' = app
           \/ \E e \in Employees : app' = [app EXCEPT ![e] = "HIRED"]
           \/ \E e \in Employees : app' = [app EXCEPT ![e] = "CONTRACT_SIGNED"] /\ BothAsked(e)
    PROVE  Ledger!Next \/ UNCHANGED Ledger!vars
<1>1. Phases' = Phases /\ Signatures' = Signatures
  BY DEF Phases, Signatures
<1>2. CASE app' = app
  BY <1>1, <1>2 DEF Ledger!vars
<1>3. ASSUME NEW e \in Employees, app' = [app EXCEPT ![e] = "HIRED"] PROVE Ledger!Next
  BY <1>1, <1>3 DEF Ledger!Next, Ledger!Hire
<1>4. ASSUME NEW e \in Employees, app' = [app EXCEPT ![e] = "CONTRACT_SIGNED"], BothAsked(e)
      PROVE  Ledger!Next
  BY <1>1, <1>4 DEF Ledger!Next, Ledger!Agreed, BothAsked
<1> QED
  BY <1>2, <1>3, <1>4

\* A request that ends by itself or by a failure; an administrator gives up.
LEMMA LedgerEnds ==
    ASSUME UNCHANGED <<contract, asked, app>>, Voiding' \subseteq Voiding
    PROVE  Ledger!Next
<1>1. Phases' = Phases /\ Signatures' = Signatures
  BY DEF Phases, Signatures
<1> DEFINE S == Voiding \ Voiding'
<1>2. S \in SUBSET Contracts /\ Voiding' = Voiding \ S
  BY DEF Voiding
<1> HIDE DEF S
<1>3. Ledger!GiveUpVoid(S)
  BY <1>1, <1>2 DEF Ledger!GiveUpVoid
<1> QED
  BY <1>2, <1>3 DEF Ledger!Next

LEMMA LedgerStep ==
    ASSUME IInv, Apart, ApartIInv, [Next]_vars
    PROVE  Ledger!Next \/ UNCHANGED Ledger!vars
<1>0. /\ req \in [Handlers -> Request] /\ app \in [Employees -> AppStatus]
      /\ \A h \in Handlers : req[h].op = "void" => req[h].pc \in Editing
  BY DEF IInv, TypeOK, ApartIInv, ApartOK
<1>1. CASE UNCHANGED vars
  BY <1>1 DEF vars, Ledger!vars, Phases, Signatures, Voiding
<1>2. ASSUME NEW h \in Handlers, NEW e \in Employees, GenerateFind(h, e) \/ HireLoad(h, e)
      PROVE  Ledger!Next \/ UNCHANGED Ledger!vars
  <2>1. /\ UNCHANGED <<contract, asked, app>> /\ req'[h].op # "void" /\ req[h].op # "void"
        /\ \A g \in Handlers \ {h} : req'[g] = req[g]
    BY <1>0, <1>2 DEF GenerateFind, HireLoad, Start, At, NoRequest, Editing
  <2> QED
    BY <2>1, VoidingSteps, LedgerApplications
<1>3. ASSUME NEW h \in Handlers, SignMark(h) \/ SaveReload(h)
      PROVE  Ledger!Next \/ UNCHANGED Ledger!vars
  <2>1. /\ UNCHANGED <<contract, asked, app>>
        /\ \/ req' = [req EXCEPT ![h].pc = "reload"]
           \/ req' = [req EXCEPT ![h].pc = "write", ![h].snap = contract[req[h].contract]]
    BY <1>3 DEF SignMark, SaveReload, Goto
  <2>2. /\ req'[h].op = req[h].op /\ req'[h].contract = req[h].contract
        /\ \A g \in Handlers \ {h} : req'[g] = req[g]
    BY <1>0, <2>1 DEF Request
  <2> QED
    BY <2>1, <2>2, VoidingSteps, LedgerApplications
<1>4. ASSUME NEW h \in Handlers, HireReload(h) \/ HireFind(h) \/ HireWrite(h)
      PROVE  Ledger!Next \/ UNCHANGED Ledger!vars
  <2>1. /\ UNCHANGED <<contract, asked>> /\ req[h].op # "void"
        /\ req[h].pc \in Hiring
    BY <1>0, <1>4 DEF HireReload, HireFind, HireWrite, At, Editing, Hiring
  <2>2. req'[h].op = req[h].op /\ \A g \in Handlers \ {h} : req'[g] = req[g]
    BY <1>0, <1>4 DEF HireReload, HireFind, HireWrite, Goto, Request
  <2>3. req[h].employee \in Employees
    BY <2>1 DEF IInv, RequestOK
  <2>4. app' = app \/ app' = [app EXCEPT ![req[h].employee] = "HIRED"]
    BY <1>0, <1>4, <2>3 DEF HireReload, HireFind, HireWrite, SaveColumn
  <2> QED
    BY <2>1, <2>2, <2>3, <2>4, VoidingSteps, LedgerApplications
<1>5. ASSUME NEW h \in Handlers, HireActivate(h) \/ Abort(h) PROVE Ledger!Next
  <2>1. UNCHANGED <<contract, asked, app>> /\ Return(h)
    BY <1>5 DEF HireActivate, Abort
  <2>2. req'[h].op # "void" /\ \A g \in Handlers \ {h} : req'[g] = req[g]
    BY <1>0, <2>1 DEF Return, NoRequest
  <2> QED
    BY <2>1, <2>2, VoidingSteps, LedgerEnds
<1>6. CASE Crash
  <2>1. UNCHANGED <<contract, asked, app>> /\ Voiding' = {}
    BY <1>6 DEF Crash, Voiding, NoRequest
  <2> QED
    BY <2>1, LedgerEnds
<1>7. ASSUME NEW e \in Employees, ContractFullyExecuted(e) \/ ListenerFails(e)
      PROVE  Ledger!Next \/ UNCHANGED Ledger!vars
  <2>1. UNCHANGED <<contract, asked, req>> /\ BothAsked(e)
    BY <1>7 DEF ContractFullyExecuted, ListenerFails, IInv, EventsOK
  <2>2. Voiding' = Voiding
    BY <2>1 DEF Voiding
  <2> QED
    BY <1>7, <2>1, <2>2, LedgerApplications DEF ContractFullyExecuted, ListenerFails
<1> QED
  BY <1>1, <1>2, <1>3, <1>4, <1>5, <1>6, <1>7, LedgerGenerate, LedgerAsk, LedgerCancelLoad,
     LedgerSave, LedgerDelete DEF Next, Continue

\* While no two requests work on one contract, contract signing implements the ledger:
\* a signature, a cancellation and a deletion each happen at once, at the write of their
\* request, whatever failed or was read before; the rows called FULLY_EXECUTED, which
\* nobody but an administrator cancels or deletes, are those with both signatures; and
\* an application is signed only when both have asked to sign one contract of it.
THEOREM LedgerImplemented == Spec /\ []Apart => ImplementsLedger
<1>1. Init => Ledger!Init
  BY DEF Init, Ledger!Init, Phases, Phase, Signatures, Voiding, NoRequest
<1>2. IInv /\ Apart /\ ApartIInv /\ [Next]_vars => [Ledger!Next]_Ledger!vars
  BY LedgerStep
<1> QED
  BY <1>1, <1>2, ApartInitially, ApartKept, Invariance, PTL
     DEF Spec, ImplementsLedger, Ledger!Spec
=============================================================================
