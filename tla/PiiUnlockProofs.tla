-------------------------- MODULE PiiUnlockProofs --------------------------
(***************************************************************************)
(* The payment gate of PiiUnlock for any number of applications, jobs,     *)
(* payments, references, requests in progress and failures: first what     *)
(* holds however requests overlap, the refinement of JobGate included, and *)
(* at the end what holds while EditsApart.                                 *)
(***************************************************************************)
EXTENDS PiiUnlockInv, TLAPS

-----------------------------------------------------------------------------
\* A saved row is a row, and each of its columns comes from the row in the
\* table or from the handler's entity.
LEMMA SaveAppRow ==
    ASSUME NEW row \in AppRow, NEW snap \in AppRow, NEW mem \in AppRow
    PROVE  /\ SaveApp(row, snap, mem) \in AppRow
           /\ SaveApp(row, snap, mem).status \in {row.status, mem.status}
           /\ SaveApp(row, snap, mem).unlocked \in {row.unlocked, mem.unlocked}
  BY DEF SaveApp, SaveColumn, AppRow

\* A request stays well typed whichever fields a step assigns.
LEMMA RequestType ==
    /\ NoRequest \in Request
    /\ \A r \in Request, pc \in PC :
          [r EXCEPT !.pc = pc] \in Request
    /\ \A r \in Request, pc \in PC, p \in Pays, ref \in Refs :
          [r EXCEPT !.pc = pc, !.pay = p, !.ref = ref] \in Request
    /\ \A r \in Request, pc \in PC, row \in AppRow :
          [r EXCEPT !.pc = pc, !.snap = row] \in Request
    /\ \A r \in Request, pc \in PC, S \in SUBSET Apps :
          [r EXCEPT !.pc = pc, !.todo = S] \in Request
    /\ \A r \in Request, S \in SUBSET Apps :
          [r EXCEPT !.todo = S] \in Request
    /\ \A op \in Op, pc \in PC, a \in Apps :
          [NoRequest EXCEPT !.op = op, !.pc = pc, !.app = a] \in Request
    /\ \A op \in Op, pc \in PC, a \in Apps, row \in AppRow :
          [NoRequest EXCEPT !.op = op, !.pc = pc, !.app = a, !.mem = row] \in Request
    /\ \A op \in Op, pc \in PC, p \in Pays, ref \in Refs :
          [NoRequest EXCEPT !.op = op, !.pc = pc, !.pay = p, !.ref = ref] \in Request
<1> USE DEF Request
<1>0. NoRequest \in Request
  BY DEF NoRequest, Op, PC
<1>1. ASSUME NEW r \in Request, NEW pc \in PC
      PROVE  [r EXCEPT !.pc = pc] \in Request
  OBVIOUS
<1>2. ASSUME NEW r \in Request, NEW pc \in PC, NEW p \in Pays, NEW ref \in Refs
      PROVE  [r EXCEPT !.pc = pc, !.pay = p, !.ref = ref] \in Request
  OBVIOUS
<1>3. ASSUME NEW r \in Request, NEW pc \in PC, NEW row \in AppRow
      PROVE  [r EXCEPT !.pc = pc, !.snap = row] \in Request
  OBVIOUS
<1>4. ASSUME NEW r \in Request, NEW pc \in PC, NEW S \in SUBSET Apps
      PROVE  [r EXCEPT !.pc = pc, !.todo = S] \in Request
  OBVIOUS
<1>5. ASSUME NEW r \in Request, NEW S \in SUBSET Apps
      PROVE  [r EXCEPT !.todo = S] \in Request
  OBVIOUS
<1>6. ASSUME NEW op \in Op, NEW pc \in PC, NEW a \in Apps
      PROVE  [NoRequest EXCEPT !.op = op, !.pc = pc, !.app = a] \in Request
  BY DEF NoRequest, Op, PC
<1>7. ASSUME NEW op \in Op, NEW pc \in PC, NEW a \in Apps, NEW row \in AppRow
      PROVE  [NoRequest EXCEPT !.op = op, !.pc = pc, !.app = a, !.mem = row] \in Request
  BY DEF NoRequest, Op, PC
<1>8. ASSUME NEW op \in Op, NEW pc \in PC, NEW p \in Pays, NEW ref \in Refs
      PROVE  [NoRequest EXCEPT !.op = op, !.pc = pc, !.pay = p, !.ref = ref] \in Request
  BY DEF NoRequest, Op, PC
<1> QED
  BY <1>0, <1>1, <1>2, <1>3, <1>4, <1>5, <1>6, <1>7, <1>8

\* The three ways a step changes the requests.
LEMMA RequestSteps ==
    ASSUME TypeOK, NEW h \in Handlers
    PROVE  /\ \A pc \in PC : Goto(h, pc) => req' \in [Handlers -> Request]
           /\ \A r \in Request : Start(h, r) => req' \in [Handlers -> Request]
           /\ Return(h) => req' \in [Handlers -> Request]
           /\ Finish(h) => req' \in [Handlers -> Request] /\ hooks' \subseteq Refs
<1>1. ASSUME NEW pc \in PC, Goto(h, pc) PROVE req' \in [Handlers -> Request]
  BY <1>1, RequestType DEF TypeOK, Goto
<1>2. ASSUME NEW r \in Request, Start(h, r) PROVE req' \in [Handlers -> Request]
  BY <1>2 DEF TypeOK, Start
<1>3. ASSUME Return(h) PROVE req' \in [Handlers -> Request]
  BY <1>3, RequestType DEF TypeOK, Return
<1>4. ASSUME Finish(h) PROVE req' \in [Handlers -> Request] /\ hooks' \subseteq Refs
  BY <1>3, <1>4 DEF TypeOK, Finish
<1> QED
  BY <1>1, <1>2, <1>3, <1>4

\* A handler that loads an application starts well typed.
LEMMA EditType ==
    ASSUME TypeOK, NEW h \in Handlers, NEW a \in Apps, NEW s \in Status, NEW pc \in PC,
           Edit(h, a, pc, s)
    PROVE  req' \in [Handlers -> Request]
<1>1. [app[a] EXCEPT !.status = s] \in AppRow
  BY DEF TypeOK, AppRow
<1> QED
  BY <1>1, RequestSteps, RequestType DEF Edit, Op

\* Every step preserves the types.
LEMMA TypeStep == IInv /\ Next => TypeOK'
<1> SUFFICES ASSUME IInv, TypeOK, Next PROVE TypeOK'
  BY DEF IInv
<1> USE PiiUnlockAssumption
<1>1. ASSUME NEW a \in Apps, Apply(a) PROVE TypeOK'
  <2>1. app' \in [Apps -> AppRow]
    BY <1>1 DEF TypeOK, Apply, AppRow, Status
  <2> QED
    BY <1>1, <2>1 DEF TypeOK, Apply
<1>2. ASSUME NEW r \in Refs, Charge(r) PROVE TypeOK'
  <2>1. gateway' \in [Refs -> GatewayState]
    BY <1>2 DEF TypeOK, Charge, GatewayState
  <2>2. hooks' \subseteq Refs
    BY <1>2 DEF TypeOK, Charge
  <2> QED
    BY <1>2, <2>1, <2>2 DEF TypeOK, Charge
<1>3. ASSUME NEW r \in Refs, WebhookUnknown(r) PROVE TypeOK'
  <2>1. hooks' \subseteq Refs
    BY <1>3 DEF TypeOK, WebhookUnknown
  <2> QED
    BY <1>3, <2>1 DEF TypeOK, WebhookUnknown
<1>4. ASSUME NEW h \in Handlers, NEW r \in Refs, WebhookFind(h, r) PROVE TypeOK'
  <2>1. req' \in [Handlers -> Request]
    BY <1>4, RequestSteps, RequestType DEF TypeOK, WebhookFind, PaymentOf, Op, PC, Settling
  <2> QED
    BY <1>4, <2>1 DEF TypeOK, WebhookFind
<1>5. ASSUME NEW h \in Handlers, NEW r \in Refs, VerifyFind(h, r) PROVE TypeOK'
  <2>1. req' \in [Handlers -> Request]
    BY <1>5, RequestSteps, RequestType DEF VerifyFind, PaymentOf, Op, PC
  <2> QED
    BY <1>5, <2>1 DEF TypeOK, VerifyFind
<1>6. ASSUME NEW h \in Handlers, NEW a \in Apps, InitiateLoad(h, a) PROVE TypeOK'
  <2>1. req' \in [Handlers -> Request]
    BY <1>6, RequestSteps, RequestType DEF InitiateLoad, Op, PC
  <2> QED
    BY <1>6, <2>1 DEF TypeOK, InitiateLoad
<1>7. ASSUME NEW h \in Handlers, NEW a \in Apps, SetStatus(h, a) PROVE TypeOK'
  <2>1. \E s \in Status, pc \in PC : Edit(h, a, pc, s)
    BY <1>7 DEF SetStatus, Status, PC
  <2>2. req' \in [Handlers -> Request]
    BY <2>1, EditType
  <2> QED
    BY <1>7, <2>1, <2>2 DEF TypeOK, SetStatus, Edit
<1>8. ASSUME NEW h \in Handlers, NEW a \in Apps, AcceptOffer(h, a) PROVE TypeOK'
  <2>1. \E s \in Status, pc \in PC : Edit(h, a, pc, s)
    BY <1>8 DEF AcceptOffer, Status, PC
  <2>2. req' \in [Handlers -> Request]
    BY <1>8, <2>1, EditType
  <2> QED
    BY <1>8, <2>1, <2>2 DEF TypeOK, AcceptOffer, Edit
<1>9. ASSUME NEW h \in Handlers, NEW a \in Apps, DeclineOffer(h, a) PROVE TypeOK'
  <2>1. \E s \in Status, pc \in PC : Edit(h, a, pc, s)
    BY <1>9 DEF DeclineOffer, Status, PC
  <2>2. req' \in [Handlers -> Request]
    BY <1>9, <2>1, EditType
  <2> QED
    BY <1>9, <2>1, <2>2 DEF TypeOK, DeclineOffer, Edit
<1>10. ASSUME NEW h \in Handlers, NEW a \in Apps, Withdraw(h, a) PROVE TypeOK'
  <2>1. \E s \in Status, pc \in PC : Edit(h, a, pc, s)
    BY <1>10 DEF Withdraw, Status, PC
  <2>2. req' \in [Handlers -> Request]
    BY <1>10, <2>1, EditType
  <2> QED
    BY <1>10, <2>1, <2>2 DEF TypeOK, Withdraw, Edit
<1>11. ASSUME NEW h \in Handlers, InitiateReuse(h) PROVE TypeOK'
  <2>1. req' \in [Handlers -> Request]
    BY <1>11, RequestSteps DEF InitiateReuse
  <2>2. gateway' \in [Refs -> GatewayState]
    BY <1>11 DEF TypeOK, InitiateReuse, Show, GatewayState
  <2> QED
    BY <1>11, <2>1, <2>2 DEF TypeOK, InitiateReuse
<1>12. ASSUME NEW h \in Handlers, InitiateAgain(h) PROVE TypeOK'
  <2>1. PICK p \in Pays, r \in Refs :
            /\ issued' = [issued EXCEPT ![r] = p]
            /\ req' = [req EXCEPT ![h].pc = "initAgain", ![h].pay = p, ![h].ref = r]
    BY <1>12 DEF InitiateAgain, PendingOf, Unissued
  <2>2. [req[h] EXCEPT !.pc = "initAgain", !.pay = p, !.ref = r] \in Request
    BY RequestType DEF TypeOK, PC
  <2>3. req' \in [Handlers -> Request]
    BY <2>1, <2>2 DEF TypeOK
  <2>4. issued' \in [Refs -> Pays \union {None}]
    BY <2>1 DEF TypeOK
  <2> QED
    BY <1>12, <2>3, <2>4 DEF TypeOK, InitiateAgain
<1>13. ASSUME NEW h \in Handlers, InitiateNew(h) PROVE TypeOK'
  <2>1. req' \in [Handlers -> Request]
    BY <1>13, RequestSteps DEF InitiateNew, PC
  <2> QED
    BY <1>13, <2>1 DEF TypeOK, InitiateNew
<1>14. ASSUME NEW h \in Handlers, InitiateInsert(h) PROVE TypeOK'
  <2>1. PICK p \in Pays, r \in Refs :
            /\ pay' = [pay EXCEPT ![p] = [status |-> "PENDING", app |-> req[h].app,
                                          ref |-> r, code |-> FALSE]]
            /\ issued' = [issued EXCEPT ![r] = p]
            /\ req' = [req EXCEPT ![h].pc = "initNew", ![h].pay = p, ![h].ref = r]
    BY <1>14 DEF InitiateInsert, Unissued
  <2>2. [req[h] EXCEPT !.pc = "initNew", !.pay = p, !.ref = r] \in Request
    BY RequestType DEF TypeOK, PC
  <2>3. req' \in [Handlers -> Request]
    BY <2>1, <2>2 DEF TypeOK
  <2>4. issued' \in [Refs -> Pays \union {None}]
    BY <2>1 DEF TypeOK
  <2>5. req[h].app \in Apps
    BY <1>14 DEF IInv, RequestOK, InitiateInsert, At
  <2>6. pay' \in [Pays -> PayRow]
    BY <2>1, <2>5 DEF TypeOK, PayRow
  <2> QED
    BY <1>14, <2>3, <2>4, <2>6 DEF TypeOK, InitiateInsert
<1>15. ASSUME NEW h \in Handlers, InitializeOk(h) PROVE TypeOK'
  <2>1. req' \in [Handlers -> Request]
    BY <1>15, RequestSteps DEF InitializeOk, PC
  <2>2. gateway' \in [Refs -> GatewayState]
    BY <1>15 DEF TypeOK, InitializeOk, GatewayState
  <2> QED
    BY <1>15, <2>1, <2>2 DEF TypeOK, InitializeOk
<1>16. ASSUME NEW h \in Handlers, InitializeThrows(h) PROVE TypeOK'
  <2>1. req' \in [Handlers -> Request]
    BY <1>16, RequestSteps DEF InitializeThrows
  <2> QED
    BY <1>16, <2>1 DEF TypeOK, InitializeThrows
<1>17. ASSUME NEW h \in Handlers, StoreCode(h) PROVE TypeOK'
  <2>1. req' \in [Handlers -> Request]
    BY <1>17, RequestSteps DEF StoreCode
  <2>2. gateway' \in [Refs -> GatewayState]
    BY <1>17 DEF TypeOK, StoreCode, Show, GatewayState
  <2>3. req[h].ref \in Refs
    BY <1>17 DEF IInv, RequestOK, StoreCode, At
  <2>4. \A row \in PayRow : /\ [row EXCEPT !.code = TRUE] \in PayRow
                            /\ [row EXCEPT !.ref = req[h].ref, !.code = TRUE] \in PayRow
    BY <2>3 DEF PayRow
  <2>5. \/ pay' = [pay EXCEPT ![req[h].pay] = [@ EXCEPT !.code = TRUE]]
        \/ pay' = [pay EXCEPT ![req[h].pay] = [@ EXCEPT !.ref = req[h].ref, !.code = TRUE]]
    BY <1>17 DEF StoreCode
  <2>6. pay' \in [Pays -> PayRow]
    <3>1. CASE pay' = [pay EXCEPT ![req[h].pay] = [@ EXCEPT !.code = TRUE]]
      BY <2>4, <3>1 DEF TypeOK
    <3>2. CASE pay' = [pay EXCEPT ![req[h].pay] =
                                      [@ EXCEPT !.ref = req[h].ref, !.code = TRUE]]
      <4>1. \A q \in Pays :
                [pay[q] EXCEPT !.ref = req[h].ref, !.code = TRUE] \in PayRow
        BY <2>4 DEF TypeOK
      <4> QED
        BY <3>2, <4>1 DEF TypeOK
    <3> QED
      BY <2>5, <3>1, <3>2
  <2> QED
    BY <1>17, <2>1, <2>2, <2>6 DEF TypeOK, StoreCode
<1>18. ASSUME NEW h \in Handlers, VerifyAsk(h) PROVE TypeOK'
  <2>1. req' \in [Handlers -> Request]
    BY <1>18, RequestSteps DEF VerifyAsk, PC, Settling
  <2> QED
    BY <1>18, <2>1 DEF TypeOK, VerifyAsk
<1>19. ASSUME NEW h \in Handlers, VerifyFail(h) PROVE TypeOK'
  <2>1. req' \in [Handlers -> Request]
    BY <1>19, RequestSteps DEF VerifyFail
  <2>2. pay' \in [Pays -> PayRow]
    BY <1>19, ZenonT(60) DEF TypeOK, VerifyFail, PayRow
  <2> QED
    BY <1>19, <2>1, <2>2 DEF TypeOK, VerifyFail
<1>20. ASSUME NEW h \in Handlers, SettleLoad(h) PROVE TypeOK'
  <2>1. req' \in [Handlers -> Request] /\ hooks' \subseteq Refs
    BY <1>20, RequestSteps DEF TypeOK, SettleLoad, PC, Settling
  <2> QED
    BY <1>20, <2>1 DEF TypeOK, SettleLoad
<1>21. ASSUME NEW h \in Handlers, SettleMark(h) PROVE TypeOK'
  <2>1. req' \in [Handlers -> Request]
    BY <1>21, RequestSteps DEF SettleMark, PC, Settling
  <2>2. pay' \in [Pays -> PayRow]
    BY <1>21, ZenonT(60) DEF TypeOK, SettleMark, PayRow
  <2> QED
    BY <1>21, <2>1, <2>2 DEF TypeOK, SettleMark
<1>22. ASSUME NEW h \in Handlers, SettleUnlock(h) PROVE TypeOK'
  <2>1. req' \in [Handlers -> Request]
    BY <1>22, RequestSteps DEF SettleUnlock, PC, Settling
  <2>2. app' \in [Apps -> AppRow]
    BY <1>22 DEF TypeOK, SettleUnlock, AppRow
  <2> QED
    BY <1>22, <2>1, <2>2 DEF TypeOK, SettleUnlock
<1>23. ASSUME NEW h \in Handlers, SettleScan(h) PROVE TypeOK'
  <2>1. Accepted(req[h].pay) \in SUBSET Apps
    BY DEF Accepted, JobApps
  <2>2. CASE Finish(h)
    BY <1>23, <2>2, RequestSteps DEF TypeOK, SettleScan
  <2>3. CASE ~Finish(h)
    <3>1. /\ req' = [req EXCEPT ![h] = [@ EXCEPT !.pc = "advance",
                                                 !.todo = Accepted(req[h].pay)]]
          /\ UNCHANGED hooks
      BY <1>23, <2>3 DEF SettleScan
    <3>2. [req[h] EXCEPT !.pc = "advance", !.todo = Accepted(req[h].pay)] \in Request
      BY <2>1, RequestType DEF TypeOK, PC, Settling
    <3>3. req' \in [Handlers -> Request]
      BY <3>1, <3>2 DEF TypeOK
    <3> QED
      BY <1>23, <3>1, <3>3 DEF TypeOK, SettleScan
  <2> QED
    BY <2>2, <2>3
<1>24. ASSUME NEW h \in Handlers, SettleAdvance(h) PROVE TypeOK'
  <2>1. req' \in [Handlers -> Request]
    BY <1>24, RequestSteps DEF SettleAdvance, PC, Settling
  <2>2. app' \in [Apps -> AppRow]
    BY <1>24 DEF TypeOK, SettleAdvance, AppRow, Status
  <2> QED
    BY <1>24, <2>1, <2>2 DEF TypeOK, SettleAdvance
<1>25. ASSUME NEW h \in Handlers, SettleEmit(h) PROVE TypeOK'
  <2>1. req[h] \in Request /\ req[h].todo \in SUBSET Apps
    BY DEF TypeOK, Request
  <2>2. PICK a \in req[h].todo :
            /\ Emit(a)
            /\ \/ Finish(h)
               \/ req' = [req EXCEPT ![h].todo = @ \ {a}] /\ UNCHANGED hooks
    BY <1>25 DEF SettleEmit
  <2>3. confirmed' \subseteq Apps
    BY <2>1, <2>2 DEF TypeOK, Emit
  <2>4. CASE Finish(h)
    BY <1>25, <2>3, <2>4, RequestSteps DEF TypeOK, SettleEmit
  <2>5. CASE ~Finish(h)
    <3>1. /\ req' = [req EXCEPT ![h] = [@ EXCEPT !.todo = req[h].todo \ {a}]]
          /\ UNCHANGED hooks
      BY <2>2, <2>5
    <3>2. [req[h] EXCEPT !.todo = req[h].todo \ {a}] \in Request
      BY <2>1, RequestType
    <3>3. req' \in [Handlers -> Request]
      BY <3>1, <3>2 DEF TypeOK
    <3> QED
      BY <1>25, <2>3, <3>1, <3>3 DEF TypeOK, SettleEmit
  <2> QED
    BY <2>4, <2>5
<1>26. ASSUME NEW h \in Handlers, EmitOwn(h) PROVE TypeOK'
  <2>1. req' \in [Handlers -> Request]
    BY <1>26, RequestSteps DEF EmitOwn, PC
  <2>2. confirmed' \subseteq Apps
    BY <1>26 DEF TypeOK, IInv, RequestOK, EmitOwn, Emit, At
  <2> QED
    BY <1>26, <2>1, <2>2 DEF TypeOK, EmitOwn
<1>27. ASSUME NEW h \in Handlers, SaveReload(h) PROVE TypeOK'
  <2>1. app[req[h].app] \in AppRow
    BY <1>27 DEF TypeOK, IInv, RequestOK, SaveReload, At
  <2>2. req' \in [Handlers -> Request]
    BY <1>27, <2>1, RequestType DEF TypeOK, SaveReload, PC
  <2> QED
    BY <1>27, <2>1, <2>2 DEF TypeOK, SaveReload
<1>28. ASSUME NEW h \in Handlers, SaveWrite(h) PROVE TypeOK'
  <2>1. req' \in [Handlers -> Request]
    BY <1>28, RequestSteps DEF SaveWrite
  <2>2. req[h].app \in Apps /\ req[h].mem \in AppRow /\ req[h].snap \in AppRow
    BY <1>28 DEF IInv, RequestOK, SaveWrite, At
  <2>3. app' \in [Apps -> AppRow]
    BY <1>28, <2>2, SaveAppRow DEF TypeOK, SaveWrite
  <2> QED
    BY <1>28, <2>1, <2>2, <2>3 DEF TypeOK, SaveWrite
<1>29. ASSUME NEW h \in Handlers, Abort(h) PROVE TypeOK'
  <2>1. req' \in [Handlers -> Request] /\ hooks' \subseteq Refs
    BY <1>29, RequestSteps DEF Abort
  <2>2. faults' \in 0..MaxFaults
    BY <1>29 DEF TypeOK, Abort
  <2> QED
    BY <1>29, <2>1, <2>2 DEF TypeOK, Abort
<1>30. CASE Crash
  <2>1. req' \in [Handlers -> Request]
    BY <1>30, RequestType DEF Crash
  <2>2. faults' \in 0..MaxFaults
    BY <1>30 DEF TypeOK, Crash
  <2> QED
    BY <1>30, <2>1, <2>2 DEF TypeOK, Crash
<1> QED
  BY <1>1, <1>2, <1>3, <1>4, <1>5, <1>6, <1>7, <1>8, <1>9, <1>10,
     <1>11, <1>12, <1>13, <1>14, <1>15, <1>16, <1>17, <1>18, <1>19, <1>20,
     <1>21, <1>22, <1>23, <1>24, <1>25, <1>26, <1>27, <1>28, <1>29, <1>30 DEF Next, Continue

-----------------------------------------------------------------------------
\* What no step undoes: a charge, the row a reference was generated for, and
\* the application of an existing payment.
Stable ==
    /\ \A r \in Refs : gateway[r] = "paid" => gateway'[r] = "paid"
    /\ \A r \in Refs : issued[r] # None => issued'[r] = issued[r]
    /\ \A p \in Pays : pay[p].status # "NONE" =>
          /\ pay'[p].status # "NONE"
          /\ pay'[p].app = pay[p].app

LEMMA StableStep == IInv /\ Next => Stable
<1> SUFFICES ASSUME TypeOK, Next PROVE Stable
  BY DEF IInv
<1> USE DEF TypeOK, Stable
<1>1. ASSUME NEW a \in Apps, Apply(a) PROVE Stable
  BY <1>1 DEF Apply
<1>2. ASSUME NEW r \in Refs, Charge(r) PROVE Stable
  BY <1>2 DEF Charge
<1>3. ASSUME NEW r \in Refs, WebhookUnknown(r) PROVE Stable
  BY <1>3 DEF WebhookUnknown
<1>4. ASSUME NEW h \in Handlers, NEW r \in Refs, WebhookFind(h, r) PROVE Stable
  BY <1>4 DEF WebhookFind
<1>5. ASSUME NEW h \in Handlers, NEW r \in Refs, VerifyFind(h, r) PROVE Stable
  BY <1>5 DEF VerifyFind
<1>6. ASSUME NEW h \in Handlers, NEW a \in Apps, InitiateLoad(h, a) PROVE Stable
  BY <1>6 DEF InitiateLoad
<1>7. ASSUME NEW h \in Handlers, NEW a \in Apps, SetStatus(h, a) PROVE Stable
  BY <1>7 DEF SetStatus, Edit
<1>8. ASSUME NEW h \in Handlers, NEW a \in Apps, AcceptOffer(h, a) PROVE Stable
  BY <1>8 DEF AcceptOffer, Edit
<1>9. ASSUME NEW h \in Handlers, NEW a \in Apps, DeclineOffer(h, a) PROVE Stable
  BY <1>9 DEF DeclineOffer, Edit
<1>10. ASSUME NEW h \in Handlers, NEW a \in Apps, Withdraw(h, a) PROVE Stable
  BY <1>10 DEF Withdraw, Edit
<1>11. ASSUME NEW h \in Handlers, InitiateReuse(h) PROVE Stable
  BY <1>11 DEF InitiateReuse, Show
<1>12. ASSUME NEW h \in Handlers, InitiateAgain(h) PROVE Stable
  BY <1>12 DEF InitiateAgain, Unissued
<1>13. ASSUME NEW h \in Handlers, InitiateNew(h) PROVE Stable
  BY <1>13 DEF InitiateNew
<1>14. ASSUME NEW h \in Handlers, InitiateInsert(h) PROVE Stable
  BY <1>14 DEF InitiateInsert, Unissued, PayRow
<1>15. ASSUME NEW h \in Handlers, InitializeOk(h) PROVE Stable
  BY <1>15 DEF InitializeOk
<1>16. ASSUME NEW h \in Handlers, InitializeThrows(h) PROVE Stable
  BY <1>16 DEF InitializeThrows
<1>17. ASSUME NEW h \in Handlers, StoreCode(h) PROVE Stable
  BY <1>17 DEF StoreCode, Show, PayRow
<1>18. ASSUME NEW h \in Handlers, VerifyAsk(h) PROVE Stable
  BY <1>18 DEF VerifyAsk
<1>19. ASSUME NEW h \in Handlers, VerifyFail(h) PROVE Stable
  BY <1>19 DEF VerifyFail, PayRow
<1>20. ASSUME NEW h \in Handlers, SettleLoad(h) PROVE Stable
  BY <1>20 DEF SettleLoad
<1>21. ASSUME NEW h \in Handlers, SettleMark(h) PROVE Stable
  BY <1>21 DEF SettleMark, PayRow
<1>22. ASSUME NEW h \in Handlers, SettleUnlock(h) PROVE Stable
  BY <1>22 DEF SettleUnlock
<1>23. ASSUME NEW h \in Handlers, SettleScan(h) PROVE Stable
  BY <1>23 DEF SettleScan
<1>24. ASSUME NEW h \in Handlers, SettleAdvance(h) PROVE Stable
  BY <1>24 DEF SettleAdvance
<1>25. ASSUME NEW h \in Handlers, SettleEmit(h) PROVE Stable
  BY <1>25 DEF SettleEmit
<1>26. ASSUME NEW h \in Handlers, EmitOwn(h) PROVE Stable
  BY <1>26 DEF EmitOwn
<1>27. ASSUME NEW h \in Handlers, SaveReload(h) PROVE Stable
  BY <1>27 DEF SaveReload
<1>28. ASSUME NEW h \in Handlers, SaveWrite(h) PROVE Stable
  BY <1>28 DEF SaveWrite
<1>29. ASSUME NEW h \in Handlers, Abort(h) PROVE Stable
  BY <1>29 DEF Abort
<1>30. CASE Crash
  BY <1>30 DEF Crash
<1> QED
  BY <1>1, <1>2, <1>3, <1>4, <1>5, <1>6, <1>7, <1>8, <1>9, <1>10,
     <1>11, <1>12, <1>13, <1>14, <1>15, <1>16, <1>17, <1>18, <1>19, <1>20,
     <1>21, <1>22, <1>23, <1>24, <1>25, <1>26, <1>27, <1>28, <1>29, <1>30 DEF Next, Continue

\* What of the invariant survives a step that leaves its variables alone.
LEMMA Frame ==
    ASSUME IInv, TypeOK', Stable
    PROVE  /\ \A p \in Pays : Charged(p) => Charged(p)'
           /\ \A j \in Jobs : PaidJob(j) => PaidJob(j)'
           /\ UNCHANGED <<pay, issued>> => RefsOK'
           /\ hooks' \subseteq hooks => HooksOK'
           /\ \A g \in Handlers : req'[g] \in {req[g], NoRequest} => RequestOK(g)'
           /\ UNCHANGED app => UnlockedOnlyIfPaid'
           /\ (\A p \in Pays : pay'[p].status = "SUCCESS" => pay[p].status = "SUCCESS")
                 => SuccessOnlyIfCharged'
           /\ UNCHANGED <<app, confirmed>> => ConfirmedOnlyIfPaid'
<1> USE PiiUnlockAssumption
<1>1. ASSUME NEW p \in Pays, Charged(p) PROVE Charged(p)'
  BY <1>1 DEF Charged, Stable
<1>2. ASSUME NEW a \in Apps, PaidFor(a) PROVE PaidFor(a)'
  <2>1. PICK p \in Pays : Charged(p) /\ pay[p].app = a
    BY <1>2 DEF PaidFor
  <2>2. pay[p].status # "NONE"
    BY <2>1 DEF Charged, IInv, RefsOK
  <2> QED
    BY <1>1, <2>1, <2>2 DEF PaidFor, Stable
<1>3. ASSUME NEW j \in Jobs, PaidJob(j) PROVE PaidJob(j)'
  BY <1>2, <1>3 DEF PaidJob
<1>4. ASSUME UNCHANGED <<pay, issued>> PROVE RefsOK'
  BY <1>4 DEF IInv, RefsOK
<1>5. ASSUME hooks' \subseteq hooks PROVE HooksOK'
  BY <1>5 DEF IInv, HooksOK, Stable, TypeOK
<1>6. ASSUME NEW g \in Handlers, req'[g] = req[g] PROVE RequestOK(g)'
  <2>1. RequestOK(g)
    BY DEF IInv
  <2>2. \A a \in Apps : PaidJob(JobOf[a]) => PaidJob(JobOf[a])'
    BY <1>3
  <2>3. req[g].todo \subseteq Apps
    BY DEF IInv, TypeOK, Request
  <2> QED
    BY <1>6, <2>1, <2>2, <2>3 DEF RequestOK, Stable
<1>7. ASSUME NEW g \in Handlers, req'[g] = NoRequest PROVE RequestOK(g)'
  BY <1>7 DEF RequestOK, NoRequest, Settling
<1>8. ASSUME UNCHANGED app PROVE UnlockedOnlyIfPaid'
  BY <1>3, <1>8 DEF IInv, UnlockedOnlyIfPaid
<1>9. ASSUME \A p \in Pays : pay'[p].status = "SUCCESS" => pay[p].status = "SUCCESS"
      PROVE  SuccessOnlyIfCharged'
  BY <1>1, <1>9 DEF IInv, SuccessOnlyIfCharged
<1>10. ASSUME UNCHANGED <<app, confirmed>> PROVE ConfirmedOnlyIfPaid'
  BY <1>3, <1>10 DEF IInv, ConfirmedOnlyIfPaid
<1> QED
  BY <1>1, <1>3, <1>4, <1>5, <1>6, <1>7, <1>8, <1>9, <1>10

-----------------------------------------------------------------------------
\* The program counters at which a request works on a payment, and at which it
\* holds a loaded application.
Paying == {"initNew", "initAgain", "storeCode", "storeRef", "ask", "fail"} \union Settling
Editing == {"emitOwn", "reload", "write"}

\* A request that goes on with the same application, payment, reference and
\* entity stays sound.
LEMMA Forward ==
    ASSUME IInv, TypeOK', Stable, NEW h \in Handlers,
           \/ req[h].pc \in Paying /\ req'[h].pc \in Paying \union {"idle"}
           \/ req[h].pc = "findPending" /\ req'[h].pc = "insert"
           \/ req[h].pc = "emitOwn" /\ req'[h].pc = "reload",
           req'[h].pc \in Settling => gateway[req[h].ref] = "paid",
           req'[h].app = req[h].app, req'[h].pay = req[h].pay, req'[h].ref = req[h].ref,
           req'[h].mem = req[h].mem, req'[h].snap = req[h].snap,
           \A a \in req'[h].todo : a \in req[h].todo \/ PaidJob(JobOf[a])
    PROVE  RequestOK(h)'
<1> USE PiiUnlockAssumption
<1>1. RequestOK(h) /\ req'[h].todo \subseteq Apps
  BY DEF IInv, TypeOK, Request
<1>2. \A a \in req'[h].todo : PaidJob(JobOf[a])'
  BY <1>1, Frame DEF RequestOK
<1>3. CASE req[h].pc \in Paying /\ req'[h].pc \in Paying \union {"idle"}
  <2>1. /\ req[h].pay \in Pays /\ req[h].ref \in Refs
        /\ issued[req[h].ref] = req[h].pay
    BY <1>1, <1>3 DEF RequestOK, Paying
  <2>2. issued'[req[h].ref] = req[h].pay
    BY <2>1 DEF Stable
  <2>3. req'[h].pc \in Settling => gateway'[req[h].ref] = "paid"
    BY <2>1 DEF Stable
  <2>4. req'[h].pc \notin {"findPending", "insert", "emitOwn", "reload", "write"}
    BY <1>3 DEF Paying, Settling
  <2> QED
    BY <1>2, <2>1, <2>2, <2>3, <2>4 DEF RequestOK
<1>4. CASE req[h].pc = "findPending" /\ req'[h].pc = "insert"
  BY <1>1, <1>2, <1>4 DEF RequestOK, Settling
<1>5. CASE req[h].pc = "emitOwn" /\ req'[h].pc = "reload"
  <2>1. req[h].app \in Apps /\ PaidJob(JobOf[req[h].app])'
    BY <1>1, <1>5, Frame DEF RequestOK
  <2> QED
    BY <1>1, <1>2, <1>5, <2>1 DEF RequestOK, Settling
<1> QED
  BY <1>3, <1>4, <1>5

\* A request that takes up a payment by a reference generated for it is sound.
LEMMA TakeUp ==
    ASSUME IInv, TypeOK', Stable, NEW h \in Handlers, NEW p \in Pays, NEW r \in Refs,
           req'[h].pc \in Paying, req'[h].pay = p, req'[h].ref = r, req'[h].todo = {},
           issued'[r] = p,
           req'[h].pc \in Settling => gateway'[r] = "paid"
    PROVE  RequestOK(h)'
  BY DEF RequestOK, Paying, Settling

\* A request that has just loaded an application is sound: what it has read is
\* justified by the invariant.
LEMMA Loaded ==
    ASSUME IInv, TypeOK', Stable, NEW h \in Handlers, NEW a \in Apps, NEW s \in Status,
           req'[h].pc \in {"emitOwn", "reload"}, req'[h].app = a, req'[h].todo = {},
           req'[h].mem = [app[a] EXCEPT !.status = s],
           req'[h].pc = "emitOwn" => app[a].unlocked,
           s = "PAYMENT_COMPLETE" =>
               app[a].unlocked \/ "PAYMENT_COMPLETE" \in EmployerSets
    PROVE  RequestOK(h)'
<1>1. app[a].unlocked => PaidJob(JobOf[a])'
  BY Frame, PiiUnlockAssumption DEF IInv, UnlockedOnlyIfPaid
<1>2. /\ req'[h].mem \in AppRow
      /\ req'[h].mem.unlocked = app[a].unlocked
      /\ req'[h].mem.status = s
  BY DEF IInv, TypeOK, AppRow
<1> QED
  BY <1>1, <1>2 DEF RequestOK, Settling

-----------------------------------------------------------------------------
\* Every step preserves the invariant: first the steps that change neither an
\* application nor a payment, then those that do.
LEMMA InvStep == IInv /\ Next => IInv'
<1> SUFFICES ASSUME IInv, Next PROVE IInv'
  OBVIOUS
<1>a. TypeOK /\ TypeOK' /\ Stable
  BY TypeStep, StableStep DEF IInv
<1>1. ASSUME NEW r \in Refs, Charge(r) PROVE IInv'
  <2>1. HooksOK'
    BY <1>1, <1>a DEF Charge, IInv, HooksOK, TypeOK, Stable
  <2> QED
    BY <1>1, <1>a, Frame, <2>1 DEF Charge, IInv
<1>2. ASSUME NEW r \in Refs, WebhookUnknown(r) PROVE IInv'
  BY <1>2, <1>a, Frame DEF WebhookUnknown, IInv
<1>3. ASSUME NEW h \in Handlers, NEW r \in Refs, WebhookFind(h, r) PROVE IInv'
  <2>0. PICK p \in Pays :
            /\ pay[p].ref = r
            /\ req'[h] = [NoRequest EXCEPT !.op = "webhook", !.pc = "load", !.pay = p, !.ref = r]
    BY <1>3, <1>a DEF WebhookFind, PaymentOf, Start, TypeOK
  <2>0a. issued[r] = p /\ gateway[r] = "paid" /\ UNCHANGED <<issued, gateway>>
    BY <1>3, <2>0, PiiUnlockAssumption DEF WebhookFind, IInv, RefsOK, HooksOK
  <2>1. RequestOK(h)'
    BY <1>a, <2>0, <2>0a, TakeUp, ZenonT(60) DEF NoRequest, Paying, Settling
  <2>2. \A g \in Handlers : g # h => req'[g] = req[g]
    BY <1>3, <1>a DEF WebhookFind, TypeOK, Start
  <2> QED
    BY <1>3, <1>a, Frame, <2>1, <2>2 DEF WebhookFind, IInv
<1>4. ASSUME NEW h \in Handlers, NEW r \in Refs, VerifyFind(h, r) PROVE IInv'
  <2>0. PICK p \in Pays :
            /\ pay[p].ref = r
            /\ req'[h] = [NoRequest EXCEPT !.op = "verify", !.pc = "ask", !.pay = p, !.ref = r]
    BY <1>4, <1>a DEF VerifyFind, PaymentOf, Start, TypeOK
  <2>0a. issued[r] = p /\ UNCHANGED issued
    BY <1>4, <2>0, PiiUnlockAssumption DEF VerifyFind, IInv, RefsOK
  <2>1. RequestOK(h)'
    BY <1>a, <2>0, <2>0a, TakeUp DEF NoRequest, Paying, Settling
  <2>2. \A g \in Handlers : g # h => req'[g] = req[g]
    BY <1>4, <1>a DEF VerifyFind, TypeOK, Start
  <2> QED
    BY <1>4, <1>a, Frame, <2>1, <2>2 DEF VerifyFind, IInv
<1>5. ASSUME NEW h \in Handlers, NEW a \in Apps, InitiateLoad(h, a) PROVE IInv'
  <2>1. RequestOK(h)'
    BY <1>5, <1>a DEF InitiateLoad, Start, NoRequest, TypeOK, RequestOK, Settling
  <2>2. \A g \in Handlers : g # h => req'[g] = req[g]
    BY <1>5, <1>a DEF InitiateLoad, TypeOK, Start
  <2> QED
    BY <1>5, <1>a, Frame, <2>1, <2>2 DEF InitiateLoad, IInv
<1>6. ASSUME NEW h \in Handlers, InitiateReuse(h) PROVE IInv'
  <2>1. \A g \in Handlers : req'[g] \in {req[g], NoRequest}
    BY <1>6, <1>a DEF TypeOK, InitiateReuse, Return
  <2> QED
    BY <1>6, <1>a, Frame, <2>1 DEF InitiateReuse, IInv
<1>7. ASSUME NEW h \in Handlers, InitiateNew(h) PROVE IInv'
  <2>1. RequestOK(h)'
    BY <1>7, <1>a, Forward DEF InitiateNew, At, Goto, TypeOK, Paying, Settling
  <2>2. \A g \in Handlers : g # h => req'[g] = req[g]
    BY <1>7, <1>a DEF InitiateNew, TypeOK, Goto
  <2> QED
    BY <1>7, <1>a, Frame, <2>1, <2>2 DEF InitiateNew, IInv
<1>8. ASSUME NEW h \in Handlers, InitializeThrows(h) PROVE IInv'
  <2>1. \A g \in Handlers : req'[g] \in {req[g], NoRequest}
    BY <1>8, <1>a DEF TypeOK, InitializeThrows, Return
  <2> QED
    BY <1>8, <1>a, Frame, <2>1 DEF InitializeThrows, IInv
<1>9. ASSUME NEW h \in Handlers, InitializeOk(h) PROVE IInv'
  <2>0. PICK pc \in {"storeCode", "storeRef"} :
            Goto(h, pc) /\ req[h].pc \in {"initNew", "initAgain"}
    BY <1>9 DEF InitializeOk, At
  <2>1. RequestOK(h)'
    BY <1>a, <2>0, Forward DEF Goto, TypeOK, Request, Paying, Settling
  <2>2. \A g \in Handlers : g # h => req'[g] = req[g]
    BY <1>9, <1>a DEF InitializeOk, TypeOK, Goto
  <2> QED
    BY <1>9, <1>a, Frame, <2>1, <2>2 DEF InitializeOk, IInv
<1>10. ASSUME NEW h \in Handlers, VerifyAsk(h) PROVE IInv'
  <2>1. CASE Return(h)
    BY <1>10, <1>a, Frame, <2>1 DEF VerifyAsk, Return, Finish, TypeOK, IInv
  <2>2. CASE ~Return(h)
    <3>0. PICK pc \in {"load", "fail"} : Goto(h, pc) /\ (pc \in Settling => gateway[req[h].ref] = "paid")
      BY <1>10, <2>2 DEF VerifyAsk, At, Finish, IInv, RequestOK, Settling
    <3>1. RequestOK(h)'
      BY <1>10, <1>a, <3>0, Forward DEF VerifyAsk, At, Goto, TypeOK, Paying, Settling
    <3>2. \A g \in Handlers : g # h => req'[g] = req[g]
      BY <1>a, <3>0 DEF Goto, TypeOK
    <3> QED
      BY <1>10, <1>a, Frame, <2>2, <3>1, <3>2 DEF VerifyAsk, Finish, IInv
  <2> QED
    BY <2>1, <2>2
<1>11. ASSUME NEW h \in Handlers, SettleLoad(h) PROVE IInv'
  <2>1. CASE Return(h)
    BY <1>11, <1>a, Frame, <2>1 DEF SettleLoad, Return, Finish, TypeOK, IInv
  <2>2. CASE ~Return(h)
    <3>0. PICK pc \in {"mark"} : Goto(h, pc) /\ (pc \in Settling => gateway[req[h].ref] = "paid")
      BY <1>11, <2>2 DEF SettleLoad, At, Finish, IInv, RequestOK, Settling
    <3>1. RequestOK(h)'
      BY <1>11, <1>a, <3>0, Forward DEF SettleLoad, At, Goto, TypeOK, Paying, Settling
    <3>2. \A g \in Handlers : g # h => req'[g] = req[g]
      BY <1>a, <3>0 DEF Goto, TypeOK
    <3> QED
      BY <1>11, <1>a, Frame, <2>2, <3>1, <3>2 DEF SettleLoad, Finish, IInv
  <2> QED
    BY <2>1, <2>2
<1>12. ASSUME NEW h \in Handlers, SaveReload(h) PROVE IInv'
  <2>0. /\ req'[h] = [req[h] EXCEPT !.pc = "write", !.snap = app[req[h].app]]
        /\ req[h].pc = "reload"
        /\ req[h] \in Request
    BY <1>12, <1>a DEF SaveReload, At, TypeOK
  <2>0a. RequestOK(h) /\ req[h].app \in Apps /\ app[req[h].app] \in AppRow
    BY <1>a, <2>0 DEF IInv, RequestOK, TypeOK
  <2>0b. \A a \in Apps : PaidJob(JobOf[a]) => PaidJob(JobOf[a])'
    BY <1>a, Frame, PiiUnlockAssumption
  <2>0c. /\ req'[h].pc = "write" /\ req'[h].snap = app[req[h].app]
         /\ req'[h].app = req[h].app /\ req'[h].mem = req[h].mem
         /\ req'[h].todo = req[h].todo /\ req[h].todo \subseteq Apps
    BY <2>0 DEF Request
  <2>1. RequestOK(h)'
    BY <2>0, <2>0a, <2>0b, <2>0c DEF RequestOK, Settling
  <2>2. \A g \in Handlers : g # h => req'[g] = req[g]
    BY <1>12, <1>a DEF SaveReload, TypeOK
  <2> QED
    BY <1>12, <1>a, Frame, <2>1, <2>2 DEF SaveReload, IInv
<1>13. ASSUME NEW h \in Handlers, Abort(h) PROVE IInv'
  <2>1. \A g \in Handlers : req'[g] \in {req[g], NoRequest}
    BY <1>13, <1>a DEF TypeOK, Abort, Finish, Return
  <2> QED
    BY <1>13, <1>a, Frame, <2>1 DEF Abort, Finish, IInv
<1>14. CASE Crash
  <2>1. \A g \in Handlers : req'[g] \in {req[g], NoRequest}
    BY <1>14, <1>a DEF TypeOK, Crash
  <2> QED
    BY <1>14, <1>a, Frame, <2>1 DEF Crash, IInv
<1>15. ASSUME NEW h \in Handlers, NEW a \in Apps, SetStatus(h, a) PROVE IInv'
  <2>0. PICK pc \in {"emitOwn", "reload"}, s \in Status :
            /\ Edit(h, a, pc, s)
            /\ pc = "emitOwn" => app[a].unlocked
            /\ s = "PAYMENT_COMPLETE" =>
                   app[a].unlocked \/ "PAYMENT_COMPLETE" \in EmployerSets
    BY <1>15, PiiUnlockAssumption DEF SetStatus, Status
  <2>1. RequestOK(h)'
    BY <1>a, <2>0, Loaded DEF Edit, Start, NoRequest, TypeOK
  <2>2. \A g \in Handlers : g # h => req'[g] = req[g]
    BY <1>15, <1>a DEF SetStatus, TypeOK, Edit, Start
  <2> QED
    BY <1>15, <1>a, Frame, <2>1, <2>2 DEF SetStatus, IInv, Edit
<1>16. ASSUME NEW h \in Handlers, NEW a \in Apps, DeclineOffer(h, a) PROVE IInv'
  <2>0. PICK pc \in {"emitOwn", "reload"}, s \in Status :
            /\ Edit(h, a, pc, s)
            /\ pc = "emitOwn" => app[a].unlocked
            /\ s = "PAYMENT_COMPLETE" =>
                   app[a].unlocked \/ "PAYMENT_COMPLETE" \in EmployerSets
    BY <1>16, PiiUnlockAssumption DEF DeclineOffer, Status
  <2>1. RequestOK(h)'
    BY <1>a, <2>0, Loaded DEF Edit, Start, NoRequest, TypeOK
  <2>2. \A g \in Handlers : g # h => req'[g] = req[g]
    BY <1>16, <1>a DEF DeclineOffer, TypeOK, Edit, Start
  <2> QED
    BY <1>16, <1>a, Frame, <2>1, <2>2 DEF DeclineOffer, IInv, Edit
<1>17. ASSUME NEW h \in Handlers, NEW a \in Apps, Withdraw(h, a) PROVE IInv'
  <2>0. PICK pc \in {"emitOwn", "reload"}, s \in Status :
            /\ Edit(h, a, pc, s)
            /\ pc = "emitOwn" => app[a].unlocked
            /\ s = "PAYMENT_COMPLETE" =>
                   app[a].unlocked \/ "PAYMENT_COMPLETE" \in EmployerSets
    BY <1>17, PiiUnlockAssumption DEF Withdraw, Status
  <2>1. RequestOK(h)'
    BY <1>a, <2>0, Loaded DEF Edit, Start, NoRequest, TypeOK
  <2>2. \A g \in Handlers : g # h => req'[g] = req[g]
    BY <1>17, <1>a DEF Withdraw, TypeOK, Edit, Start
  <2> QED
    BY <1>17, <1>a, Frame, <2>1, <2>2 DEF Withdraw, IInv, Edit
<1>18. ASSUME NEW h \in Handlers, NEW a \in Apps, AcceptOffer(h, a) PROVE IInv'
  <2>0. PICK pc \in {"emitOwn", "reload"}, s \in Status :
            /\ Edit(h, a, pc, s)
            /\ pc = "emitOwn" => app[a].unlocked
            /\ s = "PAYMENT_COMPLETE" =>
                   app[a].unlocked \/ "PAYMENT_COMPLETE" \in EmployerSets
    BY <1>18, PiiUnlockAssumption DEF AcceptOffer, Status
  <2>1. RequestOK(h)'
    BY <1>a, <2>0, Loaded DEF Edit, Start, NoRequest, TypeOK
  <2>2. \A g \in Handlers : g # h => req'[g] = req[g]
    BY <1>18, <1>a DEF AcceptOffer, TypeOK, Edit, Start
  <2> QED
    BY <1>18, <1>a, Frame, <2>1, <2>2 DEF AcceptOffer, IInv, Edit
<1>19. ASSUME NEW a \in Apps, Apply(a) PROVE IInv'
  <2>1. app' = [app EXCEPT ![a] = [@ EXCEPT !.status = "APPLIED"]]
    BY <1>19 DEF Apply
  <2>2. UnlockedOnlyIfPaid'
    BY <1>19, <1>a, Frame, <2>1, PiiUnlockAssumption DEF Apply, IInv, UnlockedOnlyIfPaid, TypeOK, AppRow
  <2>3. ConfirmedOnlyIfPaid'
    BY <1>19, <1>a, Frame, <2>1, PiiUnlockAssumption DEF Apply, IInv, ConfirmedOnlyIfPaid, TypeOK, AppRow
  <2> QED
    BY <1>19, <1>a, Frame, <2>2, <2>3 DEF Apply, IInv
<1>20. ASSUME NEW h \in Handlers, InitiateAgain(h) PROVE IInv'
  <2>0. PICK p \in Pays, r \in Refs :
            /\ pay[p].app = req[h].app /\ pay[p].status = "PENDING" /\ issued[r] = None
            /\ issued' = [issued EXCEPT ![r] = p]
            /\ req' = [req EXCEPT ![h].pc = "initAgain", ![h].pay = p, ![h].ref = r]
    BY <1>20 DEF InitiateAgain, PendingOf, Unissued
  <2>0a. RequestOK(h) /\ req[h].app \in Apps /\ req[h].todo \subseteq Apps
    BY <1>20, <1>a DEF IInv, RequestOK, InitiateAgain, At, TypeOK, Request
  <2>1. RequestOK(h)'
    <3>1. \A a \in req[h].todo : PaidJob(JobOf[a])'
      BY <1>a, Frame, <2>0a, PiiUnlockAssumption DEF RequestOK
    <3>2. /\ req'[h].pc = "initAgain" /\ req'[h].pay = p /\ req'[h].ref = r
          /\ req'[h].todo = req[h].todo /\ issued'[r] = p
      BY <1>a, <2>0 DEF TypeOK, Request
    <3> QED
      BY <3>1, <3>2 DEF RequestOK, Settling
  <2>2. \A g \in Handlers : g # h => req'[g] = req[g]
    BY <1>20, <1>a DEF InitiateAgain, TypeOK
  <2>3. RefsOK'
    BY <1>20, <1>a, <2>0, <2>0a, PiiUnlockAssumption DEF InitiateAgain, IInv, RefsOK, TypeOK, PayRow
  <2> QED
    BY <1>20, <1>a, Frame, <2>1, <2>2, <2>3 DEF InitiateAgain, IInv
<1>21. ASSUME NEW h \in Handlers, InitiateInsert(h) PROVE IInv'
  <2>0. PICK p \in Pays, r \in Refs :
            /\ pay[p].status = "NONE" /\ issued[r] = None
            /\ pay' = [pay EXCEPT ![p] = [status |-> "PENDING", app |-> req[h].app,
                                          ref |-> r, code |-> FALSE]]
            /\ issued' = [issued EXCEPT ![r] = p]
            /\ req' = [req EXCEPT ![h].pc = "initNew", ![h].pay = p, ![h].ref = r]
    BY <1>21 DEF InitiateInsert, Unissued
  <2>0a. RequestOK(h) /\ req[h].app \in Apps /\ req[h].todo \subseteq Apps
    BY <1>21, <1>a DEF IInv, RequestOK, InitiateInsert, At, TypeOK, Request
  <2>1. RequestOK(h)'
    <3>1. \A a \in req[h].todo : PaidJob(JobOf[a])'
      BY <1>a, Frame, <2>0a, PiiUnlockAssumption DEF RequestOK
    <3>2. /\ req'[h].pc = "initNew" /\ req'[h].pay = p /\ req'[h].ref = r
          /\ req'[h].todo = req[h].todo /\ issued'[r] = p
      BY <1>a, <2>0 DEF TypeOK, Request
    <3> QED
      BY <3>1, <3>2 DEF RequestOK, Settling
  <2>2. \A g \in Handlers : g # h => req'[g] = req[g]
    BY <1>21, <1>a DEF InitiateInsert, TypeOK
  <2>3. RefsOK'
    <3>1. \A q \in Pays : pay'[q] = IF q = p THEN [status |-> "PENDING", app |-> req[h].app,
                                                   ref |-> r, code |-> FALSE] ELSE pay[q]
      BY <1>a, <2>0 DEF TypeOK
    <3>2. \A x \in Refs : issued'[x] = IF x = r THEN p ELSE issued[x]
      BY <1>a, <2>0 DEF TypeOK
    <3>3. \A q \in Pays : pay[q].ref = None \/ pay[q].ref \in Refs
      BY <1>a DEF TypeOK, PayRow
    <3> QED
      BY <1>a, <2>0, <2>0a, <3>1, <3>2, <3>3, PiiUnlockAssumption DEF IInv, RefsOK, TypeOK
  <2>4. \A q \in Pays : pay'[q].status = "SUCCESS" => pay[q].status = "SUCCESS"
    BY <1>a, <2>0 DEF TypeOK
  <2> QED
    BY <1>21, <1>a, Frame, <2>1, <2>2, <2>3, <2>4 DEF InitiateInsert, IInv
<1>22. ASSUME NEW h \in Handlers, StoreCode(h) PROVE IInv'
  <2>0. /\ req[h].pay \in Pays /\ req[h].ref \in Refs
        /\ issued[req[h].ref] = req[h].pay
    BY <1>22 DEF StoreCode, At, IInv, RequestOK
  <2>1. \A g \in Handlers : req'[g] \in {req[g], NoRequest}
    BY <1>22, <1>a DEF StoreCode, Return, TypeOK
  <2>2. ASSUME NEW q \in Pays
        PROVE  /\ pay'[q].status = pay[q].status
               /\ pay'[q].app = pay[q].app
               /\ \/ pay'[q].ref = pay[q].ref
                  \/ q = req[h].pay /\ pay'[q].ref = req[h].ref
    <3>1. pay[q] \in PayRow
      BY <1>a DEF TypeOK
    <3>2. \/ pay'[q] = pay[q]
          \/ pay'[q] = [pay[q] EXCEPT !.code = TRUE]
          \/ q = req[h].pay /\ pay'[q] = [pay[q] EXCEPT !.ref = req[h].ref, !.code = TRUE]
      BY <1>22, <1>a DEF StoreCode, TypeOK
    <3>3. CASE pay'[q] = [pay[q] EXCEPT !.ref = req[h].ref, !.code = TRUE] /\ q = req[h].pay
      BY <3>1, <3>3 DEF PayRow
    <3>4. CASE pay'[q] = pay[q] \/ pay'[q] = [pay[q] EXCEPT !.code = TRUE]
      <4>1. /\ pay'[q].status = pay[q].status
            /\ pay'[q].app = pay[q].app
            /\ pay'[q].ref = pay[q].ref
        BY <3>1, <3>4 DEF PayRow
      <4> QED
        BY <4>1
    <3> QED
      BY <3>2, <3>3, <3>4
  <2>3. RefsOK'
    BY <1>22, <1>a, <2>0, <2>2 DEF StoreCode, IInv, RefsOK, TypeOK
  <2> QED
    BY <1>22, <1>a, Frame, <2>1, <2>2, <2>3 DEF StoreCode, IInv
<1>23. ASSUME NEW h \in Handlers, VerifyFail(h) PROVE IInv'
  <2>1. \A g \in Handlers : req'[g] \in {req[g], NoRequest}
    BY <1>23, <1>a DEF VerifyFail, Return, TypeOK
  <2>2. \A q \in Pays : /\ pay'[q].status \in {pay[q].status, "FAILED"}
                        /\ pay'[q].app = pay[q].app /\ pay'[q].ref = pay[q].ref
    BY <1>23, <1>a DEF VerifyFail, TypeOK, PayRow
  <2>3. RefsOK'
    BY <1>23, <1>a, <2>2 DEF VerifyFail, IInv, RefsOK, TypeOK
  <2> QED
    BY <1>23, <1>a, Frame, <2>1, <2>2, <2>3 DEF VerifyFail, IInv
<1>24. ASSUME NEW h \in Handlers, SettleMark(h) PROVE IInv'
  <2>0. /\ req[h].pay \in Pays /\ req[h].ref \in Refs
        /\ issued[req[h].ref] = req[h].pay /\ gateway[req[h].ref] = "paid"
    BY <1>24 DEF SettleMark, At, IInv, RequestOK, Settling
  <2>1. RequestOK(h)'
    BY <1>24, <1>a, Forward, <2>0 DEF SettleMark, At, Goto, TypeOK, Paying, Settling
  <2>2. \A g \in Handlers : g # h => req'[g] = req[g]
    BY <1>24, <1>a DEF SettleMark, TypeOK, Goto
  <2>3. ASSUME NEW q \in Pays
        PROVE  /\ \/ pay'[q].status = pay[q].status
                  \/ q = req[h].pay /\ pay'[q].status = "SUCCESS"
               /\ pay'[q].app = pay[q].app /\ pay'[q].ref = pay[q].ref
    <3>1. pay[q] \in PayRow
      BY <1>a DEF TypeOK
    <3>2. \/ pay'[q] = pay[q]
          \/ q = req[h].pay /\ pay'[q] = [pay[q] EXCEPT !.status = "SUCCESS"]
      BY <1>24, <1>a DEF SettleMark, TypeOK
    <3> QED
      BY <3>1, <3>2 DEF PayRow
  <2>4. RefsOK'
    BY <1>24, <1>a, <2>3 DEF SettleMark, IInv, RefsOK, TypeOK
  <2>5. SuccessOnlyIfCharged'
    BY <1>24, <1>a, Frame, <2>0, <2>3 DEF SettleMark, IInv, SuccessOnlyIfCharged, Charged
  <2> QED
    BY <1>24, <1>a, Frame, <2>1, <2>2, <2>4, <2>5 DEF SettleMark, IInv
<1>25. ASSUME NEW h \in Handlers, SettleUnlock(h) PROVE IInv'
  <2>0. /\ req[h].pay \in Pays /\ req[h].ref \in Refs
        /\ issued[req[h].ref] = req[h].pay /\ gateway[req[h].ref] = "paid"
    BY <1>25 DEF SettleUnlock, At, IInv, RequestOK, Settling
  <2>0a. \A a \in JobApps(req[h].pay) : PaidJob(JobOf[a])
    BY <2>0, PiiUnlockAssumption DEF IInv, RefsOK, JobApps, PaidJob, PaidFor, Charged
  <2>1. RequestOK(h)'
    BY <1>25, <1>a, Forward, <2>0 DEF SettleUnlock, At, Goto, TypeOK, Paying, Settling
  <2>2. \A g \in Handlers : g # h => req'[g] = req[g]
    BY <1>25, <1>a DEF SettleUnlock, TypeOK, Goto
  <2>3. \A a \in Apps : /\ app'[a].status = app[a].status
                        /\ app'[a].unlocked => app[a].unlocked \/ PaidJob(JobOf[a])
    BY <1>25, <1>a, <2>0a DEF SettleUnlock, TypeOK, AppRow
  <2>4. UnlockedOnlyIfPaid' /\ ConfirmedOnlyIfPaid'
    BY <1>25, <1>a, Frame, <2>3, PiiUnlockAssumption DEF SettleUnlock, IInv, UnlockedOnlyIfPaid, ConfirmedOnlyIfPaid
  <2> QED
    BY <1>25, <1>a, Frame, <2>1, <2>2, <2>4 DEF SettleUnlock, IInv
<1>26. ASSUME NEW h \in Handlers, SettleScan(h) PROVE IInv'
  <2>0. /\ req[h].pay \in Pays /\ req[h].ref \in Refs
        /\ issued[req[h].ref] = req[h].pay /\ gateway[req[h].ref] = "paid"
    BY <1>26 DEF SettleScan, At, IInv, RequestOK, Settling
  <2>0a. \A a \in JobApps(req[h].pay) : PaidJob(JobOf[a])
    BY <2>0, PiiUnlockAssumption DEF IInv, RefsOK, JobApps, PaidJob, PaidFor, Charged
  <2>1. CASE Finish(h)
    BY <1>26, <1>a, Frame, <2>1 DEF SettleScan, Return, Finish, TypeOK, IInv
  <2>2. CASE ~Finish(h)
    <3>1. /\ req' = [req EXCEPT ![h].pc = "advance", ![h].todo = Accepted(req[h].pay)]
          /\ UNCHANGED hooks
      BY <1>26, <2>2 DEF SettleScan
    <3>2. \A a \in Accepted(req[h].pay) : PaidJob(JobOf[a])
      BY <2>0a DEF Accepted
    <3>3. RequestOK(h)'
      BY <1>26, <1>a, <2>0, <3>1, <3>2, Forward, SMTT(30)
         DEF SettleScan, At, TypeOK, Request, Paying, Settling
    <3>4. \A g \in Handlers : g # h => req'[g] = req[g]
      BY <1>a, <3>1 DEF TypeOK
    <3> QED
      BY <1>26, <1>a, Frame, <3>1, <3>3, <3>4 DEF SettleScan, IInv
  <2> QED
    BY <2>1, <2>2
<1>27. ASSUME NEW h \in Handlers, SettleAdvance(h) PROVE IInv'
  <2>0. /\ req[h].pay \in Pays /\ req[h].ref \in Refs
        /\ issued[req[h].ref] = req[h].pay /\ gateway[req[h].ref] = "paid"
        /\ \A a \in req[h].todo : PaidJob(JobOf[a])
    BY <1>27 DEF SettleAdvance, At, IInv, RequestOK, Settling
  <2>1. RequestOK(h)'
    BY <1>27, <1>a, Forward, <2>0 DEF SettleAdvance, At, Goto, TypeOK, Paying, Settling
  <2>2. \A g \in Handlers : g # h => req'[g] = req[g]
    BY <1>27, <1>a DEF SettleAdvance, TypeOK, Goto
  <2>3. \A a \in Apps : /\ app'[a].unlocked = app[a].unlocked
                        /\ app'[a].status = app[a].status \/ PaidJob(JobOf[a])
    BY <1>27, <1>a, <2>0 DEF SettleAdvance, TypeOK, AppRow
  <2>4. UnlockedOnlyIfPaid' /\ ConfirmedOnlyIfPaid'
    BY <1>27, <1>a, Frame, <2>3, PiiUnlockAssumption DEF SettleAdvance, IInv, UnlockedOnlyIfPaid, ConfirmedOnlyIfPaid
  <2> QED
    BY <1>27, <1>a, Frame, <2>1, <2>2, <2>4 DEF SettleAdvance, IInv
<1>28. ASSUME NEW h \in Handlers, SettleEmit(h) PROVE IInv'
  <2>0. /\ req[h].pay \in Pays /\ req[h].ref \in Refs
        /\ issued[req[h].ref] = req[h].pay /\ gateway[req[h].ref] = "paid"
        /\ \A a \in req[h].todo : PaidJob(JobOf[a])
    BY <1>28 DEF SettleEmit, At, IInv, RequestOK, Settling
  <2>1. PICK b \in req[h].todo :
            /\ Emit(b)
            /\ \/ Finish(h)
               \/ req' = [req EXCEPT ![h].todo = @ \ {b}] /\ UNCHANGED hooks
    BY <1>28 DEF SettleEmit
  <2>2. ConfirmedOnlyIfPaid'
    BY <1>28, <1>a, Frame, <2>0, <2>1, PiiUnlockAssumption DEF SettleEmit, IInv, ConfirmedOnlyIfPaid, Emit
  <2>3. CASE Finish(h)
    BY <1>28, <1>a, Frame, <2>2, <2>3 DEF SettleEmit, Return, Finish, TypeOK, IInv
  <2>4. CASE ~Finish(h)
    <3>1. RequestOK(h)'
      BY <1>28, <1>a, <2>0, <2>1, <2>4, Forward DEF SettleEmit, At, TypeOK, Request, Paying, Settling
    <3>2. \A g \in Handlers : g # h => req'[g] = req[g]
      BY <1>a, <2>1, <2>4 DEF TypeOK
    <3> QED
      BY <1>28, <1>a, Frame, <2>1, <2>2, <2>4, <3>1, <3>2 DEF SettleEmit, IInv
  <2> QED
    BY <2>3, <2>4
<1>29. ASSUME NEW h \in Handlers, EmitOwn(h) PROVE IInv'
  <2>0. req[h].app \in Apps /\ PaidJob(JobOf[req[h].app])
    BY <1>29 DEF EmitOwn, At, IInv, RequestOK
  <2>1. RequestOK(h)'
    BY <1>29, <1>a, Forward, <2>0 DEF EmitOwn, At, Goto, TypeOK, Paying, Settling
  <2>2. \A g \in Handlers : g # h => req'[g] = req[g]
    BY <1>29, <1>a DEF EmitOwn, TypeOK, Goto
  <2>3. ConfirmedOnlyIfPaid'
    BY <1>29, <1>a, Frame, <2>0, PiiUnlockAssumption DEF EmitOwn, IInv, ConfirmedOnlyIfPaid, Emit
  <2> QED
    BY <1>29, <1>a, Frame, <2>1, <2>2, <2>3 DEF EmitOwn, IInv
<1>30. ASSUME NEW h \in Handlers, SaveWrite(h) PROVE IInv'
  <2>0. /\ req[h].app \in Apps /\ req[h].mem \in AppRow /\ req[h].snap \in AppRow
        /\ req[h].mem.unlocked => PaidJob(JobOf[req[h].app])
        /\ (req[h].mem.status = "PAYMENT_COMPLETE" /\ "PAYMENT_COMPLETE" \notin EmployerSets)
              => PaidJob(JobOf[req[h].app])
    BY <1>30 DEF SaveWrite, At, IInv, RequestOK
  <2>1. \A g \in Handlers : req'[g] \in {req[g], NoRequest}
    BY <1>30, <1>a DEF SaveWrite, Return, TypeOK
  <2>2. \A a \in Apps :
            \/ app'[a] = app[a]
            \/ /\ a = req[h].app
               /\ app'[a].status \in {app[a].status, req[h].mem.status}
               /\ app'[a].unlocked \in {app[a].unlocked, req[h].mem.unlocked}
    BY <1>30, <1>a, <2>0, SaveAppRow DEF SaveWrite, TypeOK
  <2>3. UnlockedOnlyIfPaid'
    BY <1>30, <1>a, Frame, <2>0, <2>2, PiiUnlockAssumption DEF SaveWrite, IInv, UnlockedOnlyIfPaid
  <2>4. ConfirmedOnlyIfPaid'
    BY <1>30, <1>a, Frame, <2>0, <2>2, PiiUnlockAssumption DEF SaveWrite, IInv, ConfirmedOnlyIfPaid
  <2> QED
    BY <1>30, <1>a, Frame, <2>1, <2>3, <2>4 DEF SaveWrite, IInv
<1> QED
  BY <1>1, <1>2, <1>3, <1>4, <1>5, <1>6, <1>7, <1>8, <1>9, <1>10,
     <1>11, <1>12, <1>13, <1>14, <1>15, <1>16, <1>17, <1>18, <1>19, <1>20,
     <1>21, <1>22, <1>23, <1>24, <1>25, <1>26, <1>27, <1>28, <1>29, <1>30 DEF Next, Continue

\* The initial states satisfy the invariant.
LEMMA InitInv == Init => IInv
<1> SUFFICES ASSUME Init PROVE IInv
  OBVIOUS
<1> USE PiiUnlockAssumption DEF Init
<1>1. TypeOK
  <2>1. app \in [Apps -> AppRow]
    BY DEF AppRow, Status
  <2>2. pay \in [Pays -> PayRow]
    BY DEF PayRow
  <2>3. req \in [Handlers -> Request]
    BY RequestType
  <2>4. faults \in 0..MaxFaults
    OBVIOUS
  <2> QED
    BY <2>1, <2>2, <2>3, <2>4 DEF TypeOK, GatewayState
<1>2. RefsOK /\ HooksOK
  BY DEF RefsOK, HooksOK
<1>3. \A h \in Handlers : RequestOK(h)
  BY DEF RequestOK, NoRequest, Settling
<1>4. UnlockedOnlyIfPaid /\ SuccessOnlyIfCharged /\ ConfirmedOnlyIfPaid
  BY DEF UnlockedOnlyIfPaid, SuccessOnlyIfCharged, ConfirmedOnlyIfPaid
<1> QED
  BY <1>1, <1>2, <1>3, <1>4 DEF IInv

\* The invariant holds in every reachable state.
THEOREM Invariance == Spec => []IInv
<1>1. IInv /\ UNCHANGED vars => IInv'
  <2> SUFFICES ASSUME IInv, UNCHANGED vars PROVE IInv'
    OBVIOUS
  <2> USE DEF vars
  <2>1. TypeOK' /\ RefsOK' /\ HooksOK'
    BY DEF IInv, TypeOK, RefsOK, HooksOK
  <2>2. \A j : PaidJob(j) => PaidJob(j)'
    BY DEF PaidJob, PaidFor, Charged
  <2>3. \A h \in Handlers : RequestOK(h)'
    BY <2>2 DEF IInv, RequestOK
  <2>4. UnlockedOnlyIfPaid' /\ SuccessOnlyIfCharged' /\ ConfirmedOnlyIfPaid'
    BY <2>2 DEF IInv, UnlockedOnlyIfPaid, SuccessOnlyIfCharged, ConfirmedOnlyIfPaid, Charged
  <2> QED
    BY <2>1, <2>3, <2>4 DEF IInv
<1> QED
  BY InitInv, InvStep, <1>1, PTL DEF Spec

\* The rows, the gateway and the requests in progress keep their types, for
\* any number of each.
THEOREM TypeCorrect == Spec => []TypeOK
<1>1. IInv => TypeOK
  BY DEF IInv
<1> QED
  BY Invariance, <1>1, PTL

\* No interleaving of payment, webhook, verification and status requests, no
\* stale save and no failure unlocks contact details on a job nobody has paid.
THEOREM UnlockedIsPaid == Spec => []UnlockedOnlyIfPaid
<1>1. IInv => UnlockedOnlyIfPaid
  BY DEF IInv
<1> QED
  BY Invariance, <1>1, PTL

\* A payment row becomes SUCCESS only through a charge of one of its own
\* references.
THEOREM SuccessIsCharged == Spec => []SuccessOnlyIfCharged
<1>1. IInv => SuccessOnlyIfCharged
  BY DEF IInv
<1> QED
  BY Invariance, <1>1, PTL

\* A contract is generated, and an application completed, only on a paid job.
THEOREM ConfirmedIsPaid == Spec => []ConfirmedOnlyIfPaid
<1>1. IInv => ConfirmedOnlyIfPaid
  BY DEF IInv
<1> QED
  BY Invariance, <1>1, PTL

-----------------------------------------------------------------------------
\* Refinement of JobGate.

ChargedJobs == {j \in Jobs : PaidJob(j)}
OpenApps == {a \in Apps : app[a].unlocked}

\* A charge shown by no new reference is not a new one.
LEMMA OldCharge ==
    ASSUME IInv, Stable, NEW r \in Refs, NEW p \in Pays, NEW a \in Apps,
           gateway[r] = "paid", issued[r] = p, pay'[p].app = a
    PROVE  PaidJob(JobOf[a])
<1>1. pay[p].app = a
  BY PiiUnlockAssumption DEF IInv, RefsOK, Stable
<1> QED
  BY <1>1 DEF PaidJob, PaidFor, Charged

\* What a step does to the references: nothing, or it changes one of them and
\* no application.
LEMMA ReferenceStep ==
    IInv /\ Next =>
        \/ issued' = issued /\ \A r \in Refs : gateway'[r] = "paid" => gateway[r] = "paid"
        \/ /\ UNCHANGED app
           /\ \E s \in Refs : \A r \in Refs \ {s} :
                 issued'[r] = issued[r] /\ (gateway'[r] = "paid" => gateway[r] = "paid")
<1> DEFINE Old == issued' = issued /\ \A r \in Refs : gateway'[r] = "paid" => gateway[r] = "paid"
           New == /\ UNCHANGED app
                  /\ \E s \in Refs : \A r \in Refs \ {s} :
                        issued'[r] = issued[r] /\ (gateway'[r] = "paid" => gateway[r] = "paid")
<1> SUFFICES ASSUME TypeOK, Next PROVE Old \/ New
  BY DEF IInv
<1> USE DEF TypeOK
<1>1. ASSUME NEW a \in Apps, Apply(a) PROVE Old
  BY <1>1 DEF Apply
<1>2. ASSUME NEW r \in Refs, Charge(r) PROVE New
  BY <1>2 DEF Charge
<1>3. ASSUME NEW r \in Refs, WebhookUnknown(r) PROVE Old
  BY <1>3 DEF WebhookUnknown
<1>4. ASSUME NEW h \in Handlers, NEW r \in Refs, WebhookFind(h, r) PROVE Old
  BY <1>4 DEF WebhookFind
<1>5. ASSUME NEW h \in Handlers, NEW r \in Refs, VerifyFind(h, r) PROVE Old
  BY <1>5 DEF VerifyFind
<1>6. ASSUME NEW h \in Handlers, NEW a \in Apps, InitiateLoad(h, a) PROVE Old
  BY <1>6 DEF InitiateLoad
<1>7. ASSUME NEW h \in Handlers, NEW a \in Apps, SetStatus(h, a) PROVE Old
  BY <1>7 DEF SetStatus, Edit
<1>8. ASSUME NEW h \in Handlers, NEW a \in Apps, AcceptOffer(h, a) PROVE Old
  BY <1>8 DEF AcceptOffer, Edit
<1>9. ASSUME NEW h \in Handlers, NEW a \in Apps, DeclineOffer(h, a) PROVE Old
  BY <1>9 DEF DeclineOffer, Edit
<1>10. ASSUME NEW h \in Handlers, NEW a \in Apps, Withdraw(h, a) PROVE Old
  BY <1>10 DEF Withdraw, Edit
<1>11. ASSUME NEW h \in Handlers, InitiateReuse(h) PROVE Old
  BY <1>11 DEF InitiateReuse, Show
<1>12. ASSUME NEW h \in Handlers, InitiateAgain(h) PROVE New
  BY <1>12 DEF InitiateAgain, Unissued
<1>13. ASSUME NEW h \in Handlers, InitiateNew(h) PROVE Old
  BY <1>13 DEF InitiateNew
<1>14. ASSUME NEW h \in Handlers, InitiateInsert(h) PROVE New
  BY <1>14 DEF InitiateInsert, Unissued
<1>15. ASSUME NEW h \in Handlers, InitializeOk(h) PROVE Old
  BY <1>15 DEF InitializeOk
<1>16. ASSUME NEW h \in Handlers, InitializeThrows(h) PROVE Old
  BY <1>16 DEF InitializeThrows
<1>17. ASSUME NEW h \in Handlers, StoreCode(h) PROVE Old
  BY <1>17 DEF StoreCode, Show
<1>18. ASSUME NEW h \in Handlers, VerifyAsk(h) PROVE Old
  BY <1>18 DEF VerifyAsk
<1>19. ASSUME NEW h \in Handlers, VerifyFail(h) PROVE Old
  BY <1>19 DEF VerifyFail
<1>20. ASSUME NEW h \in Handlers, SettleLoad(h) PROVE Old
  BY <1>20 DEF SettleLoad
<1>21. ASSUME NEW h \in Handlers, SettleMark(h) PROVE Old
  BY <1>21 DEF SettleMark
<1>22. ASSUME NEW h \in Handlers, SettleUnlock(h) PROVE Old
  BY <1>22 DEF SettleUnlock
<1>23. ASSUME NEW h \in Handlers, SettleScan(h) PROVE Old
  BY <1>23 DEF SettleScan
<1>24. ASSUME NEW h \in Handlers, SettleAdvance(h) PROVE Old
  BY <1>24 DEF SettleAdvance
<1>25. ASSUME NEW h \in Handlers, SettleEmit(h) PROVE Old
  BY <1>25 DEF SettleEmit
<1>26. ASSUME NEW h \in Handlers, EmitOwn(h) PROVE Old
  BY <1>26 DEF EmitOwn
<1>27. ASSUME NEW h \in Handlers, SaveReload(h) PROVE Old
  BY <1>27 DEF SaveReload
<1>28. ASSUME NEW h \in Handlers, SaveWrite(h) PROVE Old
  BY <1>28 DEF SaveWrite
<1>29. ASSUME NEW h \in Handlers, Abort(h) PROVE Old
  BY <1>29 DEF Abort
<1>30. CASE Crash
  BY <1>30 DEF Crash
<1> QED
  BY <1>1, <1>2, <1>3, <1>4, <1>5, <1>6, <1>7, <1>8, <1>9, <1>10,
     <1>11, <1>12, <1>13, <1>14, <1>15, <1>16, <1>17, <1>18, <1>19, <1>20,
     <1>21, <1>22, <1>23, <1>24, <1>25, <1>26, <1>27, <1>28, <1>29, <1>30 DEF Next, Continue

\* What a step does to the unlocked applications: it opens some, or locks one.
LEMMA OpenStep ==
    IInv /\ Next =>
        \/ OpenApps \subseteq OpenApps'
        \/ \E a \in Apps : OpenApps' = OpenApps \ {a}
<1> DEFINE Kept == \/ OpenApps \subseteq OpenApps'
                   \/ \E a \in Apps : OpenApps' = OpenApps \ {a}
<1> SUFFICES ASSUME IInv, TypeOK, Next PROVE Kept
  BY DEF IInv
<1> USE DEF TypeOK, OpenApps, AppRow
<1>1. ASSUME NEW a \in Apps, Apply(a) PROVE Kept
  BY <1>1 DEF Apply
<1>2. ASSUME NEW r \in Refs, Charge(r) PROVE Kept
  BY <1>2 DEF Charge
<1>3. ASSUME NEW r \in Refs, WebhookUnknown(r) PROVE Kept
  BY <1>3 DEF WebhookUnknown
<1>4. ASSUME NEW h \in Handlers, NEW r \in Refs, WebhookFind(h, r) PROVE Kept
  BY <1>4 DEF WebhookFind
<1>5. ASSUME NEW h \in Handlers, NEW r \in Refs, VerifyFind(h, r) PROVE Kept
  BY <1>5 DEF VerifyFind
<1>6. ASSUME NEW h \in Handlers, NEW a \in Apps, InitiateLoad(h, a) PROVE Kept
  BY <1>6 DEF InitiateLoad
<1>7. ASSUME NEW h \in Handlers, NEW a \in Apps, SetStatus(h, a) PROVE Kept
  BY <1>7 DEF SetStatus, Edit
<1>8. ASSUME NEW h \in Handlers, NEW a \in Apps, AcceptOffer(h, a) PROVE Kept
  BY <1>8 DEF AcceptOffer, Edit
<1>9. ASSUME NEW h \in Handlers, NEW a \in Apps, DeclineOffer(h, a) PROVE Kept
  BY <1>9 DEF DeclineOffer, Edit
<1>10. ASSUME NEW h \in Handlers, NEW a \in Apps, Withdraw(h, a) PROVE Kept
  BY <1>10 DEF Withdraw, Edit
<1>11. ASSUME NEW h \in Handlers, InitiateReuse(h) PROVE Kept
  BY <1>11 DEF InitiateReuse
<1>12. ASSUME NEW h \in Handlers, InitiateAgain(h) PROVE Kept
  BY <1>12 DEF InitiateAgain
<1>13. ASSUME NEW h \in Handlers, InitiateNew(h) PROVE Kept
  BY <1>13 DEF InitiateNew
<1>14. ASSUME NEW h \in Handlers, InitiateInsert(h) PROVE Kept
  BY <1>14 DEF InitiateInsert
<1>15. ASSUME NEW h \in Handlers, InitializeOk(h) PROVE Kept
  BY <1>15 DEF InitializeOk
<1>16. ASSUME NEW h \in Handlers, InitializeThrows(h) PROVE Kept
  BY <1>16 DEF InitializeThrows
<1>17. ASSUME NEW h \in Handlers, StoreCode(h) PROVE Kept
  BY <1>17 DEF StoreCode
<1>18. ASSUME NEW h \in Handlers, VerifyAsk(h) PROVE Kept
  BY <1>18 DEF VerifyAsk
<1>19. ASSUME NEW h \in Handlers, VerifyFail(h) PROVE Kept
  BY <1>19 DEF VerifyFail
<1>20. ASSUME NEW h \in Handlers, SettleLoad(h) PROVE Kept
  BY <1>20 DEF SettleLoad
<1>21. ASSUME NEW h \in Handlers, SettleMark(h) PROVE Kept
  BY <1>21 DEF SettleMark
<1>22. ASSUME NEW h \in Handlers, SettleUnlock(h) PROVE Kept
  BY <1>22 DEF SettleUnlock
<1>23. ASSUME NEW h \in Handlers, SettleScan(h) PROVE Kept
  BY <1>23 DEF SettleScan
<1>24. ASSUME NEW h \in Handlers, SettleAdvance(h) PROVE Kept
  BY <1>24 DEF SettleAdvance
<1>25. ASSUME NEW h \in Handlers, SettleEmit(h) PROVE Kept
  BY <1>25 DEF SettleEmit
<1>26. ASSUME NEW h \in Handlers, EmitOwn(h) PROVE Kept
  BY <1>26 DEF EmitOwn
<1>27. ASSUME NEW h \in Handlers, SaveReload(h) PROVE Kept
  BY <1>27 DEF SaveReload
<1>28. ASSUME NEW h \in Handlers, SaveWrite(h) PROVE Kept

  <2>1. req[h].app \in Apps
    BY <1>28 DEF SaveWrite, At, IInv, RequestOK
  <2>2. \A a \in Apps \ {req[h].app} : app'[a] = app[a]
    BY <1>28 DEF SaveWrite
  <2> QED
    BY <2>1, <2>2
<1>29. ASSUME NEW h \in Handlers, Abort(h) PROVE Kept
  BY <1>29 DEF Abort
<1>30. CASE Crash
  BY <1>30 DEF Crash
<1> QED
  BY <1>1, <1>2, <1>3, <1>4, <1>5, <1>6, <1>7, <1>8, <1>9, <1>10,
     <1>11, <1>12, <1>13, <1>14, <1>15, <1>16, <1>17, <1>18, <1>19, <1>20,
     <1>21, <1>22, <1>23, <1>24, <1>25, <1>26, <1>27, <1>28, <1>29, <1>30 DEF Next, Continue

\* The payment flow implements the abstract gate, for all values of the
\* constants: what is shown to employers has been paid for.
THEOREM GateImplemented == Spec => ImplementsGate
<1>1. Init => Gate!Init
  <2> SUFFICES ASSUME Init PROVE ChargedJobs = {} /\ OpenApps = {}
    BY DEF Gate!Init, ChargedJobs, OpenApps
  <2> QED
    BY DEF Init, ChargedJobs, OpenApps, PaidJob, PaidFor, Charged
<1>2. ASSUME IInv, IInv', Next PROVE Gate!Next \/ UNCHANGED Gate!vars
  <2>1. TypeOK /\ TypeOK' /\ Stable
    BY <1>2, StableStep DEF IInv
  <2>2. ChargedJobs \subseteq ChargedJobs'
    BY <1>2, <2>1, Frame DEF ChargedJobs
  <2>3. CASE issued' = issued /\ \A r \in Refs : gateway'[r] = "paid" => gateway[r] = "paid"
    <3>1. ASSUME NEW j \in Jobs, PaidJob(j)' PROVE PaidJob(j)
      <4>1. PICK a \in Apps, p \in Pays, r \in Refs :
                JobOf[a] = j /\ pay'[p].app = a /\ gateway'[r] = "paid" /\ issued'[r] = p
        BY <3>1 DEF PaidJob, PaidFor, Charged
      <4> QED
        BY <1>2, <2>1, <2>3, <4>1, OldCharge
    <3>2. ChargedJobs' = ChargedJobs
      BY <2>2, <3>1 DEF ChargedJobs
    <3>3. \A a \in OpenApps' : JobOf[a] \in ChargedJobs
      BY <1>2, <3>2, PiiUnlockAssumption DEF IInv, UnlockedOnlyIfPaid, OpenApps, ChargedJobs
    <3>4. CASE OpenApps \subseteq OpenApps'
      <4>1. PICK S \in SUBSET Apps : S = OpenApps'
        BY DEF OpenApps
      <4>2. Gate!Open(S)
        BY <3>2, <3>3, <3>4, <4>1 DEF Gate!Open, OpenApps, ChargedJobs
      <4> QED
        BY <4>2 DEF Gate!Next
    <3>5. CASE \E a \in Apps : OpenApps' = OpenApps \ {a}
      BY <3>2, <3>5 DEF Gate!Next, Gate!Close, OpenApps, ChargedJobs
    <3> QED
      BY <1>2, <3>4, <3>5, OpenStep
  <2>4. CASE /\ UNCHANGED app
             /\ \E s \in Refs : \A r \in Refs \ {s} :
                   issued'[r] = issued[r] /\ (gateway'[r] = "paid" => gateway[r] = "paid")
    <3>1. PICK s \in Refs : \A r \in Refs \ {s} :
              issued'[r] = issued[r] /\ (gateway'[r] = "paid" => gateway[r] = "paid")
      BY <2>4
    <3>2. ASSUME NEW j \in Jobs, PaidJob(j)'
          PROVE  PaidJob(j) \/ j = JobOf[pay'[issued'[s]].app]
      <4>1. PICK a \in Apps, p \in Pays, r \in Refs :
                JobOf[a] = j /\ pay'[p].app = a /\ gateway'[r] = "paid" /\ issued'[r] = p
        BY <3>2 DEF PaidJob, PaidFor, Charged
      <4> QED
        BY <1>2, <2>1, <3>1, <4>1, OldCharge
    <3>3. OpenApps' = OpenApps
      BY <2>4 DEF OpenApps
    <3>4. CASE ChargedJobs' = ChargedJobs
      BY <3>3, <3>4 DEF Gate!vars, ChargedJobs, OpenApps
    <3>5. CASE ChargedJobs' # ChargedJobs
      <4>1. PICK j \in Jobs : j \in ChargedJobs' /\ j \notin ChargedJobs
        BY <2>2, <3>5 DEF ChargedJobs
      <4>2. j = JobOf[pay'[issued'[s]].app]
        BY <3>2, <4>1 DEF ChargedJobs
      <4>3. ChargedJobs' = ChargedJobs \union {j}
        BY <2>2, <3>2, <4>1, <4>2 DEF ChargedJobs
      <4> QED
        BY <3>3, <4>3 DEF Gate!Next, Gate!Charge, ChargedJobs, OpenApps
    <3> QED
      BY <3>4, <3>5
  <2> QED
    BY <1>2, <2>3, <2>4, ReferenceStep
<1>3. UNCHANGED vars => UNCHANGED Gate!vars
  BY DEF vars, Gate!vars, PaidJob, PaidFor, Charged
<1> QED
  BY <1>1, <1>2, <1>3, Invariance, PTL DEF Spec, ImplementsGate, Gate!Spec

-----------------------------------------------------------------------------
\* A settled payment is an open application, while no application is edited
\* across the unlock of its job.

\* What a request may do without disturbing OpenIInv: stay where it is, or move
\* on from another step than an unlock, to one of which the invariant holds.
Harmless(g) ==
    \/ req'[g] = req[g]
    \/ /\ At(g, "unlock") => faults' # 0
       /\ EditOK(g)'
       /\ req'[g].pc \in {"findPending", "insert"} => Exists(req[g].app)'

\* What a step may do to the rows: a payment becomes SUCCESS only if a request
\* is then about to unlock for it.
RowsKept ==
    /\ \A a \in Apps : /\ app[a].status # "NONE" => app'[a].status # "NONE"
                       /\ app'[a].unlocked = app[a].unlocked
    /\ \A p \in Pays : pay'[p].status # "NONE" =>
          \/ pay[p].status # "NONE"
          \/ pay'[p].app \in Apps /\ Exists(pay[p].app)'
    /\ \A p \in Pays : pay'[p].status = "SUCCESS" =>
          \/ pay[p].status = "SUCCESS"
          \/ \E g \in Handlers : At(g, "unlock")' /\ req'[g].pay = p
    /\ faults' = 0 => faults = 0

\* Every step but the unlock preserves OpenIInv in this way.
LEMMA OpenKept ==
    ASSUME IInv, OpenIInv, Stable, RowsKept, \A g \in Handlers : Harmless(g)
    PROVE  OpenIInv'
<1>1. PaysExisting'
  <2>1. ASSUME NEW p \in Pays, pay'[p].status # "NONE"
        PROVE  pay'[p].app \in Apps /\ Exists(pay[p].app)'
    <3>1. CASE pay[p].status # "NONE"
      <4>1. pay'[p].app = pay[p].app /\ pay[p].app \in Apps /\ Exists(pay[p].app)
        BY <3>1 DEF Stable, OpenIInv, PaysExisting
      <4> QED
        BY <4>1 DEF RowsKept, Exists
    <3> QED
      BY <2>1, <3>1 DEF RowsKept
  <2>2. ASSUME NEW g \in Handlers, req'[g].pc \in {"findPending", "insert"}
        PROVE  Exists(req[g].app)'
    <3>1. CASE req'[g] = req[g]
      <4>1. req[g].app \in Apps /\ Exists(req[g].app)
        BY <2>2, <3>1 DEF IInv, RequestOK, OpenIInv, PaysExisting
      <4> QED
        BY <3>1, <4>1 DEF RowsKept, Exists
    <3> QED
      BY <2>2, <3>1 DEF Harmless
  <2> QED
    BY <2>1, <2>2 DEF PaysExisting
<1>2. ASSUME NEW g \in Handlers PROVE EditOK(g)'
  <2>1. CASE req'[g] = req[g] /\ req[g].pc \in {"emitOwn", "reload", "write"}
    <3>1. req[g].app \in Apps /\ EditOK(g)
      BY <2>1 DEF IInv, RequestOK, OpenIInv
    <3> QED
      BY <2>1, <3>1 DEF EditOK, RowsKept, Exists
  <2>2. CASE req'[g] = req[g] /\ req[g].pc \notin {"emitOwn", "reload", "write"}
    BY <2>2 DEF EditOK
  <2> QED
    BY <2>1, <2>2 DEF Harmless
<1>3. OpenOrOpening'
  <2> SUFFICES ASSUME faults' = 0, NEW p \in Pays, pay'[p].status = "SUCCESS"
               PROVE  \/ app'[pay'[p].app].unlocked
                      \/ \E g \in Handlers : At(g, "unlock")' /\ req'[g].pay = p
    BY DEF OpenOrOpening
  <2>1. CASE pay[p].status = "SUCCESS"
    <3>1. pay'[p].app = pay[p].app /\ pay[p].app \in Apps
      BY <2>1 DEF Stable, OpenIInv, PaysExisting
    <3>2. CASE app[pay[p].app].unlocked
      BY <3>1, <3>2 DEF RowsKept
    <3>3. ASSUME NEW g \in Handlers, At(g, "unlock"), req[g].pay = p
          PROVE  At(g, "unlock")' /\ req'[g].pay = p
      BY <3>3 DEF Harmless, At
    <3> QED
      BY <2>1, <3>2, <3>3 DEF OpenIInv, OpenOrOpening, RowsKept
  <2> QED
    BY <2>1 DEF RowsKept
<1> QED
  BY <1>1, <1>2, <1>3 DEF OpenIInv

\* A handler that loads an application remembers its piiUnlocked.
LEMMA EditKeeps ==
    ASSUME TypeOK, NEW h \in Handlers, NEW a \in Apps, NEW s \in Status \ {"NONE"},
           NEW pc \in {"emitOwn", "reload"}, Exists(a), Edit(h, a, pc, s)
    PROVE  RowsKept /\ \A g \in Handlers : Harmless(g)
<1>1. RowsKept
  BY DEF Edit, RowsKept
<1>2. \A g \in Handlers \ {h} : req'[g] = req[g]
  BY DEF Edit, Start, TypeOK
<1>3. req'[h] = [NoRequest EXCEPT !.op = "edit", !.pc = pc, !.app = a,
                                  !.mem = [app[a] EXCEPT !.status = s]]
  BY DEF Edit, Start, TypeOK
<1>4. /\ req'[h].op = "edit" /\ req'[h].pc = pc /\ req'[h].app = a
      /\ req'[h].mem = [app[a] EXCEPT !.status = s]
  BY <1>3 DEF NoRequest
<1>5. req'[h].mem.status = s /\ req'[h].mem.unlocked = app[a].unlocked
  BY <1>4 DEF TypeOK, AppRow
<1>6. EditOK(h)'
  BY <1>4, <1>5 DEF EditOK, Exists, Edit
<1>7. Harmless(h)
  BY <1>4, <1>6 DEF Harmless, Edit, Start, At
<1> QED
  BY <1>1, <1>2, <1>7 DEF Harmless

\* A request that goes to, or comes from, steps where nothing is edited.
LEMMA OnlyMoves ==
    ASSUME NEW h \in Handlers,
           \A g \in Handlers : g # h => req'[g] = req[g],
           At(h, "unlock") => faults' # 0,
           req'[h].pc \in Paying \union {"idle"}
    PROVE  \A g \in Handlers : Harmless(g)
BY DEF Harmless, EditOK, Paying, Settling

-----------------------------------------------------------------------------
\* Every step preserves OpenIInv while EditsApart.
LEMMA OpenStepInv == IInv /\ OpenIInv /\ EditsApart /\ Next => OpenIInv'
<1> SUFFICES ASSUME IInv, OpenIInv, EditsApart, Next PROVE OpenIInv'
  OBVIOUS
<1> DEFINE Kept == RowsKept /\ \A g \in Handlers : Harmless(g)
<1>a. TypeOK /\ TypeOK' /\ Stable
  BY TypeStep, StableStep DEF IInv
<1>b. Kept => OpenIInv'
  BY <1>a, OpenKept
<1>1. ASSUME NEW a \in Apps, Apply(a) PROVE Kept
  BY <1>1, <1>a DEF Apply, RowsKept, Harmless, TypeOK, AppRow
<1>2. ASSUME NEW r \in Refs, Charge(r) PROVE Kept
  BY <1>2 DEF Charge, RowsKept, Harmless
<1>3. ASSUME NEW r \in Refs, WebhookUnknown(r) PROVE Kept
  BY <1>3 DEF WebhookUnknown, RowsKept, Harmless
<1>4. ASSUME NEW h \in Handlers, NEW r \in Refs, WebhookFind(h, r) PROVE Kept
  <2>1. \A g \in Handlers : g # h => req'[g] = req[g]
    BY <1>4, <1>a DEF WebhookFind, Start, TypeOK
  <2>2. ~At(h, "unlock") /\ req'[h].pc \in Paying \union {"idle"}
    BY <1>4, <1>a DEF WebhookFind, Start, NoRequest, At, TypeOK, Paying, Settling
  <2>3. RowsKept
    BY <1>4, <1>a DEF WebhookFind, RowsKept
  <2> QED
    BY <2>1, <2>2, <2>3, OnlyMoves
<1>5. ASSUME NEW h \in Handlers, NEW r \in Refs, VerifyFind(h, r) PROVE Kept
  <2>1. \A g \in Handlers : g # h => req'[g] = req[g]
    BY <1>5, <1>a DEF VerifyFind, Start, TypeOK
  <2>2. ~At(h, "unlock") /\ req'[h].pc \in Paying \union {"idle"}
    BY <1>5, <1>a DEF VerifyFind, Start, NoRequest, At, TypeOK, Paying, Settling
  <2>3. RowsKept
    BY <1>5, <1>a DEF VerifyFind, RowsKept
  <2> QED
    BY <2>1, <2>2, <2>3, OnlyMoves
<1>6. ASSUME NEW h \in Handlers, NEW a \in Apps, InitiateLoad(h, a) PROVE Kept
  <2>1. \A g \in Handlers : g # h => req'[g] = req[g]
    BY <1>6, <1>a DEF InitiateLoad, Start, TypeOK
  <2>2. /\ ~At(h, "unlock") /\ req'[h].pc = "findPending" /\ req'[h].app = a
        /\ Exists(a)'
    BY <1>6, <1>a DEF InitiateLoad, Start, NoRequest, At, TypeOK, Exists
  <2>3. EditOK(h)'
    BY <2>2 DEF EditOK
  <2>4. RowsKept
    BY <1>6 DEF InitiateLoad, RowsKept
  <2> QED
    BY <2>1, <2>2, <2>3, <2>4 DEF Harmless
<1>7. ASSUME NEW h \in Handlers, NEW a \in Apps, SetStatus(h, a) PROVE Kept
  <2>1. Exists(a) /\ \E s \in Status \ {"NONE"} : Edit(h, a, "reload", s)
    BY <1>7, PiiUnlockAssumption DEF SetStatus
  <2> QED
    BY <2>1, <1>a, EditKeeps
<1>8. ASSUME NEW h \in Handlers, NEW a \in Apps, AcceptOffer(h, a) PROVE Kept
  <2>1. /\ Exists(a)
        /\ \E s \in Status \ {"NONE"}, pc \in {"emitOwn", "reload"} : Edit(h, a, pc, s)
    BY <1>8 DEF AcceptOffer, Exists, Status
  <2> QED
    BY <2>1, <1>a, EditKeeps
<1>9. ASSUME NEW h \in Handlers, NEW a \in Apps, DeclineOffer(h, a) PROVE Kept
  <2>1. /\ Exists(a)
        /\ \E s \in Status \ {"NONE"}, pc \in {"emitOwn", "reload"} : Edit(h, a, pc, s)
    BY <1>9 DEF DeclineOffer, Exists, Status
  <2> QED
    BY <2>1, <1>a, EditKeeps
<1>10. ASSUME NEW h \in Handlers, NEW a \in Apps, Withdraw(h, a) PROVE Kept
  <2>1. /\ Exists(a)
        /\ \E s \in Status \ {"NONE"}, pc \in {"emitOwn", "reload"} : Edit(h, a, pc, s)
    BY <1>10 DEF Withdraw, Exists, Status
  <2> QED
    BY <2>1, <1>a, EditKeeps
<1>11. ASSUME NEW h \in Handlers, InitiateReuse(h) PROVE Kept
  <2>1. \A g \in Handlers : g # h => req'[g] = req[g]
    BY <1>11, <1>a DEF InitiateReuse, Return, TypeOK
  <2>2. ~At(h, "unlock") /\ req'[h].pc \in Paying \union {"idle"}
    BY <1>11, <1>a DEF InitiateReuse, Return, NoRequest, At, TypeOK, Paying, Settling
  <2>3. RowsKept
    BY <1>11, <1>a DEF InitiateReuse, RowsKept
  <2> QED
    BY <2>1, <2>2, <2>3, OnlyMoves
<1>12. ASSUME NEW h \in Handlers, InitiateAgain(h) PROVE Kept
  <2>1. \A g \in Handlers : g # h => req'[g] = req[g]
    BY <1>12, <1>a DEF InitiateAgain, PendingOf, Unissued, TypeOK
  <2>2. ~At(h, "unlock") /\ req'[h].pc \in Paying \union {"idle"}
    BY <1>12, <1>a DEF InitiateAgain, NoRequest, At, TypeOK, Paying, Settling, Request, PendingOf, Unissued
  <2>3. RowsKept
    BY <1>12, <1>a DEF InitiateAgain, RowsKept
  <2> QED
    BY <2>1, <2>2, <2>3, OnlyMoves
<1>13. ASSUME NEW h \in Handlers, InitiateNew(h) PROVE Kept
  <2>1. \A g \in Handlers : g # h => req'[g] = req[g]
    BY <1>13, <1>a DEF InitiateNew, Goto, TypeOK
  <2>2. /\ At(h, "findPending") /\ req'[h].pc = "insert" /\ req'[h].app = req[h].app
    BY <1>13, <1>a DEF InitiateNew, Goto, At, TypeOK, Request
  <2>3. Exists(req[h].app) /\ UNCHANGED app
    BY <1>13, <2>2 DEF InitiateNew, At, OpenIInv, PaysExisting
  <2>4. EditOK(h)'
    BY <2>2 DEF EditOK
  <2>5. Harmless(h)
    BY <2>2, <2>3, <2>4 DEF Harmless, At, Exists
  <2>6. RowsKept
    BY <1>13 DEF InitiateNew, RowsKept
  <2> QED
    BY <2>1, <2>5, <2>6 DEF Harmless
<1>14. ASSUME NEW h \in Handlers, InitiateInsert(h) PROVE Kept
  <2>1. \A g \in Handlers : g # h => req'[g] = req[g]
    BY <1>14, <1>a DEF InitiateInsert, Unissued, TypeOK
  <2>2. ~At(h, "unlock") /\ req'[h].pc \in Paying \union {"idle"}
    BY <1>14, <1>a DEF InitiateInsert, At, TypeOK, Request, Unissued, Paying
  <2>3. req[h].app \in Apps /\ Exists(req[h].app) /\ UNCHANGED <<app, faults>>
    BY <1>14 DEF InitiateInsert, At, IInv, RequestOK, OpenIInv, PaysExisting
  <2>4. PICK p \in Pays, ref \in Refs :
            pay' = [pay EXCEPT ![p] = [status |-> "PENDING", app |-> req[h].app,
                                       ref |-> ref, code |-> FALSE]]
    BY <1>14 DEF InitiateInsert, Unissued
  <2>5. \A q \in Pays : \/ pay'[q] = pay[q]
                        \/ pay'[q].status = "PENDING" /\ pay'[q].app = req[h].app
    BY <2>4, <1>a DEF TypeOK
  <2>6. RowsKept
    BY <2>3, <2>5 DEF RowsKept, Exists
  <2> QED
    BY <2>1, <2>2, <2>6, OnlyMoves
<1>15. ASSUME NEW h \in Handlers, InitializeOk(h) PROVE Kept
  <2>1. \A g \in Handlers : g # h => req'[g] = req[g]
    BY <1>15, <1>a DEF InitializeOk, Goto, TypeOK
  <2>2. ~At(h, "unlock") /\ req'[h].pc \in Paying \union {"idle"}
    BY <1>15, <1>a DEF InitializeOk, Goto, Request, NoRequest, At, TypeOK, Paying, Settling
  <2>3. RowsKept
    BY <1>15, <1>a DEF InitializeOk, RowsKept
  <2> QED
    BY <2>1, <2>2, <2>3, OnlyMoves
<1>16. ASSUME NEW h \in Handlers, InitializeThrows(h) PROVE Kept
  <2>1. \A g \in Handlers : g # h => req'[g] = req[g]
    BY <1>16, <1>a DEF InitializeThrows, Return, TypeOK
  <2>2. ~At(h, "unlock") /\ req'[h].pc \in Paying \union {"idle"}
    BY <1>16, <1>a DEF InitializeThrows, Return, NoRequest, At, TypeOK, Paying, Settling
  <2>3. RowsKept
    BY <1>16, <1>a DEF InitializeThrows, RowsKept
  <2> QED
    BY <2>1, <2>2, <2>3, OnlyMoves
<1>17. ASSUME NEW h \in Handlers, StoreCode(h) PROVE Kept
  <2>1. \A g \in Handlers : g # h => req'[g] = req[g]
    BY <1>17, <1>a DEF StoreCode, Return, TypeOK
  <2>2. ~At(h, "unlock") /\ req'[h].pc \in Paying \union {"idle"}
    BY <1>17, <1>a DEF StoreCode, Return, NoRequest, At, TypeOK, Paying, Settling
  <2>3. \A p \in Pays : pay'[p].status = pay[p].status
    <3>1. \A p \in Pays : \/ pay'[p] = pay[p]
                          \/ pay'[p] = [pay[p] EXCEPT !.code = TRUE]
                          \/ pay'[p] = [pay[p] EXCEPT !.ref = req[h].ref, !.code = TRUE]
      BY <1>17, <1>a DEF StoreCode, TypeOK
    <3>2. \A p \in Pays : pay[p] \in PayRow
      BY <1>a DEF TypeOK
    <3>3. ASSUME NEW p \in Pays, pay'[p] = [pay[p] EXCEPT !.code = TRUE]
          PROVE  pay'[p].status = pay[p].status
      BY <3>2, <3>3 DEF PayRow
    <3>4. ASSUME NEW p \in Pays, pay'[p] = [pay[p] EXCEPT !.ref = req[h].ref, !.code = TRUE]
          PROVE  pay'[p].status = pay[p].status
      BY <3>2, <3>4 DEF PayRow
    <3> QED
      BY <3>1, <3>3, <3>4
  <2>4. RowsKept
    BY <1>17, <2>3 DEF StoreCode, RowsKept
  <2> QED
    BY <2>1, <2>2, <2>4, OnlyMoves
<1>18. ASSUME NEW h \in Handlers, VerifyAsk(h) PROVE Kept
  <2>1. \A g \in Handlers : g # h => req'[g] = req[g]
    BY <1>18, <1>a DEF VerifyAsk, Goto, Return, TypeOK
  <2>2. ~At(h, "unlock") /\ req'[h].pc \in Paying \union {"idle"}
    BY <1>18, <1>a DEF VerifyAsk, Goto, Return, Request, NoRequest, At, TypeOK, Paying, Settling
  <2>3. RowsKept
    BY <1>18, <1>a DEF VerifyAsk, RowsKept
  <2> QED
    BY <2>1, <2>2, <2>3, OnlyMoves
<1>19. ASSUME NEW h \in Handlers, VerifyFail(h) PROVE Kept
  <2>1. \A g \in Handlers : g # h => req'[g] = req[g]
    BY <1>19, <1>a DEF VerifyFail, Return, TypeOK
  <2>2. ~At(h, "unlock") /\ req'[h].pc \in Paying \union {"idle"}
    BY <1>19, <1>a DEF VerifyFail, Return, NoRequest, At, TypeOK, Paying, Settling
  <2>3. pay[req[h].pay].status # "NONE"
    BY <1>19, PiiUnlockAssumption DEF VerifyFail, At, IInv, RequestOK, RefsOK
  <2>4. RowsKept
    BY <1>19, <1>a, <2>3 DEF VerifyFail, RowsKept, TypeOK, PayRow
  <2> QED
    BY <2>1, <2>2, <2>4, OnlyMoves
<1>20. ASSUME NEW h \in Handlers, SettleLoad(h) PROVE Kept
  <2>1. \A g \in Handlers : g # h => req'[g] = req[g]
    BY <1>20, <1>a DEF SettleLoad, Goto, Finish, Return, TypeOK
  <2>2. ~At(h, "unlock") /\ req'[h].pc \in Paying \union {"idle"}
    BY <1>20, <1>a DEF SettleLoad, Goto, Finish, Return, Request, NoRequest, At, TypeOK, Paying, Settling
  <2>3. RowsKept
    BY <1>20, <1>a DEF SettleLoad, RowsKept
  <2> QED
    BY <2>1, <2>2, <2>3, OnlyMoves
<1>21. ASSUME NEW h \in Handlers, SettleMark(h) PROVE Kept
  <2>1. \A g \in Handlers : g # h => req'[g] = req[g]
    BY <1>21, <1>a DEF SettleMark, Goto, TypeOK
  <2>2. ~At(h, "unlock") /\ req'[h].pc \in Paying \union {"idle"}
    BY <1>21, <1>a DEF SettleMark, Goto, Request, NoRequest, At, TypeOK, Paying, Settling
  <2>3. pay[req[h].pay].status # "NONE"
    BY <1>21, PiiUnlockAssumption DEF SettleMark, At, IInv, RequestOK, RefsOK, Settling
  <2>4. At(h, "unlock")' /\ req'[h].pay = req[h].pay
    BY <1>21, <1>a DEF SettleMark, Goto, At, TypeOK, Request
  <2>5. RowsKept
    BY <1>21, <1>a, <2>3, <2>4 DEF SettleMark, RowsKept, TypeOK, PayRow
  <2> QED
    BY <2>1, <2>2, <2>5, OnlyMoves
<1>22. ASSUME NEW h \in Handlers, SettleUnlock(h) PROVE OpenIInv'
  <2>1. PaysExisting /\ req[h].pay \in Pays /\ pay[req[h].pay].status # "NONE"
    BY <1>22, PiiUnlockAssumption DEF SettleUnlock, At, IInv, RequestOK, RefsOK, OpenIInv, Settling
  <2>2. /\ \A g \in Handlers : g # h => req'[g] = req[g]
        /\ At(h, "unlock") /\ req'[h].pc = "scan"
        /\ UNCHANGED <<pay, faults>>
    BY <1>22, <1>a DEF SettleUnlock, Goto, At, TypeOK
  <2>3. \A b \in Apps : IF Exists(b) /\ JobOf[b] = JobOf[pay[req[h].pay].app]
                        THEN app'[b] = [app[b] EXCEPT !.unlocked = TRUE]
                        ELSE app'[b] = app[b]
    BY <1>22 DEF SettleUnlock, JobApps
  <2>4. \A b \in Apps : /\ app'[b].status = app[b].status
                        /\ app[b].unlocked => app'[b].unlocked
    BY <2>3, <1>a DEF TypeOK, AppRow
  <2>5. PaysExisting'
    <3>1. ASSUME NEW g \in Handlers, req'[g].pc \in {"findPending", "insert"}
          PROVE  req'[g] = req[g] /\ req[g].app \in Apps
      BY <2>2, <3>1 DEF IInv, RequestOK
    <3> QED
      BY <2>1, <2>2, <2>4, <3>1 DEF PaysExisting, Exists
  <2>6. ASSUME NEW g \in Handlers PROVE EditOK(g)'
    <3>1. CASE req'[g].pc \notin {"emitOwn", "reload", "write"}
      BY <3>1 DEF EditOK
    <3>2. CASE req'[g].pc \in {"emitOwn", "reload", "write"}
      <4>1. g # h /\ req'[g] = req[g] /\ EditOK(g) /\ req[g].app \in Apps
        BY <2>2, <3>2 DEF IInv, RequestOK, OpenIInv
      <4>2. req[g].op = "edit"
        BY <3>2, <4>1 DEF EditOK
      <4>3. JobOf[req[g].app] # JobOf[pay[req[h].pay].app]
        BY <2>2, <4>2 DEF EditsApart
      <4>4. app'[req[g].app] = app[req[g].app]
        BY <2>3, <4>1, <4>3
      <4> QED
        BY <4>1, <4>4 DEF EditOK, Exists
    <3> QED
      BY <3>1, <3>2
  <2>7. OpenOrOpening'
    <3> SUFFICES ASSUME faults' = 0, NEW p \in Pays, pay'[p].status = "SUCCESS"
                 PROVE  \/ app'[pay'[p].app].unlocked
                        \/ \E g \in Handlers : At(g, "unlock")' /\ req'[g].pay = p
      BY DEF OpenOrOpening
    <3>1. faults = 0 /\ pay'[p] = pay[p] /\ pay[p].app \in Apps /\ Exists(pay[p].app)
      BY <2>1, <2>2 DEF PaysExisting
    <3>2. CASE app[pay[p].app].unlocked
      BY <2>4, <3>1, <3>2
    <3>3. CASE req[h].pay = p
      <4>1. app'[pay[p].app] = [app[pay[p].app] EXCEPT !.unlocked = TRUE]
        BY <2>3, <3>1, <3>3
      <4> QED
        BY <3>1, <4>1, <1>a DEF TypeOK, AppRow
    <3>4. ASSUME NEW g \in Handlers, g # h, At(g, "unlock"), req[g].pay = p
          PROVE  At(g, "unlock")' /\ req'[g].pay = p
      BY <2>2, <3>4 DEF At
    <3> QED
      BY <2>2, <3>1, <3>2, <3>3, <3>4 DEF OpenIInv, OpenOrOpening
  <2> QED
    BY <2>5, <2>6, <2>7 DEF OpenIInv
<1>23. ASSUME NEW h \in Handlers, SettleScan(h) PROVE Kept
  <2>1. \A g \in Handlers : g # h => req'[g] = req[g]
    BY <1>23, <1>a DEF SettleScan, Finish, Return, TypeOK
  <2>2. ~At(h, "unlock") /\ req'[h].pc \in Paying \union {"idle"}
    BY <1>23, <1>a DEF SettleScan, Finish, Return, Request, NoRequest, At, TypeOK, Paying, Settling
  <2>3. RowsKept
    BY <1>23, <1>a DEF SettleScan, RowsKept
  <2> QED
    BY <2>1, <2>2, <2>3, OnlyMoves
<1>24. ASSUME NEW h \in Handlers, SettleAdvance(h) PROVE Kept
  <2>1. \A g \in Handlers : g # h => req'[g] = req[g]
    BY <1>24, <1>a DEF SettleAdvance, Goto, TypeOK
  <2>2. ~At(h, "unlock") /\ req'[h].pc \in Paying \union {"idle"}
    BY <1>24, <1>a DEF SettleAdvance, Goto, Request, NoRequest, At, TypeOK, Paying, Settling
  <2>3. RowsKept
    BY <1>24, <1>a DEF SettleAdvance, RowsKept, TypeOK, AppRow
  <2> QED
    BY <2>1, <2>2, <2>3, OnlyMoves
<1>25. ASSUME NEW h \in Handlers, SettleEmit(h) PROVE Kept
  <2>1. \A g \in Handlers : g # h => req'[g] = req[g]
    BY <1>25, <1>a DEF SettleEmit, Finish, Return, TypeOK
  <2>2. ~At(h, "unlock") /\ req'[h].pc \in Paying \union {"idle"}
    BY <1>25, <1>a DEF SettleEmit, Finish, Return, Request, NoRequest, At, TypeOK, Paying, Settling
  <2>3. RowsKept
    BY <1>25, <1>a DEF SettleEmit, RowsKept
  <2> QED
    BY <2>1, <2>2, <2>3, OnlyMoves
<1>26. ASSUME NEW h \in Handlers, EmitOwn(h) PROVE Kept
  <2>1. \A g \in Handlers : g # h => req'[g] = req[g]
    BY <1>26, <1>a DEF EmitOwn, Goto, TypeOK
  <2>2. req'[h] = [req[h] EXCEPT !.pc = "reload"] /\ At(h, "emitOwn") /\ UNCHANGED app
    BY <1>26, <1>a DEF EmitOwn, Goto, TypeOK
  <2>3. /\ req'[h].pc = "reload" /\ req'[h].op = req[h].op
        /\ req'[h].app = req[h].app /\ req'[h].mem = req[h].mem
    BY <2>2, <1>a DEF TypeOK, Request
  <2>4. EditOK(h)'
    BY <2>2, <2>3 DEF OpenIInv, EditOK, At, Exists
  <2>5. Harmless(h)
    BY <2>2, <2>3, <2>4 DEF Harmless, At
  <2>6. RowsKept
    BY <1>26 DEF EmitOwn, RowsKept
  <2> QED
    BY <2>1, <2>5, <2>6 DEF Harmless
<1>27. ASSUME NEW h \in Handlers, SaveReload(h) PROVE Kept
  <2>1. \A g \in Handlers : g # h => req'[g] = req[g]
    BY <1>27, <1>a DEF SaveReload, At, TypeOK
  <2>2. /\ req'[h] = [req[h] EXCEPT !.pc = "write", !.snap = app[req[h].app]]
        /\ At(h, "reload") /\ UNCHANGED app
    BY <1>27, <1>a DEF SaveReload, TypeOK
  <2>3. /\ req'[h].pc = "write" /\ req'[h].op = req[h].op
        /\ req'[h].app = req[h].app /\ req'[h].mem = req[h].mem
        /\ req'[h].snap = app[req[h].app]
    BY <2>2, <1>a DEF TypeOK, Request
  <2>4. EditOK(h)'
    BY <2>2, <2>3 DEF OpenIInv, EditOK, At, Exists
  <2>5. Harmless(h)
    BY <2>2, <2>3, <2>4 DEF Harmless, At
  <2>6. RowsKept
    BY <1>27 DEF SaveReload, RowsKept
  <2> QED
    BY <2>1, <2>5, <2>6 DEF Harmless
<1>28. ASSUME NEW h \in Handlers, SaveWrite(h) PROVE Kept
  <2>1. \A g \in Handlers : g # h => req'[g] = req[g]
    BY <1>28, <1>a DEF SaveWrite, Return, TypeOK
  <2>2. ~At(h, "unlock") /\ req'[h].pc \in Paying \union {"idle"}
    BY <1>28, <1>a DEF SaveWrite, Return, NoRequest, At, TypeOK, Paying, Settling
  <2>3. /\ req[h].app \in Apps /\ req[h].mem \in AppRow /\ req[h].snap \in AppRow
        /\ Exists(req[h].app) /\ req[h].mem.status # "NONE"
        /\ req[h].mem.unlocked = app[req[h].app].unlocked
        /\ req[h].snap.unlocked = app[req[h].app].unlocked
    BY <1>28 DEF SaveWrite, At, IInv, RequestOK, OpenIInv, EditOK
  <2>4. app' = [app EXCEPT ![req[h].app] = SaveApp(app[req[h].app], req[h].snap, req[h].mem)]
    BY <1>28 DEF SaveWrite
  <2>5. app'[req[h].app] = SaveApp(app[req[h].app], req[h].snap, req[h].mem)
    BY <2>3, <2>4, <1>a DEF TypeOK
  <2>6. /\ app'[req[h].app].status # "NONE"
        /\ app'[req[h].app].unlocked = app[req[h].app].unlocked
    BY <2>3, <2>5 DEF SaveApp, SaveColumn, Exists
  <2>7. \A b \in Apps : b # req[h].app => app'[b] = app[b]
    BY <2>4, <1>a DEF TypeOK
  <2>8. RowsKept
    BY <1>28, <2>6, <2>7 DEF SaveWrite, RowsKept
  <2> QED
    BY <2>1, <2>2, <2>8, OnlyMoves
<1>29. ASSUME NEW h \in Handlers, Abort(h) PROVE Kept
  <2>1. \A g \in Handlers : g # h => req'[g] = req[g]
    BY <1>29, <1>a DEF Abort, Finish, Return, TypeOK
  <2>2. faults' # 0 /\ req'[h].pc = "idle"
    BY <1>29, <1>a, PiiUnlockAssumption DEF Abort, Finish, Return, NoRequest, TypeOK
  <2>3. RowsKept
    BY <1>29, <2>2 DEF Abort, RowsKept
  <2> QED
    BY <2>1, <2>2, <2>3, OnlyMoves
<1>30. ASSUME Crash PROVE Kept
  <2>1. faults' # 0 /\ \A g \in Handlers : req'[g].pc = "idle"
    BY <1>30, <1>a, PiiUnlockAssumption DEF Crash, NoRequest, TypeOK
  <2>2. \A g \in Handlers : EditOK(g)'
    BY <2>1 DEF EditOK
  <2> QED
    BY <1>30, <2>1, <2>2 DEF Crash, RowsKept, Harmless
<1> HIDE DEF Kept
<1> QED
  BY <1>b, <1>1, <1>2, <1>3, <1>4, <1>5, <1>6, <1>7, <1>8, <1>9, <1>10,
     <1>11, <1>12, <1>13, <1>14, <1>15, <1>16, <1>17, <1>18, <1>19, <1>20,
     <1>21, <1>22, <1>23, <1>24, <1>25, <1>26, <1>27, <1>28, <1>29, <1>30 DEF Next, Continue

\* While no application of a job is edited across the unlock of that job, and
\* as long as nothing has failed, every application paid for is open as soon as
\* no request is in progress: the webhook and verifyPayment may settle the same
\* payment together, and both run beside other payments and edits.
THEOREM SettledMeansOpenHolds == Spec /\ []EditsApart => []SettledMeansOpen
<1>1. Init => OpenIInv
  <2> SUFFICES ASSUME Init PROVE OpenIInv
    OBVIOUS
  <2>1. \A p \in Pays : pay[p].status = "NONE"
    BY DEF Init
  <2>2. \A h \in Handlers : req[h].pc = "idle"
    BY DEF Init, NoRequest
  <2> QED
    BY <2>1, <2>2 DEF OpenIInv, PaysExisting, EditOK, OpenOrOpening
<1>2. IInv /\ OpenIInv /\ UNCHANGED vars => OpenIInv'
  <2> SUFFICES ASSUME IInv, OpenIInv, UNCHANGED vars PROVE OpenIInv'
    OBVIOUS
  <2>1. RowsKept /\ Stable /\ \A g \in Handlers : Harmless(g)
    BY DEF vars, RowsKept, Stable, Harmless
  <2> QED
    BY <2>1, OpenKept
<1>3. IInv /\ OpenIInv /\ EditsApart /\ [Next]_vars => OpenIInv'
  BY <1>2, OpenStepInv
<1>4. OpenIInv => SettledMeansOpen
  BY DEF OpenIInv, OpenOrOpening, SettledMeansOpen, Idle, At
<1> QED
  BY <1>1, <1>3, <1>4, Invariance, PTL DEF Spec
=============================================================================
