---------------------------- MODULE PiiUnlockInv ----------------------------
(***************************************************************************)
(* The inductive invariant behind the safety properties of PiiUnlock: what *)
(* a request in progress may rely on although other requests change the    *)
(* rows it has read.  IInv is inductive however requests overlap, OpenIInv *)
(* while no application is edited across the unlock of its job.            *)
(***************************************************************************)
EXTENDS PiiUnlock

\* A reference is generated for a row that exists and names an application,
\* and a row's current reference was generated for it.
RefsOK ==
    /\ \A r \in Refs : issued[r] # None =>
          /\ pay[issued[r]].status # "NONE"
          /\ pay[issued[r]].app \in Apps
    /\ \A p \in Pays : pay[p].ref # None => issued[pay[p].ref] = p

\* Paystack owes webhooks for charges only.
HooksOK == \A r \in hooks : gateway[r] = "paid"

\* What the local variables of a request are worth at its next step: its row
\* owns its reference, a settling request's row is charged, and an application
\* loaded as unlocked or accepted as paid is one of a charged job, even if the
\* row has changed since.
RequestOK(h) ==
    /\ req[h].pc \in {"findPending", "insert", "emitOwn", "reload", "write"} =>
          req[h].app \in Apps
    /\ req[h].pc \in {"initNew", "initAgain", "storeCode", "storeRef", "ask", "fail"}
                       \union Settling =>
          /\ req[h].pay \in Pays
          /\ req[h].ref \in Refs
          /\ issued[req[h].ref] = req[h].pay
    /\ req[h].pc \in Settling => gateway[req[h].ref] = "paid"
    /\ req[h].pc \in {"emitOwn", "reload", "write"} =>
          /\ req[h].mem \in AppRow
          /\ req[h].mem.unlocked => PaidJob(JobOf[req[h].app])
          /\ (req[h].mem.status = "PAYMENT_COMPLETE" /\ "PAYMENT_COMPLETE" \notin EmployerSets)
                => PaidJob(JobOf[req[h].app])
    /\ req[h].pc = "emitOwn" => PaidJob(JobOf[req[h].app])
    /\ req[h].pc = "write" => req[h].snap \in AppRow
    /\ \A a \in req[h].todo : PaidJob(JobOf[a])

IInv ==
    /\ TypeOK
    /\ RefsOK
    /\ HooksOK
    /\ \A h \in Handlers : RequestOK(h)
    /\ UnlockedOnlyIfPaid
    /\ SuccessOnlyIfCharged
    /\ ConfirmedOnlyIfPaid

-----------------------------------------------------------------------------
\* No application of a job that a request is about to unlock is being changed
\* by another request, from its load to the save of the whole entity.
EditsApart ==
    \A g, h \in Handlers :
        At(g, "unlock") /\ req[h].op = "edit"
          => JobOf[req[h].app] # JobOf[pay[req[g].pay].app]

\* Payments, and requests that will make one, are for applications that exist.
PaysExisting ==
    /\ \A p \in Pays : pay[p].status # "NONE" => pay[p].app \in Apps /\ Exists(pay[p].app)
    /\ \A h \in Handlers : req[h].pc \in {"findPending", "insert"} => Exists(req[h].app)

\* What a request that changes an application has read of piiUnlocked is still
\* what the row has.
EditOK(h) ==
    req[h].pc \in {"emitOwn", "reload", "write"} =>
      /\ req[h].op = "edit"
      /\ Exists(req[h].app) /\ req[h].mem.status # "NONE"
      /\ req[h].mem.unlocked = app[req[h].app].unlocked
      /\ req[h].pc = "write" => req[h].snap.unlocked = app[req[h].app].unlocked

\* A SUCCESS payment's application is unlocked, or a request is about to.
OpenOrOpening ==
    faults = 0 =>
      \A p \in Pays : pay[p].status = "SUCCESS" =>
          \/ app[pay[p].app].unlocked
          \/ \E h \in Handlers : At(h, "unlock") /\ req[h].pay = p

\* Behind SettledMeansOpen, inductive while EditsApart.
OpenIInv ==
    /\ PaysExisting
    /\ \A h \in Handlers : EditOK(h)
    /\ OpenOrOpening
=============================================================================
