--------------------------- MODULE EmploymentInv ---------------------------
(***************************************************************************)
(* The inductive strengthenings of the safety properties of Employment.    *)
(* When requests and jobs overlap, every copy of a row, however stale,     *)
(* carries only declarations that were made, and ENDED only after both     *)
(* (IInv), and whoever writes ACTIVE found the placement's confirmation    *)
(* in the queue or will put it there (TrackedIInv).  While no two of them  *)
(* work on one placement, a copy differs from the row by what its request  *)
(* changes (ApartIInv).  TLC checks them (MCEmployment), EmploymentProofs  *)
(* proves them.                                                            *)
(***************************************************************************)
EXTENDS Employment

RowOK(row, parties) ==
    /\ row \in Row
    /\ row.declared \subseteq parties
    /\ row.status = "ENDED" => parties = Party

RequestOK(h) ==
    LET r == req[h] IN
    /\ r.pc # "idle" => r.employee \in Employees /\ RowOK(r.mem, asked[r.employee])
    /\ r.pc = "write" => RowOK(r.snap, asked[r.employee])
    /\ r.plan => r.mem.end \in Ends
    /\ r.pc = "schedule" => r.plan

RowsOK == \A e \in Employees : RowOK(emp[e], asked[e])

IInv ==
    /\ TypeOK
    /\ RowsOK
    /\ \A h \in Handlers : RequestOK(h)

-----------------------------------------------------------------------------
\* No two requests or jobs work on one placement.
Apart ==
    \A g, h \in Handlers :
        req[g].employee = req[h].employee /\ req[g].employee # None => g = h

\* What r makes of the row it has to itself.
Changes(r, row, time) ==
    \/ r.op = "edit" /\ r.mem = row
    \/ r.op = "status" /\ \E s \in EmployerSets : r.mem = [row EXCEPT !.status = s]
    \/ /\ r.op = "terminate"
       /\ r.mem = [row EXCEPT !.status = "TERMINATED", !.probation = "TERMINATED",
                              !.reminded = FALSE]
    \/ r.op \in {"activate", "hire"} /\ \E end \in Ends : r.mem = Activated(row, end)
    \/ /\ r.op = "declare" /\ IsOpen(row.status)
       /\ \E party \in Party \ row.declared : r.mem = Declared(row, party)
    \/ r.op = "reminder" /\ r.mem = [row EXCEPT !.reminded = TRUE]
    \/ /\ r.op = "confirm" /\ r.mem = [row EXCEPT !.probation = "CONFIRMED"]
       /\ row.probation = "ACTIVE" /\ row.end # None /\ row.end <= time

ApartOK(r, row, mailed, time) ==
    /\ r.pc \in {"reload", "write"} => Changes(r, row, time)
    /\ r.pc = "write" => r.snap = row
    /\ r.pc = "mail" =>
         \/ r.op = "reminder" /\ Changes(r, row, time)
         \/ r.op = "confirm" /\ ~mailed /\ row.probation = "CONFIRMED"

\* Once the confirmation has been mailed, only an activation starts a probation.
ToldOK == \A e \in Employees : told[e] => emp[e].probation # "ACTIVE"

ApartIInv ==
    /\ ToldOK
    /\ \A h \in Handlers :
         ApartOK(req[h], emp[req[h].employee], told[req[h].employee], now)

-----------------------------------------------------------------------------
\* The confirmation of e waits in the queue or is about to be put there.
Tracked(e) ==
    \/ job[e]["confirm"].state = "waiting"
    \/ \E h \in Handlers : At(h, "schedule") /\ req[h].employee = e

\* Nothing has failed, and no date has come that a job waits for.
Early == faults = 0 /\ \A end \in Ends : now < end

\* A request that writes ACTIVE found the placement tracked or will schedule its
\* milestones.
TracksOK(r) ==
    /\ r.op # "confirm"
    /\ r.pc = "mail" => r.op = "reminder"
    /\ r.pc \in {"mail", "reload", "write"} /\ r.mem.status = "ACTIVE" =>
         r.plan \/ Tracked(r.employee)

TrackedIInv ==
    Early =>
      /\ \A e \in Employees :
           \/ job[e]["confirm"].state = "none"
           \/ job[e]["confirm"].state = "waiting" /\ job[e]["confirm"].at \in Ends
      /\ \A e \in Employees : emp[e].status = "ACTIVE" => Tracked(e)
      /\ \A h \in Handlers : TracksOK(req[h])
=============================================================================
