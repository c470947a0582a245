----------------------------- MODULE VettingInv -----------------------------
(***************************************************************************)
(* The inductive strengthenings of the safety properties of Vetting.  When *)
(* requests and jobs overlap, every copy of a row that a handler holds,    *)
(* however stale, says "unlocked" or "selected" only of a candidate a      *)
(* payment has unlocked (IInv).  While an open pick meets no other and no  *)
(* vetting that holds the rows, the table and those copies know one offer  *)
(* (OfferIInv); while nobody writes a status under a vetting, its copy has *)
(* the table's (StatusIInv); while nobody saves rows under its marks, they *)
(* are the stored ones (MarkIInv).  TLC checks them (MCVetting),           *)
(* VettingProofs proves them.                                              *)
(***************************************************************************)
EXTENDS Vetting

\* Whether a row of a may look like this, when P are the candidates unlocked by a
\* payment.
RowOK(row, a, P) ==
    /\ row \in Row
    /\ row.unlocked => a \in P
    /\ EmployerSets \intersect Gated = {} => (row.status \in Gated => a \in P)

RowsOK == \A a \in Apps : RowOK(app[a], a, paid)

EntitiesOK(f, P) == \A a \in DOMAIN f : RowOK(f[a], a, P)

Choosing == {"select", "check", "clear", "commit"}

\* What the local variables r of a handler may be.
RequestOK(r, P) ==
    /\ EntitiesOK(r.mem, P) /\ EntitiesOK(r.snap, P)
    /\ r.pc = "write" => DOMAIN r.snap = DOMAIN r.mem
    /\ r.pc = "score" => r.todo \subseteq DOMAIN r.mem
    /\ r.pc \in Choosing => r.app \in P
    /\ r.pc = "settle" /\ EmployerSets \intersect Gated = {} => r.todo \subseteq P
    /\ r.op = "queue" => r.app \in Apps

\* The job of a running attempt is still there, and no two slots run it.
JobsOK ==
    /\ \A h \in Handlers : req[h].op = "queue" => queue[req[h].app] > 0
    /\ \A h, i \in Handlers :
         req[h].op = "queue" /\ req[i].op = "queue" /\ req[h].app = req[i].app
           => h = i

OpenRowsOK == \A a \in Apps : rows[a] > 0 => a \in paid

IInv ==
    /\ TypeOK
    /\ RowsOK
    /\ OpenRowsOK
    /\ \A h \in Handlers : RequestOK(req[h], paid)
    /\ JobsOK

-----------------------------------------------------------------------------
\* Where the code of an operation may wait.
Vettings == {"queue", "vet"}
VettingSteps == {"load", "score", "write", "advance", "complete"}
Places == [op \in Op |->
    CASE op = "none" -> {"idle"}
      [] op \in Vettings -> VettingSteps
      [] op = "select" -> {"select"}
      [] op = "pick" -> {"check", "clear", "commit"}
      [] op = "edit" -> {"reload", "write"}
      [] op = "pay" -> {"scan", "settle"}]

PlacesOK == \A h \in Handlers : req[h].pc \in Places[req[h].op]

-----------------------------------------------------------------------------
\* A vetting has the rows of the job in memory and is going to save them.
Holds(r) == r.op \in Vettings /\ r.pc \in {"score", "write"}

-----------------------------------------------------------------------------
\* While a pick's transaction is open, there is no other and no vetting holds the
\* rows.
PicksApart ==
    \A g, h \in Handlers :
        g # h /\ At(g, "commit") => ~At(h, "commit") /\ ~Holds(req[h])

\* The candidates with an offer in f, the table or a copy of some of its rows.
Offered(f) == {a \in DOMAIN f : f[a].status = "OFFER_SENT"}

\* The offers that r may write back.
Keeping(r) == IF Holds(r) THEN Offered(r.mem) ELSE {}

\* Of an offer only the table and a vetting's copy know, and a pick that has
\* opened its transaction is going to clear every offer.
OfferOK(r, table) ==
    /\ r.op \notin Vettings => Offered(r.mem) = {}
    /\ r.pc = "commit" => Offered(table) \subseteq r.todo

Offers == Offered(app) \union UNION {Keeping(req[h]) : h \in Handlers}

OfferIInv ==
    /\ PlacesOK
    /\ \A h \in Handlers : OfferOK(req[h], app)
    /\ \A x, y \in Offers : x = y

-----------------------------------------------------------------------------
\* While a vetting holds the rows, no other handler is about to write a status.
WritesStatus(r) ==
    \/ r.pc \in {"select", "commit", "settle", "advance"}
    \/ r.pc = "write" /\ r.op = "edit"

StatusesApart ==
    \A g, h \in Handlers :
        g # h /\ Holds(req[g]) => ~WritesStatus(req[h])

\* Then its copies have the statuses of the table.
StatusesOK(r, table) ==
    /\ Holds(r) => \A a \in DOMAIN r.mem : /\ r.mem[a].status # "NONE"
                                          /\ r.mem[a].status = table[a].status
    /\ Holds(r) /\ r.pc = "write" =>
         \A a \in DOMAIN r.mem : r.snap[a].status = table[a].status

StatusIInv ==
    /\ PlacesOK
    /\ \A h \in Handlers : StatusesOK(req[h], app)

-----------------------------------------------------------------------------
\* From the SELECT of a vetting's save to the vetting's end no other handler saves
\* whole rows.
MarksApart ==
    \A g, h \in Handlers :
        g # h /\ req[g].op \in Vettings /\ req[g].pc \in {"write", "advance", "complete"} =>
          ~At(h, "write")

Lit(f, S) == {a \in S : f[a].lit}

\* Then the marks it chose are those it saves and those that are stored.
MarksOK(r, table) ==
    /\ r.pc = "load" => r.ranked = {}
    /\ Holds(r) => r.ranked \subseteq DOMAIN r.mem
    /\ Holds(r) /\ r.pc = "write" =>
         /\ \A a \in DOMAIN r.mem : r.snap[a].lit = table[a].lit
         /\ IsTop(Lit(r.mem, r.ranked), r.ranked)
    /\ r.pc \in {"advance", "complete"} => IsTop(Lit(table, r.ranked), r.ranked)

MarkIInv ==
    /\ PlacesOK
    /\ \A h \in Handlers : MarksOK(req[h], app)
=============================================================================
