----------------------------- MODULE Documents -----------------------------
(***************************************************************************)
(* The files of job seekers and employers, and the tables that refer to    *)
(* them.  A file is three things that no transaction ties together: an     *)
(* object in the bucket, a row of documents, and the reference to that row *)
(* (a column of a profile, or a row of a verification table).  StorageService *)
(* writes the first two and the profile services the third, one call after *)
(* the other; the foreign keys only clean up behind a deleted documents    *)
(* row (SET NULL for the columns, CASCADE for the verification rows).      *)
(*                                                                         *)
(* This module has the state of one job seeker and one employer, the       *)
(* locals of the requests that work on them, and the steps every such      *)
(* request is made of.  JobseekerProfiles and EmployerProfiles have the    *)
(* operations.  One action is what a request does between two awaits.      *)
(***************************************************************************)
EXTENDS Naturals, FiniteSets, RowSave

CONSTANTS
    Docs,            \* ids a documents row (and its object) can get
    Requests,        \* requests in flight at once
    Texts,           \* what brief and workExperience can say
    EmployerTypes    \* the values of EmployerType in use

ASSUME DocumentsAssumption ==
    /\ Docs # {} /\ Texts # {} /\ "none" \notin Docs /\ "unset" \notin Docs
    /\ EmployerTypes \subseteq {"INDIVIDUAL", "SME", "ORGANIZATION"}

VARIABLES
    objects,       \* objects in the bucket, by the id of their row
    documents,     \* rows of documents
    papers,        \* verification rows, by the documents row they refer to
    jobseeker,     \* the job seeker's profile
    employer,      \* the employer's profile
    catalog,       \* the skill exists
    links,         \* the job seeker's profile has the skill
    task,          \* the requests
    failed,        \* history: a call has failed half-way
    reviewed,      \* history: the text of the last approval
    decided        \* history: what administrators approved of the employer

files == <<objects, documents, papers>>
skills == <<catalog, links>>
past == <<failed, reviewed, decided>>
profileVars == <<files, jobseeker, employer, skills, task, past>>

-----------------------------------------------------------------------------
\* The documents an employer has to file, by type
Mandatory ==
    [INDIVIDUAL |-> {"GOVERNMENT_ISSUED_ID", "UTILITY_BILL"},
     SME |-> {"CAC_REGISTRATION_CERTIFICATE", "OWNER_GOVERNMENT_ID"},
     ORGANIZATION |-> {"CAC_REGISTRATION_CERTIFICATE", "DIRECTOR_GOVERNMENT_ID"}]
EmployerKinds == UNION {Mandatory[t] : t \in EmployerTypes}
JobseekerKinds == {"ID_DOCUMENT", "PROOF_OF_ADDRESS"}
PaperStatus == {"PENDING", "APPROVED", "REJECTED"}

\* A row of a verification table.
Paper == [kind : EmployerKinds \cup JobseekerKinds \cup {"none"},
          status : PaperStatus]
NoPaper == [kind |-> "none", status |-> "PENDING"]
Filed(d) == papers[d].kind # "none"
FiledAs(kinds) == {d \in Docs : papers[d].kind \in kinds}

\* A column that refers to documents.
DocColumn == Docs \cup {"none"}

Approval == {"NOT_STARTED", "PENDING", "APPROVED", "REJECTED"}
\* complete: two references, a date of birth and a gender are given.
JobseekerProfile == [status : Approval, text : Texts, complete : BOOLEAN,
                     cv : DocColumn, picture : DocColumn]
EmployerStatus == {"ACTIVE", "INACTIVE", "SUSPENDED"}
\* logo = "unset" in an entity: the property is undefined and save skips it.
EmployerProfile == [verification : Approval, status : EmployerStatus,
                    type : EmployerTypes \cup {"none"},
                    logo : DocColumn \cup {"unset"}]

FirstText == CHOOSE t \in Texts : TRUE
NewJobseeker == [status |-> "PENDING", text |-> FirstText, complete |-> FALSE,
                 cv |-> "none", picture |-> "none"]
NewEmployer == [verification |-> "NOT_STARTED", status |-> "INACTIVE",
                type |-> "none", logo |-> "none"]

\* A request: its operation, its next step and its locals, which are the
\* document at hand, the kind it is filed as (or the column it goes to), the
\* verification rows it has read, the status it gives them, the skill it
\* names, and each profile entity with the copy that save compares it with.
Rest == [op |-> "none", pc |-> "idle", doc |-> "none", kind |-> "none",
         read |-> [d \in Docs |-> NoPaper], status |-> "PENDING", skill |-> "none",
         js |-> NewJobseeker, jsSnap |-> NewJobseeker,
         em |-> NewEmployer, emSnap |-> NewEmployer, outer |-> NewEmployer]

Loaded == [Rest EXCEPT !.js = jobseeker, !.em = employer]

Receive(h, t) == task[h].pc = "idle" /\ task' = [task EXCEPT ![h] = t]
Proceed(h, pc) == task' = [task EXCEPT ![h].pc = pc]
Finish(h) == task' = [task EXCEPT ![h] = Rest]
On(h, pc) == task[h].pc = pc

-----------------------------------------------------------------------------
\* deleteDocument: the documents row is looked up (an id that has none is no
\* error), the object goes, then the row, with what refers to it.
AfterDelete(h) ==
    CASE task[h].op \in {"uploadCv", "uploadPicture", "uploadPaper"} -> Proceed(h, "upload")
      [] task[h].op \in {"uploadLogo", "deleteLogo"} -> Proceed(h, "reload")
      [] task[h].op = "deleteEmployerPaper" -> Proceed(h, "unlink")
      [] OTHER -> Finish(h)

FindDocument(h) ==
    /\ On(h, "find")
    /\ IF task[h].doc \in documents THEN Proceed(h, "object") ELSE AfterDelete(h)
    /\ UNCHANGED <<files, jobseeker, employer, skills, past>>

DeleteFile(h) ==
    /\ On(h, "object")
    /\ objects' = objects \ {task[h].doc}
    /\ Proceed(h, "row")
    /\ UNCHANGED <<documents, papers, jobseeker, employer, skills, past>>

SetNull(column, d) == IF column = d THEN "none" ELSE column
RemoveDocument(h) ==
    /\ On(h, "row")
    /\ LET d == task[h].doc IN
         /\ documents' = documents \ {d}
         /\ papers' = [papers EXCEPT ![d] = NoPaper]
         /\ jobseeker' = [jobseeker EXCEPT !.cv = SetNull(@, d), !.picture = SetNull(@, d)]
         /\ employer' = [employer EXCEPT !.logo = SetNull(@, d)]
    /\ AfterDelete(h)
    /\ UNCHANGED <<objects, skills, past>>

-----------------------------------------------------------------------------
\* uploadFile: the object, then its documents row.  An id is used again only
\* when nothing refers to it any more.
Fresh(h, d) ==
    /\ d \notin objects \cup documents
    /\ \A g \in Requests : /\ g # h => d # task[g].doc
                           /\ d \notin {task[g].js.cv, task[g].js.picture,
                                        task[g].em.logo, task[g].outer.logo}
                           /\ task[g].read[d] = NoPaper

UploadFile(h, d) ==
    /\ On(h, "upload") /\ Fresh(h, d)
    /\ objects' = objects \cup {d}
    /\ task' = [task EXCEPT ![h].pc = "insert", ![h].doc = d]
    /\ UNCHANGED <<documents, papers, jobseeker, employer, skills, past>>

\* Where the uploaded document goes: a column of the entity that is saved
\* next, or a verification row of its own.
InsertDocument(h) ==
    /\ On(h, "insert")
    /\ LET d == task[h].doc IN
         /\ documents' = documents \cup {d}
         /\ task' = [task EXCEPT ![h] =
              CASE @.op = "uploadCv" -> [@ EXCEPT !.pc = "reload", !.js.cv = d]
                [] @.op = "uploadPicture" -> [@ EXCEPT !.pc = "reload", !.js.picture = d]
                [] @.op = "uploadLogo" -> [@ EXCEPT !.pc = "reload", !.em.logo = d]
                [] OTHER -> [@ EXCEPT !.pc = "file"]]
    /\ UNCHANGED <<objects, papers, jobseeker, employer, skills, past>>

-----------------------------------------------------------------------------
\* find({ where: profile }), a status for every row, save(rows).  save inserts
\* a row again that is gone, which the foreign key allows while the documents
\* row stands, and the unique (profile, kind) of a job seeker while no other
\* row is of that kind; otherwise nothing is saved.
ListPapers(h, kinds) ==
    /\ On(h, "list")
    /\ task' = [task EXCEPT ![h].pc = "savePapers",
                  ![h].read = [d \in Docs |-> IF papers[d].kind \in kinds
                                              THEN papers[d] ELSE NoPaper]]
    /\ UNCHANGED <<files, jobseeker, employer, skills, past>>

Restamped(h) ==
    [d \in Docs |-> IF task[h].read[d] = NoPaper THEN papers[d]
                    ELSE [task[h].read[d] EXCEPT !.status = task[h].status]]
CanSavePapers(h) ==
    LET new == Restamped(h) IN
    /\ \A d \in Docs : task[h].read[d] # NoPaper => Filed(d) \/ d \in documents
    /\ \A c, d \in Docs :
         new[c].kind = new[d].kind /\ new[c].kind \in JobseekerKinds => c = d

SavePapers(h, after) ==
    /\ On(h, "savePapers")
    /\ IF CanSavePapers(h)
         THEN papers' = Restamped(h) /\ after
         ELSE papers' = papers /\ Finish(h)
    /\ UNCHANGED <<objects, documents, jobseeker, employer, skills, past>>

\* A query or a call to the bucket fails, or the process stops: what has been
\* written stays.
CallFails(h) ==
    /\ ~On(h, "idle")
    /\ failed' = TRUE
    /\ Finish(h)
    /\ UNCHANGED <<files, jobseeker, employer, skills, reviewed, decided>>
=============================================================================
