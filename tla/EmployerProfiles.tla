-------------------------- MODULE EmployerProfiles --------------------------
(***************************************************************************)
(* EmployerVerificationService, EmployerService, and the part of           *)
(* AdminService that decides on employers.  An employer files verification *)
(* documents of the kinds its type asks for; administrators approve or     *)
(* reject documents one at a time or the employer as a whole; and as soon  *)
(* as every mandatory kind has an approved document the service approves   *)
(* the employer by itself (auto verification).                             *)
(***************************************************************************)
EXTENDS Documents

StartedVerification(profile) ==
    [profile EXCEPT !.verification = IF @ = "NOT_STARTED" THEN "PENDING" ELSE @]

-----------------------------------------------------------------------------
\* updateVerificationInfo; the type is optional ("none").
UpdateVerificationInfo(h, ty) ==
    /\ Receive(h, [Loaded EXCEPT !.op = "updateInfo", !.pc = "reload",
                     !.em = [StartedVerification(employer) EXCEPT
                               !.type = IF ty = "none" THEN @ ELSE ty]])
    /\ UNCHANGED <<files, jobseeker, employer, skills, past>>

\* updateEmployerProfile loads the verification rows with the profile.
UpdateEmployerProfile(h, ty) ==
    /\ Receive(h, [Loaded EXCEPT !.op = "updateEmployer", !.pc = "reload",
                     !.em.type = IF ty = "none" THEN @ ELSE ty,
                     !.read = [d \in Docs |-> IF papers[d].kind \in EmployerKinds
                                              THEN papers[d] ELSE NoPaper]])
    /\ UNCHANGED <<files, jobseeker, employer, skills, past>>

-----------------------------------------------------------------------------
\* uploadVerificationDocument saves the profile and then files one document;
\* the batch files documents and then saves the profile.
UploadVerificationDocument(h, k) ==
    /\ Receive(h, [Loaded EXCEPT !.op = "uploadEmployerPaper", !.pc = "reload", !.kind = k,
                                 !.em = StartedVerification(employer)])
    /\ UNCHANGED <<files, jobseeker, employer, skills, past>>
UploadVerificationDocumentsBatch(h) ==
    /\ Receive(h, [Loaded EXCEPT !.op = "uploadBatch", !.pc = "next",
                                 !.em = StartedVerification(employer)])
    /\ UNCHANGED <<files, jobseeker, employer, skills, past>>
NextOfBatch(h) ==
    /\ On(h, "next")
    /\ \/ Proceed(h, "reload")
       \/ \E k \in EmployerKinds : task' = [task EXCEPT ![h].pc = "upload", ![h].kind = k]
    /\ UNCHANGED <<files, jobseeker, employer, skills, past>>

InsertEmployerPaper(h) ==
    /\ On(h, "file") /\ task[h].op \in {"uploadEmployerPaper", "uploadBatch"}
    /\ papers' = [papers EXCEPT ![task[h].doc] =
                    [kind |-> task[h].kind, status |-> "PENDING"]]
    /\ Proceed(h, IF task[h].op = "uploadBatch" THEN "next" ELSE "eligible")
    /\ UNCHANGED <<objects, documents, jobseeker, employer, skills, past>>

\* deleteVerificationDocument and adminDeleteVerificationDocument: at any
\* time, and the document before the row, which is gone with it by then.
DeleteVerificationDocument(h, d) ==
    /\ papers[d].kind \in EmployerKinds
    /\ Receive(h, [Loaded EXCEPT !.op = "deleteEmployerPaper", !.pc = "find", !.doc = d])
    /\ UNCHANGED <<files, jobseeker, employer, skills, past>>
RemoveEmployerPaper(h) ==
    /\ On(h, "unlink")
    /\ papers' = [papers EXCEPT ![task[h].doc] = NoPaper]
    /\ Finish(h)
    /\ UNCHANGED <<objects, documents, jobseeker, employer, skills, past>>

-----------------------------------------------------------------------------
\* uploadCompanyLogo deletes the old logo with deleteCompanyLogo, which has an
\* entity of its own and saves it, and goes on with the first entity.
UploadCompanyLogo(h) ==
    /\ Receive(h, [Loaded EXCEPT !.op = "uploadLogo",
                                 !.pc = IF employer.logo = "none" THEN "upload" ELSE "clear"])
    /\ UNCHANGED <<files, jobseeker, employer, skills, past>>
DeleteCompanyLogo(h) ==
    /\ Receive(h, [Loaded EXCEPT !.op = "deleteLogo", !.pc = "clear"])
    /\ UNCHANGED <<files, jobseeker, employer, skills, past>>
DeleteLogoColumn(h) ==
    /\ On(h, "clear") /\ task[h].op \in {"uploadLogo", "deleteLogo"}
    /\ \/ /\ employer.logo # "none"
          /\ task' = [task EXCEPT ![h].pc = "find", ![h].doc = employer.logo,
                                  ![h].outer = [task[h].em EXCEPT !.logo = "none"],
                                  ![h].em = [employer EXCEPT !.logo = "unset"]]
       \/ /\ employer.logo = "none"
          /\ IF task[h].op = "uploadLogo" THEN Proceed(h, "upload") ELSE Finish(h)
    /\ UNCHANGED <<files, jobseeker, employer, skills, past>>

-----------------------------------------------------------------------------
\* checkAutoVerificationEligibility: every mandatory kind has an approved
\* document.
\* Mutant of Eligible
EligibleOnceUploaded ==
    /\ employer.type # "none"
    /\ \A k \in Mandatory[employer.type] : FiledAs({k}) # {}
Eligible ==
    /\ employer.type # "none"
    /\ \A k \in Mandatory[employer.type] :
          \E d \in FiledAs({k}) : papers[d].status = "APPROVED"

\* performAutoVerification: the check, then the profile, which is approved if
\* it is pending.
AutoVerify(h) ==
    /\ Receive(h, [Loaded EXCEPT !.op = "autoVerify", !.pc = "eligible"])
    /\ UNCHANGED <<files, jobseeker, employer, skills, past>>
CheckEligible(h) ==
    /\ On(h, "eligible")
    /\ IF Eligible THEN Proceed(h, "load") ELSE Finish(h)
    /\ UNCHANGED <<files, jobseeker, employer, skills, past>>
LoadForAutoVerification(h) ==
    /\ On(h, "load")
    /\ IF employer.verification = "PENDING"
         THEN task' = [task EXCEPT ![h] =
                [Loaded EXCEPT !.op = "autoVerify", !.pc = "reload",
                               !.em.verification = "APPROVED", !.status = "APPROVED"]]
         ELSE Finish(h)
    /\ UNCHANGED <<files, jobseeker, employer, skills, past>>

-----------------------------------------------------------------------------
\* The decisions of administrators.  decided remembers whether one approved
\* the employer as a whole, and which kinds of document one approved.
DecideWhole == decided' = [decided EXCEPT !.whole = TRUE]
DecideKind(k) == decided' = [decided EXCEPT !.kinds = @ \cup {k}]

\* adminUpdateVerificationStatus, and updateEmployerVerification of the
\* approve and reject routes: the profile, then its documents.
SetVerification(h, st) ==
    /\ Receive(h, [Loaded EXCEPT !.op = IF st = "APPROVED" THEN "approveEmployer"
                                        ELSE "setVerification",
                                 !.pc = "reload", !.em.verification = st,
                                 !.status = "APPROVED"])
    /\ IF st = "APPROVED" THEN DecideWhole ELSE UNCHANGED decided
    /\ UNCHANGED <<files, jobseeker, employer, skills, failed, reviewed>>

\* updateEmployerStatus: an activation approves the verification and the
\* documents, these before the profile.
UpdateEmployerStatus(h, st) ==
    /\ IF st = "ACTIVE"
         THEN /\ Receive(h, [Loaded EXCEPT !.op = "activate", !.pc = "list",
                               !.em.verification = "APPROVED", !.em.status = st,
                               !.status = "APPROVED"])
              /\ DecideWhole
         ELSE /\ Receive(h, [Loaded EXCEPT !.op = "setStatus", !.pc = "reload",
                               !.em.status = st])
              /\ UNCHANGED decided
    /\ UNCHANGED <<files, jobseeker, employer, skills, failed, reviewed>>

\* adminUpdateDocumentVerification: one row, then auto verification.
ReviewEmployerPaper(h, d, st) ==
    /\ papers[d].kind \in EmployerKinds
    /\ Receive(h, [Loaded EXCEPT !.op = "reviewEmployerPaper", !.pc = "savePapers",
                                 !.status = st, !.read[d] = papers[d]])
    /\ IF st = "APPROVED" THEN DecideKind(papers[d].kind) ELSE UNCHANGED decided
    /\ UNCHANGED <<files, jobseeker, employer, skills, failed, reviewed>>

EmployerOp == {"updateInfo", "updateEmployer", "uploadEmployerPaper", "uploadBatch",
               "deleteEmployerPaper", "uploadLogo", "deleteLogo", "autoVerify",
               "approveEmployer", "setVerification", "activate", "setStatus",
               "reviewEmployerPaper"}
ListEmployerPapers(h) == task[h].op \in EmployerOp /\ ListPapers(h, EmployerKinds)
SaveEmployerPapers(h) ==
    /\ task[h].op \in EmployerOp
    /\ SavePapers(h, CASE task[h].op = "activate" -> Proceed(h, "reload")
                       [] task[h].op = "reviewEmployerPaper" -> Proceed(h, "eligible")
                       [] OTHER -> Finish(h))

-----------------------------------------------------------------------------
\* save(profile).  With the verification rows loaded it also sets free every
\* row that is not among them, which the NOT NULL column refuses.
ReloadEmployer(h) ==
    /\ On(h, "reload") /\ task[h].op \in EmployerOp
    /\ IF task[h].op = "updateEmployer" /\ \E d \in FiledAs(EmployerKinds) :
                                              task[h].read[d] = NoPaper
         THEN Finish(h)
         ELSE task' = [task EXCEPT ![h].pc = "write", ![h].emSnap = employer]
    /\ UNCHANGED <<files, jobseeker, employer, skills, past>>

AfterWrite(h) ==
    CASE task[h].op = "uploadEmployerPaper" -> Proceed(h, "upload")
      [] task[h].op = "uploadBatch" -> Proceed(h, "eligible")
      [] task[h].op \in {"autoVerify", "approveEmployer"} -> Proceed(h, "list")
      [] task[h].op = "uploadLogo" /\ task[h].em.logo = "unset" ->
           task' = [task EXCEPT ![h].pc = "upload", ![h].em = task[h].outer]
      [] OTHER -> Finish(h)

WriteEmployer(h) ==
    LET t == task[h]
        mem == IF t.em.logo = "unset" THEN [t.em EXCEPT !.logo = t.emSnap.logo] ELSE t.em
        new == [c \in DOMAIN employer |-> SaveColumn(employer[c], t.emSnap[c], mem[c])]
    IN
    /\ On(h, "write") /\ t.op \in EmployerOp
    /\ IF new.logo \in documents \cup {"none"}
         THEN employer' = new /\ AfterWrite(h)
         ELSE employer' = employer /\ Finish(h)
    /\ UNCHANGED <<files, jobseeker, skills, past>>

\* EmployerVerificationController and EmployerController.
VerificationRoutes(h) ==
    \/ \E ty \in EmployerTypes \cup {"none"} : UpdateVerificationInfo(h, ty)
    \/ \E k \in EmployerKinds : UploadVerificationDocument(h, k)
    \/ UploadVerificationDocumentsBatch(h)
    \/ \E d \in Docs : DeleteVerificationDocument(h, d)
    \/ AutoVerify(h)

ProfileRoutes(h) ==
    \/ \E ty \in EmployerTypes \cup {"none"} : UpdateEmployerProfile(h, ty)
    \/ UploadCompanyLogo(h) \/ DeleteCompanyLogo(h)

EmployerController(h) == VerificationRoutes(h) \/ ProfileRoutes(h)

EmployerDecisions(h) ==
    \/ \E st \in Approval : SetVerification(h, st)
    \/ \E st \in EmployerStatus : UpdateEmployerStatus(h, st)
    \/ \E d \in Docs, st \in PaperStatus : ReviewEmployerPaper(h, d, st)

EmployerProfileStep(h) ==
    \/ NextOfBatch(h) \/ InsertEmployerPaper(h) \/ RemoveEmployerPaper(h)
    \/ DeleteLogoColumn(h) \/ CheckEligible(h) \/ LoadForAutoVerification(h)
    \/ ListEmployerPapers(h) \/ SaveEmployerPapers(h)
    \/ ReloadEmployer(h) \/ WriteEmployer(h)
=============================================================================
