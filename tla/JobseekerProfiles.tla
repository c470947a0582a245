------------------------- MODULE JobseekerProfiles -------------------------
(***************************************************************************)
(* JobseekerService, and the part of AdminService that decides on job      *)
(* seekers.  A profile has a CV and a picture (columns), an ID document    *)
(* and a proof of address (verification rows, one of each kind), a text    *)
(* that an administrator reviews, and links to skills.  Only an approved   *)
(* job seeker may apply for a job.                                         *)
(***************************************************************************)
EXTENDS Documents

\* Every upload and every update leaves NOT_STARTED.
Started(profile) ==
    [profile EXCEPT !.status = IF @ = "NOT_STARTED" THEN "PENDING" ELSE @]

-----------------------------------------------------------------------------
\* Mutant of UploadCv
UploadCvBeside(h) ==
    /\ Receive(h, [Loaded EXCEPT !.op = "uploadCv", !.js = Started(jobseeker), !.pc = "upload"])
    /\ UNCHANGED <<files, jobseeker, employer, skills, past>>
\* uploadCv and uploadProfilePicture: a CV starts the onboarding, a picture
\* does not.  A file that is there is deleted first, after a second look.
UploadCv(h) ==
    /\ Receive(h, [Loaded EXCEPT !.op = "uploadCv", !.js = Started(jobseeker),
                     !.pc = IF jobseeker.cv = "none" THEN "upload" ELSE "clear"])
    /\ UNCHANGED <<files, jobseeker, employer, skills, past>>
UploadProfilePicture(h) ==
    /\ Receive(h, [Loaded EXCEPT !.op = "uploadPicture",
                     !.pc = IF jobseeker.picture = "none" THEN "upload" ELSE "clear"])
    /\ UNCHANGED <<files, jobseeker, employer, skills, past>>

\* deleteCv and deleteProfilePicture, on their own or within an upload; their
\* update({ cvDocumentId: undefined }) names no column.  (The entity of an
\* upload forgets the old id: it gets the new one before it is saved.)
DeleteColumn(h, c) ==
    /\ On(h, "clear")
    /\ IF jobseeker[c] # "none"
         THEN task' = [task EXCEPT ![h].pc = "find", ![h].doc = jobseeker[c],
                                   ![h].js[c] = "none"]
         ELSE AfterDelete(h)
    /\ UNCHANGED <<files, jobseeker, employer, skills, past>>
DeleteCv(h) ==
    /\ Receive(h, [Loaded EXCEPT !.op = "deleteCv", !.pc = "clear"])
    /\ UNCHANGED <<files, jobseeker, employer, skills, past>>
DeleteCvColumn(h) ==
    task[h].op \in {"uploadCv", "deleteCv"} /\ DeleteColumn(h, "cv")
DeleteProfilePicture(h) ==
    /\ Receive(h, [Loaded EXCEPT !.op = "deletePicture", !.pc = "clear"])
    /\ UNCHANGED <<files, jobseeker, employer, skills, past>>
DeletePictureColumn(h) ==
    task[h].op \in {"uploadPicture", "deletePicture"} /\ DeleteColumn(h, "picture")

-----------------------------------------------------------------------------
\* uploadIdDocument, uploadProofOfAddress, deleteIdDocument and
\* deleteProofOfAddress: forbidden once the profile is approved.
\* Mutant of ChangePaper
ChangePaperAnytime(h, op, k) ==
    /\ Receive(h, [Loaded EXCEPT !.op = op, !.pc = "existing", !.kind = k,
                                 !.js = IF op = "uploadPaper" THEN Started(jobseeker)
                                        ELSE jobseeker])
    /\ UNCHANGED <<files, jobseeker, employer, skills, past>>
ChangePaper(h, op, k) ==
    /\ jobseeker.status # "APPROVED"
    /\ Receive(h, [Loaded EXCEPT !.op = op, !.pc = "existing", !.kind = k,
                                 !.js = IF op = "uploadPaper" THEN Started(jobseeker)
                                        ELSE jobseeker])
    /\ UNCHANGED <<files, jobseeker, employer, skills, past>>
UploadIdDocument(h) == ChangePaper(h, "uploadPaper", "ID_DOCUMENT")
UploadProofOfAddress(h) == ChangePaper(h, "uploadPaper", "PROOF_OF_ADDRESS")
DeleteIdDocument(h) == ChangePaper(h, "deletePaper", "ID_DOCUMENT")
DeleteProofOfAddress(h) == ChangePaper(h, "deletePaper", "PROOF_OF_ADDRESS")

\* The row of that kind, which goes before its document does.
FindExisting(h) ==
    /\ On(h, "existing")
    /\ \/ /\ FiledAs({task[h].kind}) = {}
          /\ AfterDelete(h)
       \/ \E d \in FiledAs({task[h].kind}) :
            task' = [task EXCEPT ![h].pc = "remove", ![h].doc = d]
    /\ UNCHANGED <<files, jobseeker, employer, skills, past>>
RemoveExisting(h) ==
    /\ On(h, "remove")
    /\ papers' = [papers EXCEPT ![task[h].doc] = NoPaper]
    /\ Proceed(h, "find")
    /\ UNCHANGED <<objects, documents, jobseeker, employer, skills, past>>

\* The new row; a second one of its kind is refused by the unique constraint.
InsertJobseekerPaper(h) ==
    /\ On(h, "file") /\ task[h].op = "uploadPaper"
    /\ IF FiledAs({task[h].kind}) = {}
         THEN /\ papers' = [papers EXCEPT ![task[h].doc] =
                              [kind |-> task[h].kind, status |-> "PENDING"]]
              /\ Proceed(h, "reload")
         ELSE papers' = papers /\ Finish(h)
    /\ UNCHANGED <<objects, documents, jobseeker, employer, skills, past>>

-----------------------------------------------------------------------------
\* updateProfile: t is what brief or workExperience say from now on (work:
\* workExperience is given, which asks for a new review even unchanged), c
\* whether the details an approval needs are there, s what is said of skills.
Rewritten(t, work, c) ==
    Started([jobseeker EXCEPT
               !.text = t, !.complete = c,
               !.status = IF @ = "APPROVED" /\ (work \/ t # jobseeker.text)
                          THEN "PENDING" ELSE @])
UpdateProfile(h, t, work, c, s) ==
    /\ Receive(h, [Loaded EXCEPT !.op = "updateProfile", !.js = Rewritten(t, work, c),
                                 !.skill = s,
                                 !.pc = IF s = "none" THEN "reload" ELSE "unskill"])
    /\ UNCHANGED <<files, jobseeker, employer, skills, past>>

\* The links go, a skill that is named is created if need be, the new links
\* come: three statements without a transaction.  A link to a skill that was
\* given by its id fails when there is no such skill.
DeleteSkillLinks(h) ==
    /\ On(h, "unskill")
    /\ links' = FALSE
    /\ Proceed(h, CASE task[h].skill = "name" -> "skill"
                    [] task[h].skill = "id" -> "link"
                    [] task[h].skill = "empty" -> "reload")
    /\ UNCHANGED <<files, jobseeker, employer, catalog, past>>
InsertActiveSkill(h) ==
    /\ On(h, "skill")
    /\ catalog' = TRUE
    /\ Proceed(h, "link")
    /\ UNCHANGED <<files, jobseeker, employer, links, past>>
AttachSkills(h) ==
    /\ On(h, "link")
    /\ links' = catalog
    /\ IF catalog THEN Proceed(h, "reload") ELSE Finish(h)
    /\ UNCHANGED <<files, jobseeker, employer, catalog, past>>

\* The administrators' catalog of skills: createSkill, deleteSkill (its links
\* go with it).
CreateSkill ==
    /\ ~catalog
    /\ catalog' = TRUE
    /\ UNCHANGED <<files, jobseeker, employer, links, task, past>>
DeleteSkill ==
    /\ catalog
    /\ catalog' = FALSE /\ links' = FALSE
    /\ UNCHANGED <<files, jobseeker, employer, task, past>>

-----------------------------------------------------------------------------
\* updateJobseekerVerification.  An approval looks for both verification rows
\* and at what the profile says; a rejection needs a reason; what was approved
\* and is not any more has its rows set back.
ApproveJobseeker(h) ==
    /\ Receive(h, [Loaded EXCEPT !.op = "approveJobseeker", !.pc = "hasId",
                                 !.status = "APPROVED"])
    /\ UNCHANGED <<files, jobseeker, employer, skills, past>>
RejectJobseeker(h) ==
    /\ Receive(h, [Loaded EXCEPT !.op = "rejectJobseeker", !.pc = "reload",
                                 !.js.status = "REJECTED"])
    /\ UNCHANGED <<files, jobseeker, employer, skills, past>>
UnapproveJobseeker(h) ==
    /\ Receive(h, [Loaded EXCEPT !.op = IF jobseeker.status = "APPROVED"
                                        THEN "unapproveJobseeker" ELSE "resetJobseeker",
                                 !.pc = "reload", !.js.status = "PENDING"])
    /\ UNCHANGED <<files, jobseeker, employer, skills, past>>

FindIdRow(h) ==
    /\ On(h, "hasId")
    /\ IF FiledAs({"ID_DOCUMENT"}) # {} THEN Proceed(h, "hasProof") ELSE Finish(h)
    /\ UNCHANGED <<files, jobseeker, employer, skills, past>>
FindProofRow(h) ==
    /\ On(h, "hasProof")
    /\ IF FiledAs({"PROOF_OF_ADDRESS"}) # {} /\ task[h].js.complete
         THEN task' = [task EXCEPT ![h].pc = "reload", ![h].js.status = "APPROVED"]
         ELSE Finish(h)
    /\ UNCHANGED <<files, jobseeker, employer, skills, past>>

\* updateJobseekerVerificationDocument: one row, loaded and saved.
ReviewJobseekerPaper(h, d, st) ==
    /\ papers[d].kind \in JobseekerKinds
    /\ Receive(h, [Loaded EXCEPT !.op = "reviewJobseekerPaper", !.pc = "savePapers",
                                 !.status = st, !.read[d] = papers[d]])
    /\ UNCHANGED <<files, jobseeker, employer, skills, past>>

JobseekerOp == {"uploadCv", "uploadPicture", "deleteCv", "deletePicture", "uploadPaper",
                "deletePaper", "updateProfile", "approveJobseeker", "rejectJobseeker",
                "unapproveJobseeker", "resetJobseeker", "reviewJobseekerPaper"}
ListJobseekerPapers(h) == task[h].op \in JobseekerOp /\ ListPapers(h, JobseekerKinds)
SaveJobseekerPapers(h) == task[h].op \in JobseekerOp /\ SavePapers(h, Finish(h))

-----------------------------------------------------------------------------
\* save(profile): the copy to compare with, then the columns that differ,
\* unless one of them refers to a document that is gone.
ReloadJobseeker(h) ==
    /\ On(h, "reload") /\ task[h].op \in JobseekerOp
    /\ task' = [task EXCEPT ![h].pc = "write", ![h].jsSnap = jobseeker]
    /\ UNCHANGED <<files, jobseeker, employer, skills, past>>

WriteJobseeker(h) ==
    LET t == task[h]
        new == [c \in DOMAIN jobseeker |-> SaveColumn(jobseeker[c], t.jsSnap[c], t.js[c])]
    IN
    /\ On(h, "write") /\ t.op \in JobseekerOp
    /\ IF {new.cv, new.picture} \subseteq documents \cup {"none"}
         THEN /\ jobseeker' = new
              /\ reviewed' = IF t.op = "approveJobseeker" THEN t.js.text ELSE reviewed
              /\ IF t.op \in {"approveJobseeker", "unapproveJobseeker"}
                   THEN Proceed(h, "list") ELSE Finish(h)
         ELSE UNCHANGED <<jobseeker, reviewed>> /\ Finish(h)
    /\ UNCHANGED <<files, employer, skills, failed, decided>>

CvRoutes(h) == UploadCv(h) \/ DeleteCv(h)
PictureRoutes(h) == UploadProfilePicture(h) \/ DeleteProfilePicture(h)
IdDocumentRoutes(h) == UploadIdDocument(h) \/ DeleteIdDocument(h)
ProofOfAddressRoutes(h) == UploadProofOfAddress(h) \/ DeleteProofOfAddress(h)

\* A batch (uploadDocumentsBatch) makes several of the uploads one after another,
\* each from its own load of the profile: a sequence of the requests above, which
\* ends with the first that fails.
JobseekerController(h) ==
    \/ CvRoutes(h) \/ PictureRoutes(h) \/ IdDocumentRoutes(h) \/ ProofOfAddressRoutes(h)
    \/ \E t \in Texts, work, c \in BOOLEAN, s \in {"none", "name", "id", "empty"} :
          UpdateProfile(h, t, work, c, s)

JobseekerDecisions(h) ==
    \/ ApproveJobseeker(h) \/ RejectJobseeker(h) \/ UnapproveJobseeker(h)
    \/ \E d \in Docs, st \in PaperStatus : ReviewJobseekerPaper(h, d, st)

JobseekerProfileStep(h) ==
    \/ DeleteCvColumn(h) \/ DeletePictureColumn(h)
    \/ FindExisting(h) \/ RemoveExisting(h) \/ InsertJobseekerPaper(h)
    \/ DeleteSkillLinks(h) \/ InsertActiveSkill(h) \/ AttachSkills(h)
    \/ FindIdRow(h) \/ FindProofRow(h)
    \/ ListJobseekerPapers(h) \/ SaveJobseekerPapers(h)
    \/ ReloadJobseeker(h) \/ WriteJobseeker(h)
=============================================================================
