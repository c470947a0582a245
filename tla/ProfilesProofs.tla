--------------------------- MODULE ProfilesProofs ---------------------------
(***************************************************************************)
(* The profiles and their files (ProfilesInv), for any documents, texts,   *)
(* types of employer and requests.                                         *)
(*                                                                         *)
(* However many requests overlap, every row keeps its type and every       *)
(* request its course (ProfilesIInv), nobody verifies himself (Grounded),  *)
(* and no request touches the documents of another owner (FilingIInv).     *)
(* While one request at a time is about the job seeker, his approval keeps *)
(* its grounds (ReviewIInv); while there is one request at all, no file is *)
(* left behind (SoleIInv).                                                 *)
(***************************************************************************)
EXTENDS ProfilesInv, TLAPS

\* The step of one request, on its course.
Goes(h) == task' = [task EXCEPT ![h] = task'[h]] /\ OnCourse(task'[h])

-----------------------------------------------------------------------------
\* What the constants are.
LEMMA Kinds ==
    /\ EmployerKinds \subseteq {"GOVERNMENT_ISSUED_ID", "UTILITY_BILL",
                                "CAC_REGISTRATION_CERTIFICATE", "OWNER_GOVERNMENT_ID",
                                "DIRECTOR_GOVERNMENT_ID"}
    /\ EmployerKinds \cap JobseekerKinds = {}
    /\ "none" \notin EmployerKinds \cup JobseekerKinds
    /\ \A ty \in EmployerTypes : Mandatory[ty] \subseteq EmployerKinds
<1>1. \A ty \in EmployerTypes :
        Mandatory[ty] \subseteq {"GOVERNMENT_ISSUED_ID", "UTILITY_BILL",
                                 "CAC_REGISTRATION_CERTIFICATE", "OWNER_GOVERNMENT_ID",
                                 "DIRECTOR_GOVERNMENT_ID"}
  BY DocumentsAssumption DEF Mandatory
<1>2. EmployerKinds \subseteq {"GOVERNMENT_ISSUED_ID", "UTILITY_BILL",
                               "CAC_REGISTRATION_CERTIFICATE", "OWNER_GOVERNMENT_ID",
                               "DIRECTOR_GOVERNMENT_ID"}
  BY <1>1 DEF EmployerKinds
<1> QED
  BY <1>2 DEF JobseekerKinds, EmployerKinds

LEMMA Fresh0 ==
    /\ FirstText \in Texts
    /\ NoPaper \in Paper
    /\ NewJobseeker \in JobseekerProfile /\ NewEmployer \in EmployerProfile
    /\ Rest \in Task /\ OnCourse(Rest)
<1>1. FirstText \in Texts
  <2>1. \E t \in Texts : TRUE
    BY DocumentsAssumption
  <2> QED
    BY <2>1 DEF FirstText
<1>2. NoPaper \in Paper
  BY DEF NoPaper, Paper, PaperStatus
<1>3. NewJobseeker \in JobseekerProfile /\ NewEmployer \in EmployerProfile
  BY <1>1 DEF NewJobseeker, JobseekerProfile, Approval, DocColumn, NewEmployer,
              EmployerProfile, EmployerStatus
<1>4. Rest \in Task
  <2>1. [d \in Docs |-> NoPaper] \in [Docs -> Paper]
    BY <1>2
  <2> QED
    BY <1>3, <2>1 DEF Rest, Task, DocColumn, PaperStatus, Stage
<1>5. Rest.op = "none" /\ Rest.pc = "idle"
  BY DEF Rest
<1> QED
  BY <1>1, <1>2, <1>3, <1>4, <1>5 DEF OnCourse, OpsAt

LEMMA Stages ==
    /\ OpsAt("idle") = {"none"}
    /\ OpsAt("clear") = ColumnOp
    /\ OpsAt("existing") = PaperOp /\ OpsAt("remove") = PaperOp
    /\ OpsAt("find") = ColumnOp \cup PaperOp \cup {"deleteEmployerPaper"}
    /\ OpsAt("object") = OpsAt("find") /\ OpsAt("row") = OpsAt("find")
    /\ OpsAt("unlink") = {"deleteEmployerPaper"}
    /\ OpsAt("upload") = UploadOp /\ OpsAt("insert") = UploadOp
    /\ OpsAt("file") = {"uploadPaper", "uploadEmployerPaper", "uploadBatch"}
    /\ OpsAt("next") = {"uploadBatch"}
    /\ OpsAt("unskill") = {"updateProfile"} /\ OpsAt("skill") = {"updateProfile"}
    /\ OpsAt("link") = {"updateProfile"}
    /\ OpsAt("hasId") = {"approveJobseeker"} /\ OpsAt("hasProof") = {"approveJobseeker"}
    /\ OpsAt("eligible") = {"uploadEmployerPaper", "uploadBatch", "reviewEmployerPaper",
                            "autoVerify"}
    /\ OpsAt("load") = OpsAt("eligible")
    /\ OpsAt("reload") =
         (JobseekerOp \ {"deleteCv", "deletePicture", "deletePaper", "reviewJobseekerPaper"})
             \cup (EmployerOp \ {"deleteEmployerPaper", "reviewEmployerPaper"})
    /\ OpsAt("write") = OpsAt("reload")
    /\ OpsAt("list") = {"approveJobseeker", "unapproveJobseeker", "autoVerify",
                        "approveEmployer", "activate"}
    /\ OpsAt("savePapers") =
         {"approveJobseeker", "unapproveJobseeker", "reviewJobseekerPaper", "autoVerify",
          "approveEmployer", "activate", "reviewEmployerPaper"}
BY DEF OpsAt

\* The fields of a request, and the request after a change of its step.
LEMMA Fields ==
    ASSUME NEW t \in Task
    PROVE  /\ t.op \in JobseekerOp \cup EmployerOp \cup {"none"}
           /\ t.doc \in DocColumn /\ t.read \in [Docs -> Paper] /\ t.status \in PaperStatus
           /\ t.kind \in EmployerKinds \cup JobseekerKinds \cup {"none"}
           /\ t.js \in JobseekerProfile /\ t.jsSnap \in JobseekerProfile
           /\ t.em \in EmployerProfile /\ t.emSnap \in EmployerProfile
           /\ t.outer \in EmployerProfile
           /\ \A pc \in Stage : [t EXCEPT !.pc = pc] \in Task
BY DEF Task

LEMMA StageOf == \A pc, op : op \in OpsAt(pc) => pc \in Stage
BY DEF OpsAt, Stage

LEMMA ProceedGoes ==
    ASSUME ProfilesIInv, NEW h \in Requests, NEW pc, Proceed(h, pc),
           task[h].op \in OpsAt(pc), pc \notin {"insert", "unskill"}
    PROVE  Goes(h) /\ task'[h] = [task[h] EXCEPT !.pc = pc]
<1>1. task[h] \in Task /\ task \in [Requests -> Task]
  BY DEF ProfilesIInv, ProfilesTypeOK
<1>2. task' = [task EXCEPT ![h] = [task[h] EXCEPT !.pc = pc]]
  BY DEF Proceed
<1>3. task'[h] = [task[h] EXCEPT !.pc = pc]
  BY <1>1, <1>2
<1>4. [task[h] EXCEPT !.pc = pc] \in Task
  BY <1>1, StageOf, Fields
<1>5. [task[h] EXCEPT !.pc = pc].op = task[h].op /\ [task[h] EXCEPT !.pc = pc].pc = pc
  BY <1>1 DEF Task
<1> QED
  BY <1>2, <1>3, <1>4, <1>5 DEF Goes, OnCourse

LEMMA FinishGoes ==
    ASSUME ProfilesIInv, NEW h \in Requests, Finish(h)
    PROVE  Goes(h) /\ task'[h] = Rest
BY Fresh0 DEF ProfilesIInv, ProfilesTypeOK, Finish, Goes

LEMMA ReceiveGoes ==
    ASSUME ProfilesIInv, NEW h \in Requests, NEW t, Receive(h, t), OnCourse(t)
    PROVE  Goes(h) /\ task'[h] = t
BY DEF ProfilesIInv, ProfilesTypeOK, Receive, Goes

LEMMA SetGoes ==
    ASSUME ProfilesIInv, NEW h \in Requests, NEW t, task' = [task EXCEPT ![h] = t], OnCourse(t)
    PROVE  Goes(h) /\ task'[h] = t
BY DEF ProfilesIInv, ProfilesTypeOK, Goes

\* A step of one request that leaves the rest of the types alone.
LEMMA GoesKeeps ==
    ASSUME ProfilesIInv, NEW h \in Requests, Goes(h),
           objects' \subseteq Docs, documents' \subseteq Docs, papers' \in [Docs -> Paper],
           jobseeker' \in JobseekerProfile,
           employer' \in EmployerProfile, employer'.logo # "unset",
           catalog' \in BOOLEAN, links' \in BOOLEAN, failed' \in BOOLEAN, reviewed' \in Texts,
           decided' \in [whole : BOOLEAN, kinds : SUBSET EmployerKinds]
    PROVE  ProfilesIInv'
<1>1. task \in [Requests -> Task] /\ \A g \in Requests : OnCourse(task[g])
  BY DEF ProfilesIInv, ProfilesTypeOK, OnCourse
<1>2. task' \in [Requests -> Task] /\ \A g \in Requests : OnCourse(task'[g])
  BY <1>1 DEF Goes, OnCourse
<1> QED
  BY <1>2 DEF ProfilesIInv, ProfilesTypeOK, OnCourse

LEMMA GoesAlone ==
    ASSUME ProfilesIInv, NEW h \in Requests, Goes(h),
           UNCHANGED <<files, jobseeker, employer, skills, past>>
    PROVE  ProfilesIInv'
<1>1. ProfilesTypeOK
  BY DEF ProfilesIInv
<1> QED
  BY <1>1, GoesKeeps DEF ProfilesTypeOK, files, skills, past

LEMMA AfterDeleteGoes ==
    ASSUME ProfilesIInv, NEW h \in Requests, AfterDelete(h), task[h].op \in OpsAt("find")
    PROVE  /\ Goes(h)
           /\ \/ /\ task[h].op \in {"uploadCv", "uploadPicture", "uploadPaper"}
                 /\ task'[h] = [task[h] EXCEPT !.pc = "upload"]
              \/ /\ task[h].op \in {"uploadLogo", "deleteLogo"}
                 /\ task'[h] = [task[h] EXCEPT !.pc = "reload"]
              \/ /\ task[h].op = "deleteEmployerPaper"
                 /\ task'[h] = [task[h] EXCEPT !.pc = "unlink"]
              \/ /\ task[h].op \in {"deleteCv", "deletePicture", "deletePaper"}
                 /\ task'[h] = Rest
<1>1. CASE task[h].op \in {"uploadCv", "uploadPicture", "uploadPaper"}
  <2>1. Proceed(h, "upload") /\ task[h].op \in OpsAt("upload")
    BY <1>1, Stages DEF AfterDelete, UploadOp
  <2> QED
    BY <1>1, <2>1, ProceedGoes
<1>2. CASE task[h].op \in {"uploadLogo", "deleteLogo"}
  <2>1. Proceed(h, "reload") /\ task[h].op \in OpsAt("reload")
    BY <1>2, Stages DEF AfterDelete, EmployerOp
  <2> QED
    BY <1>2, <2>1, ProceedGoes
<1>3. CASE task[h].op = "deleteEmployerPaper"
  <2>1. Proceed(h, "unlink") /\ task[h].op \in OpsAt("unlink")
    BY <1>3, Stages DEF AfterDelete
  <2> QED
    BY <1>3, <2>1, ProceedGoes
<1>4. CASE task[h].op \in {"deleteCv", "deletePicture", "deletePaper"}
  <2>1. Finish(h)
    BY <1>4 DEF AfterDelete
  <2> QED
    BY <1>4, <2>1, FinishGoes
<1> QED
  BY <1>1, <1>2, <1>3, <1>4, Stages DEF ColumnOp, PaperOp

-----------------------------------------------------------------------------
\* Requests that arrive.

LEMMA LoadedIs ==
    ASSUME ProfilesIInv
    PROVE  /\ Loaded \in Task
           /\ Loaded.js = jobseeker /\ Loaded.em = employer
           /\ Loaded.jsSnap = NewJobseeker
           /\ Loaded.emSnap = NewEmployer /\ Loaded.outer = NewEmployer
           /\ Loaded.read = [d \in Docs |-> NoPaper] /\ Loaded.status = "PENDING"
           /\ Loaded.doc = "none" /\ Loaded.kind = "none"
           /\ jobseeker \in JobseekerProfile /\ employer \in EmployerProfile
           /\ papers \in [Docs -> Paper]
<1>1. /\ jobseeker \in JobseekerProfile /\ employer \in EmployerProfile
      /\ papers \in [Docs -> Paper]
  BY DEF ProfilesIInv, ProfilesTypeOK
<1>2. /\ Loaded.js = jobseeker /\ Loaded.em = employer
      /\ Loaded.jsSnap = NewJobseeker
      /\ Loaded.emSnap = NewEmployer /\ Loaded.outer = NewEmployer
      /\ Loaded.read = [d \in Docs |-> NoPaper] /\ Loaded.status = "PENDING"
      /\ Loaded.doc = "none" /\ Loaded.kind = "none"
  BY DEF Loaded, Rest
<1>3. Loaded \in Task
  BY <1>1, Fresh0 DEF Loaded, Task
<1> QED
  BY <1>1, <1>2, <1>3

\* The entities that a request starts with.
LEMMA StartedTypes ==
    ASSUME ProfilesIInv
    PROVE  /\ Started(jobseeker) \in JobseekerProfile
           /\ \A t \in Texts, work, c \in BOOLEAN : Rewritten(t, work, c) \in JobseekerProfile
           /\ StartedVerification(employer) \in EmployerProfile
<1>1. jobseeker \in JobseekerProfile /\ employer \in EmployerProfile
  BY DEF ProfilesIInv, ProfilesTypeOK
<1>2. \A j \in JobseekerProfile : Started(j) \in JobseekerProfile
  BY DEF Started, JobseekerProfile, Approval
<1>3. ASSUME NEW t \in Texts, NEW work \in BOOLEAN, NEW c \in BOOLEAN
      PROVE  Rewritten(t, work, c) \in JobseekerProfile
  <2> DEFINE j == [jobseeker EXCEPT
                     !.text = t, !.complete = c,
                     !.status = IF @ = "APPROVED" /\ (work \/ t # jobseeker.text)
                                THEN "PENDING" ELSE @]
  <2>1. j \in JobseekerProfile
    BY <1>1 DEF JobseekerProfile, Approval
  <2>2. Rewritten(t, work, c) = Started(j)
    BY DEF Rewritten
  <2> QED
    BY <1>2, <2>1, <2>2
<1>4. StartedVerification(employer) \in EmployerProfile
  BY <1>1 DEF StartedVerification, EmployerProfile, Approval
<1> QED
  BY <1>1, <1>2, <1>3, <1>4

\* The shapes in which the operations fill in the request they start.
LEMMA StartsOnCourse ==
    ASSUME NEW t \in Task, NEW op \in JobseekerOp \cup EmployerOp, NEW pc, op \in OpsAt(pc),
           pc \notin {"insert", "unskill"}
    PROVE  /\ OnCourse([t EXCEPT !.op = op, !.pc = pc])
           /\ \A js \in JobseekerProfile : OnCourse([t EXCEPT !.op = op, !.js = js, !.pc = pc])
           /\ \A em \in EmployerProfile : OnCourse([t EXCEPT !.op = op, !.pc = pc, !.em = em])
           /\ \A k \in EmployerKinds \cup JobseekerKinds :
                /\ \A js \in JobseekerProfile :
                     OnCourse([t EXCEPT !.op = op, !.pc = pc, !.kind = k, !.js = js])
                /\ \A em \in EmployerProfile :
                     OnCourse([t EXCEPT !.op = op, !.pc = pc, !.kind = k, !.em = em])
           /\ \A d \in Docs : OnCourse([t EXCEPT !.op = op, !.pc = pc, !.doc = d])
           /\ \A st \in PaperStatus : OnCourse([t EXCEPT !.op = op, !.pc = pc, !.status = st])
           /\ \A st \in PaperStatus, d \in Docs, row \in Paper :
                OnCourse([t EXCEPT !.op = op, !.pc = pc, !.status = st, !.read[d] = row])
           /\ \A st \in Approval : OnCourse([t EXCEPT !.op = op, !.pc = pc, !.js.status = st])
           /\ \A ty \in EmployerTypes \cup {"none"}, read \in [Docs -> Paper] :
                OnCourse([t EXCEPT !.op = op, !.pc = pc, !.em.type = ty, !.read = read])
           /\ \A a \in Approval, st \in PaperStatus :
                OnCourse([t EXCEPT !.op = op, !.pc = pc, !.em.verification = a, !.status = st])
           /\ \A a \in Approval, st \in PaperStatus, e \in EmployerStatus :
                OnCourse([t EXCEPT !.op = op, !.pc = pc, !.em.verification = a, !.em.status = e,
                               !.status = st])
           /\ \A e \in EmployerStatus :
                OnCourse([t EXCEPT !.op = op, !.pc = pc, !.em.status = e])
<1>0. pc \in Stage
  BY StageOf
<1>1. \A u \in Task : u.op = op /\ u.pc = pc => OnCourse(u)
  BY DEF OnCourse
<1>2. OnCourse([t EXCEPT !.op = op, !.pc = pc])
  BY <1>0, <1>1 DEF Task
<1>3. ASSUME NEW js \in JobseekerProfile
      PROVE  OnCourse([t EXCEPT !.op = op, !.js = js, !.pc = pc])
  BY <1>0, <1>1 DEF Task
<1>4. ASSUME NEW em \in EmployerProfile
      PROVE  OnCourse([t EXCEPT !.op = op, !.pc = pc, !.em = em])
  BY <1>0, <1>1 DEF Task
<1>5. ASSUME NEW k \in EmployerKinds \cup JobseekerKinds
      PROVE  /\ \A js \in JobseekerProfile :
                  OnCourse([t EXCEPT !.op = op, !.pc = pc, !.kind = k, !.js = js])
             /\ \A em \in EmployerProfile :
                  OnCourse([t EXCEPT !.op = op, !.pc = pc, !.kind = k, !.em = em])
  <2>1. ASSUME NEW js \in JobseekerProfile
        PROVE  OnCourse([t EXCEPT !.op = op, !.pc = pc, !.kind = k, !.js = js])
    BY <1>0, <1>1 DEF Task
  <2>2. ASSUME NEW em \in EmployerProfile
        PROVE  OnCourse([t EXCEPT !.op = op, !.pc = pc, !.kind = k, !.em = em])
    BY <1>0, <1>1 DEF Task
  <2> QED
    BY <2>1, <2>2, ZenonT(60)
<1>7. ASSUME NEW d \in Docs PROVE OnCourse([t EXCEPT !.op = op, !.pc = pc, !.doc = d])
  BY <1>0, <1>1 DEF Task, DocColumn
<1>8. ASSUME NEW st \in PaperStatus
      PROVE  OnCourse([t EXCEPT !.op = op, !.pc = pc, !.status = st])
  BY <1>0, <1>1 DEF Task
<1>9. ASSUME NEW st \in PaperStatus, NEW d \in Docs, NEW row \in Paper
      PROVE  OnCourse([t EXCEPT !.op = op, !.pc = pc, !.status = st, !.read[d] = row])
  <2>1. [t.read EXCEPT ![d] = row] \in [Docs -> Paper]
    BY DEF Task
  <2> DEFINE u == [t EXCEPT !.op = op, !.pc = pc, !.status = st, !.read[d] = row]
  <2>2. u = [t EXCEPT !.op = op, !.pc = pc, !.status = st,
                      !.read = [t.read EXCEPT ![d] = row]]
    BY DEF Task
  <2> QED
    BY <1>0, <1>1, <2>1, <2>2 DEF Task
<1>10. ASSUME NEW st \in Approval
       PROVE  OnCourse([t EXCEPT !.op = op, !.pc = pc, !.js.status = st])
  <2>1. [t.js EXCEPT !.status = st] \in JobseekerProfile
    BY Fields DEF JobseekerProfile
  <2> QED
    BY <1>0, <1>1, <2>1 DEF Task
<1>11. ASSUME NEW ty \in EmployerTypes \cup {"none"}, NEW read \in [Docs -> Paper]
       PROVE  OnCourse([t EXCEPT !.op = op, !.pc = pc, !.em.type = ty, !.read = read])
  <2>1. [t.em EXCEPT !.type = ty] \in EmployerProfile
    BY Fields DEF EmployerProfile
  <2> QED
    BY <1>0, <1>1, <2>1 DEF Task
<1>12. ASSUME NEW a \in Approval, NEW st \in PaperStatus
       PROVE  OnCourse([t EXCEPT !.op = op, !.pc = pc, !.em.verification = a, !.status = st])
  <2>1. [t.em EXCEPT !.verification = a] \in EmployerProfile
    BY Fields DEF EmployerProfile
  <2> QED
    BY <1>0, <1>1, <2>1 DEF Task
<1>13. ASSUME NEW a \in Approval, NEW st \in PaperStatus, NEW e \in EmployerStatus
       PROVE  OnCourse([t EXCEPT !.op = op, !.pc = pc, !.em.verification = a, !.em.status = e,
                             !.status = st])
  <2>1. [t.em EXCEPT !.verification = a, !.status = e] \in EmployerProfile
    BY Fields DEF EmployerProfile
  <2> QED
    BY <1>0, <1>1, <2>1 DEF Task
<1>14. ASSUME NEW e \in EmployerStatus
       PROVE  OnCourse([t EXCEPT !.op = op, !.pc = pc, !.em.status = e])
  <2>1. [t.em EXCEPT !.status = e] \in EmployerProfile
    BY Fields DEF EmployerProfile
  <2> QED
    BY <1>0, <1>1, <2>1 DEF Task
<1> QED
  BY <1>2, <1>3, <1>4, <1>5, <1>7, <1>8, <1>9, <1>10, <1>11, <1>12, <1>13, <1>14, ZenonT(60)

LEMMA JobseekerControllerGoes ==
    ASSUME ProfilesIInv, NEW h \in Requests, JobseekerController(h)
    PROVE  Goes(h) /\ UNCHANGED <<files, jobseeker, employer, skills, past>>
<1>1. CASE UploadCv(h)
  <2> DEFINE t == [Loaded EXCEPT !.op = "uploadCv", !.js = Started(jobseeker),
                                 !.pc = IF jobseeker.cv = "none" THEN "upload" ELSE "clear"]
  <2>1. OnCourse(t)
    BY LoadedIs, StartedTypes, Stages, StartsOnCourse, ZenonT(60)
       DEF UploadOp, ColumnOp, JobseekerOp
  <2> QED
    BY <1>1, <2>1, ReceiveGoes DEF UploadCv
<1>2. CASE UploadProfilePicture(h)
  <2> DEFINE t == [Loaded EXCEPT !.op = "uploadPicture",
                                 !.pc = IF jobseeker.picture = "none" THEN "upload" ELSE "clear"]
  <2>1. OnCourse(t)
    BY LoadedIs, Stages, StartsOnCourse, ZenonT(60) DEF UploadOp, ColumnOp, JobseekerOp
  <2> QED
    BY <1>2, <2>1, ReceiveGoes DEF UploadProfilePicture
<1>3. CASE DeleteCv(h)
  <2>1. OnCourse([Loaded EXCEPT !.op = "deleteCv", !.pc = "clear"])
    BY LoadedIs, Stages, StartsOnCourse, ZenonT(60) DEF ColumnOp, JobseekerOp
  <2> QED
    BY <1>3, <2>1, ReceiveGoes DEF DeleteCv
<1>4. CASE DeleteProfilePicture(h)
  <2>1. OnCourse([Loaded EXCEPT !.op = "deletePicture", !.pc = "clear"])
    BY LoadedIs, Stages, StartsOnCourse, ZenonT(60) DEF ColumnOp, JobseekerOp
  <2> QED
    BY <1>4, <2>1, ReceiveGoes DEF DeleteProfilePicture
<1>5. ASSUME NEW op \in PaperOp, NEW k \in JobseekerKinds, ChangePaper(h, op, k)
      PROVE  Goes(h) /\ UNCHANGED <<files, jobseeker, employer, skills, past>>
  <2> DEFINE t == [Loaded EXCEPT !.op = op, !.pc = "existing", !.kind = k,
                                 !.js = IF op = "uploadPaper" THEN Started(jobseeker)
                                        ELSE jobseeker]
  <2>1. OnCourse(t)
    BY LoadedIs, StartedTypes, Stages, StartsOnCourse, ZenonT(60) DEF PaperOp, JobseekerOp
  <2> QED
    BY <1>5, <2>1, ReceiveGoes DEF ChangePaper
<1>6. ASSUME NEW t \in Texts, NEW work \in BOOLEAN, NEW c \in BOOLEAN,
             NEW s \in {"none", "name", "id", "empty"}, UpdateProfile(h, t, work, c, s)
      PROVE  Goes(h) /\ UNCHANGED <<files, jobseeker, employer, skills, past>>
  <2> DEFINE u == [Loaded EXCEPT !.op = "updateProfile", !.js = Rewritten(t, work, c),
                                 !.skill = s,
                                 !.pc = IF s = "none" THEN "reload" ELSE "unskill"]
  <2>1. Rewritten(t, work, c) \in JobseekerProfile
    BY StartedTypes
  <2>0. (IF s = "none" THEN "reload" ELSE "unskill") \in Stage
    BY DEF Stage
  <2>a. "updateProfile" \in JobseekerOp
    BY DEF JobseekerOp
  <2>2. u \in Task /\ u.op = "updateProfile" /\ u.skill = s
        /\ u.pc = IF s = "none" THEN "reload" ELSE "unskill"
    BY <2>0, <2>a, <2>1, LoadedIs, ZenonT(60) DEF Task
  <2> HIDE DEF u
  <2>3. OnCourse(u)
    BY <2>2, Stages DEF OnCourse, JobseekerOp
  <2> QED
    BY <1>6, <2>3, ReceiveGoes DEF UpdateProfile, u
<1> QED
  BY <1>1, <1>2, <1>3, <1>4, <1>5, <1>6
     DEF JobseekerController, CvRoutes, PictureRoutes, IdDocumentRoutes, ProofOfAddressRoutes,
         UploadIdDocument, UploadProofOfAddress, DeleteIdDocument, DeleteProofOfAddress,
         PaperOp, JobseekerKinds

LEMMA JobseekerDecisionsGo ==
    ASSUME ProfilesIInv, NEW h \in Requests, JobseekerDecisions(h)
    PROVE  Goes(h) /\ UNCHANGED <<files, jobseeker, employer, skills, past>>
<1>1. CASE ApproveJobseeker(h)
  <2>1. OnCourse([Loaded EXCEPT !.op = "approveJobseeker", !.pc = "hasId", !.status = "APPROVED"])
    BY LoadedIs, Stages, StartsOnCourse, ZenonT(60) DEF PaperStatus, JobseekerOp
  <2> QED
    BY <1>1, <2>1, ReceiveGoes DEF ApproveJobseeker
<1>2. CASE RejectJobseeker(h)
  <2>1. OnCourse([Loaded EXCEPT !.op = "rejectJobseeker", !.pc = "reload",
                            !.js.status = "REJECTED"])
    BY LoadedIs, Stages, StartsOnCourse, ZenonT(60) DEF Approval, JobseekerOp
  <2> QED
    BY <1>2, <2>1, ReceiveGoes DEF RejectJobseeker
<1>3. CASE UnapproveJobseeker(h)
  <2> DEFINE op == IF jobseeker.status = "APPROVED" THEN "unapproveJobseeker"
                   ELSE "resetJobseeker"
  <2>1. OnCourse([Loaded EXCEPT !.op = op, !.pc = "reload", !.js.status = "PENDING"])
    BY LoadedIs, Stages, StartsOnCourse, ZenonT(60) DEF Approval, JobseekerOp
  <2> QED
    BY <1>3, <2>1, ReceiveGoes DEF UnapproveJobseeker
<1>4. ASSUME NEW d \in Docs, NEW st \in PaperStatus, ReviewJobseekerPaper(h, d, st)
      PROVE  Goes(h) /\ UNCHANGED <<files, jobseeker, employer, skills, past>>
  <2> DEFINE t == [Loaded EXCEPT !.op = "reviewJobseekerPaper", !.pc = "savePapers",
                                 !.status = st, !.read[d] = papers[d]]
  <2>1. OnCourse(t)
    BY LoadedIs, Stages, StartsOnCourse, ZenonT(60) DEF JobseekerOp
  <2> QED
    BY <1>4, <2>1, ReceiveGoes DEF ReviewJobseekerPaper
<1> QED
  BY <1>1, <1>2, <1>3, <1>4 DEF JobseekerDecisions

LEMMA EmployerControllerGoes ==
    ASSUME ProfilesIInv, NEW h \in Requests, EmployerController(h)
    PROVE  Goes(h) /\ UNCHANGED <<files, jobseeker, employer, skills, past>>
<1>1. ASSUME NEW ty \in EmployerTypes \cup {"none"}, UpdateVerificationInfo(h, ty)
      PROVE  Goes(h) /\ UNCHANGED <<files, jobseeker, employer, skills, past>>
  <2> DEFINE em == [StartedVerification(employer) EXCEPT !.type = IF ty = "none" THEN @ ELSE ty]
  <2>1. em \in EmployerProfile
    BY StartedTypes DEF EmployerProfile
  <2>2. OnCourse([Loaded EXCEPT !.op = "updateInfo", !.pc = "reload", !.em = em])
    BY <2>1, LoadedIs, Stages, StartsOnCourse, ZenonT(60) DEF EmployerOp
  <2> QED
    BY <1>1, <2>2, ReceiveGoes DEF UpdateVerificationInfo
<1>2. ASSUME NEW ty \in EmployerTypes \cup {"none"}, UpdateEmployerProfile(h, ty)
      PROVE  Goes(h) /\ UNCHANGED <<files, jobseeker, employer, skills, past>>
  <2> DEFINE read == [d \in Docs |-> IF papers[d].kind \in EmployerKinds
                                     THEN papers[d] ELSE NoPaper]
             ty2 == IF ty = "none" THEN Loaded.em.type ELSE ty
  <2>1. read \in [Docs -> Paper] /\ ty2 \in EmployerTypes \cup {"none"}
    BY LoadedIs, Fresh0 DEF EmployerProfile
  <2> HIDE DEF read, ty2
  <2>2. OnCourse([Loaded EXCEPT !.op = "updateEmployer", !.pc = "reload", !.em.type = ty2,
                            !.read = read])
    BY <2>1, LoadedIs, Stages, StartsOnCourse, ZenonT(60) DEF EmployerOp
  <2>3. Receive(h, [Loaded EXCEPT !.op = "updateEmployer", !.pc = "reload", !.em.type = ty2,
                                  !.read = read])
    BY <1>2 DEF UpdateEmployerProfile, read, ty2
  <2> QED
    BY <1>2, <2>2, <2>3, ReceiveGoes DEF UpdateEmployerProfile
<1>3. ASSUME NEW k \in EmployerKinds, UploadVerificationDocument(h, k)
      PROVE  Goes(h) /\ UNCHANGED <<files, jobseeker, employer, skills, past>>
  <2>1. OnCourse([Loaded EXCEPT !.op = "uploadEmployerPaper", !.pc = "reload", !.kind = k,
                            !.em = StartedVerification(employer)])
    BY LoadedIs, StartedTypes, Stages, StartsOnCourse, ZenonT(60) DEF EmployerOp
  <2> QED
    BY <1>3, <2>1, ReceiveGoes DEF UploadVerificationDocument
<1>4. CASE UploadVerificationDocumentsBatch(h)
  <2>1. OnCourse([Loaded EXCEPT !.op = "uploadBatch", !.pc = "next",
                            !.em = StartedVerification(employer)])
    BY LoadedIs, StartedTypes, Stages, StartsOnCourse, ZenonT(60) DEF EmployerOp
  <2> QED
    BY <1>4, <2>1, ReceiveGoes DEF UploadVerificationDocumentsBatch
<1>5. ASSUME NEW d \in Docs, DeleteVerificationDocument(h, d)
      PROVE  Goes(h) /\ UNCHANGED <<files, jobseeker, employer, skills, past>>
  <2>1. OnCourse([Loaded EXCEPT !.op = "deleteEmployerPaper", !.pc = "find", !.doc = d])
    BY LoadedIs, Stages, StartsOnCourse, ZenonT(60) DEF EmployerOp
  <2> QED
    BY <1>5, <2>1, ReceiveGoes DEF DeleteVerificationDocument
<1>6. CASE AutoVerify(h)
  <2>1. OnCourse([Loaded EXCEPT !.op = "autoVerify", !.pc = "eligible"])
    BY LoadedIs, Stages, StartsOnCourse, ZenonT(60) DEF EmployerOp
  <2> QED
    BY <1>6, <2>1, ReceiveGoes DEF AutoVerify
<1>7. CASE UploadCompanyLogo(h)
  <2>1. OnCourse([Loaded EXCEPT !.op = "uploadLogo",
                            !.pc = IF employer.logo = "none" THEN "upload" ELSE "clear"])
    BY LoadedIs, Stages, StartsOnCourse, ZenonT(60) DEF EmployerOp, UploadOp, ColumnOp
  <2> QED
    BY <1>7, <2>1, ReceiveGoes DEF UploadCompanyLogo
<1>8. CASE DeleteCompanyLogo(h)
  <2>1. OnCourse([Loaded EXCEPT !.op = "deleteLogo", !.pc = "clear"])
    BY LoadedIs, Stages, StartsOnCourse, ZenonT(60) DEF EmployerOp, ColumnOp
  <2> QED
    BY <1>8, <2>1, ReceiveGoes DEF DeleteCompanyLogo
<1> QED
  BY <1>1, <1>2, <1>3, <1>4, <1>5, <1>6, <1>7, <1>8
     DEF EmployerController, VerificationRoutes, ProfileRoutes

\* The decisions of administrators, which are remembered.
LEMMA EmployerDecisionsGo ==
    ASSUME ProfilesIInv, NEW h \in Requests, EmployerDecisions(h)
    PROVE  /\ Goes(h) /\ UNCHANGED <<files, jobseeker, employer, skills, failed, reviewed>>
           /\ decided' \in [whole : BOOLEAN, kinds : SUBSET EmployerKinds]
           /\ decided.whole => decided'.whole
           /\ decided.kinds \subseteq decided'.kinds
<1>0. decided \in [whole : BOOLEAN, kinds : SUBSET EmployerKinds]
  BY DEF ProfilesIInv, ProfilesTypeOK
<1>1. DecideWhole => /\ decided' \in [whole : BOOLEAN, kinds : SUBSET EmployerKinds]
                     /\ decided'.whole /\ decided.kinds \subseteq decided'.kinds
  BY <1>0, ZenonT(60) DEF DecideWhole
<1>2. \A k \in EmployerKinds : DecideKind(k) =>
        /\ decided' \in [whole : BOOLEAN, kinds : SUBSET EmployerKinds]
        /\ decided'.whole = decided.whole /\ decided'.kinds = decided.kinds \cup {k}
  BY <1>0 DEF DecideKind
<1>3. ASSUME NEW st \in Approval, SetVerification(h, st)
      PROVE  /\ Goes(h) /\ UNCHANGED <<files, jobseeker, employer, skills, failed, reviewed>>
             /\ DecideWhole \/ UNCHANGED decided
  <2> DEFINE op == IF st = "APPROVED" THEN "approveEmployer" ELSE "setVerification"
  <2>1. OnCourse([Loaded EXCEPT !.op = op, !.pc = "reload", !.em.verification = st,
                            !.status = "APPROVED"])
    BY LoadedIs, Stages, StartsOnCourse, ZenonT(60) DEF EmployerOp, PaperStatus
  <2> QED
    BY <1>3, <2>1, ReceiveGoes DEF SetVerification
<1>4. ASSUME NEW st \in EmployerStatus, UpdateEmployerStatus(h, st)
      PROVE  /\ Goes(h) /\ UNCHANGED <<files, jobseeker, employer, skills, failed, reviewed>>
             /\ DecideWhole \/ UNCHANGED decided
  <2>1. OnCourse([Loaded EXCEPT !.op = "activate", !.pc = "list", !.em.verification = "APPROVED",
                            !.em.status = st, !.status = "APPROVED"])
    BY LoadedIs, Stages, StartsOnCourse, ZenonT(60) DEF EmployerOp, PaperStatus, Approval
  <2>2. OnCourse([Loaded EXCEPT !.op = "setStatus", !.pc = "reload", !.em.status = st])
    BY LoadedIs, Stages, StartsOnCourse, ZenonT(60) DEF EmployerOp
  <2> QED
    BY <1>4, <2>1, <2>2, ReceiveGoes DEF UpdateEmployerStatus
<1>5. ASSUME NEW d \in Docs, NEW st \in PaperStatus, ReviewEmployerPaper(h, d, st)
      PROVE  /\ Goes(h) /\ UNCHANGED <<files, jobseeker, employer, skills, failed, reviewed>>
             /\ DecideKind(papers[d].kind) \/ UNCHANGED decided
             /\ papers[d].kind \in EmployerKinds
  <2>1. papers[d] \in Paper
    BY LoadedIs
  <2>2. OnCourse([Loaded EXCEPT !.op = "reviewEmployerPaper", !.pc = "savePapers",
                            !.status = st, !.read[d] = papers[d]])
    BY <2>1, LoadedIs, Stages, StartsOnCourse, ZenonT(60) DEF EmployerOp
  <2> QED
    BY <1>5, <2>2, ReceiveGoes DEF ReviewEmployerPaper
<1> QED
  BY <1>0, <1>1, <1>2, <1>3, <1>4, <1>5 DEF EmployerDecisions

-----------------------------------------------------------------------------
\* The steps of a request.

\* The steps that only read, or write what no document is.
Reads(h) ==
    \/ DeleteCvColumn(h) \/ DeletePictureColumn(h) \/ FindExisting(h)
    \/ FindIdRow(h) \/ FindProofRow(h)
    \/ ListJobseekerPapers(h) \/ ReloadJobseeker(h)
    \/ NextOfBatch(h) \/ DeleteLogoColumn(h) \/ CheckEligible(h) \/ LoadForAutoVerification(h)
    \/ ListEmployerPapers(h) \/ ReloadEmployer(h) \/ FindDocument(h)

LEMMA DeleteColumnGoes ==
    ASSUME ProfilesIInv, NEW h \in Requests, DeleteCvColumn(h) \/ DeletePictureColumn(h)
    PROVE  Goes(h) /\ UNCHANGED <<files, jobseeker, employer, skills, past>>
<1>0. task[h] \in Task /\ jobseeker \in JobseekerProfile /\ task[h].op \in OpsAt(task[h].pc)
  BY DEF ProfilesIInv, ProfilesTypeOK, OnCourse
<1>1. task[h].op \in OpsAt("find") /\ On(h, "clear")
  BY <1>0, Stages DEF DeleteCvColumn, DeletePictureColumn, DeleteColumn, On
<1>2. ASSUME NEW c \in {"cv", "picture"}, DeleteColumn(h, c), jobseeker[c] # "none"
      PROVE  Goes(h)
  <2> DEFINE js == [task[h].js EXCEPT ![c] = "none"]
             t == [task[h] EXCEPT !.pc = "find", !.doc = jobseeker[c], !.js = js]
  <2>1. jobseeker[c] \in DocColumn
    BY <1>0 DEF JobseekerProfile
  <2>2. js \in JobseekerProfile
    <3>1. CASE c = "cv"
      BY <1>0, <3>1, Fields DEF JobseekerProfile, DocColumn
    <3>2. CASE c = "picture"
      BY <1>0, <3>2, Fields DEF JobseekerProfile, DocColumn
    <3> QED
      BY <3>1, <3>2
  <2> HIDE DEF js
  <2>3. t \in Task /\ t.op = task[h].op /\ t.pc = "find"
    BY <1>0, <2>1, <2>2, ZenonT(60) DEF Task, Stage
  <2>4. task' = [task EXCEPT ![h] = t]
    <3>1. task \in [Requests -> Task]
      BY DEF ProfilesIInv, ProfilesTypeOK
    <3> QED
      BY <1>0, <1>2, <3>1 DEF DeleteColumn, js, Task
  <2> HIDE DEF t
  <2> QED
    BY <1>1, <2>3, <2>4, SetGoes DEF OnCourse
<1>3. ASSUME NEW c \in {"cv", "picture"}, DeleteColumn(h, c), jobseeker[c] = "none"
      PROVE  Goes(h)
  BY <1>1, <1>3, AfterDeleteGoes, ZenonT(60) DEF DeleteColumn
<1> QED
  BY <1>2, <1>3 DEF DeleteCvColumn, DeletePictureColumn, DeleteColumn

LEMMA OnAt ==
    ASSUME ProfilesIInv, NEW h \in Requests, NEW pc, On(h, pc)
    PROVE  /\ task \in [Requests -> Task] /\ task[h] \in Task
           /\ task[h].pc = pc /\ task[h].op \in OpsAt(pc)
BY DEF ProfilesIInv, ProfilesTypeOK, OnCourse, On

\* The shapes in which a step changes its request.
LEMMA StaysOnCourse ==
    ASSUME NEW t \in Task, NEW pc, t.op \in OpsAt(pc), pc # "unskill"
    PROVE  /\ \A d \in Docs : OnCourse([t EXCEPT !.pc = pc, !.doc = d])
           /\ pc # "insert" => \A k \in EmployerKinds : OnCourse([t EXCEPT !.pc = pc, !.kind = k])
           /\ pc # "insert" => \A read \in [Docs -> Paper] : OnCourse([t EXCEPT !.pc = pc, !.read = read])
           /\ pc # "insert" => \A js \in JobseekerProfile :
                /\ OnCourse([t EXCEPT !.pc = pc, !.jsSnap = js])
                /\ OnCourse([t EXCEPT !.pc = pc, !.js = js])
           /\ pc # "insert" => \A em \in EmployerProfile :
                /\ OnCourse([t EXCEPT !.pc = pc, !.emSnap = em])
                /\ OnCourse([t EXCEPT !.pc = pc, !.em = em])
           /\ pc # "insert" => \A d \in DocColumn, outer, em \in EmployerProfile :
                OnCourse([t EXCEPT !.pc = pc, !.doc = d, !.outer = outer, !.em = em])
<1>0. pc \in Stage
  BY StageOf
<1>1. \A u \in Task : u.op = t.op /\ u.pc = pc /\ (pc = "insert" => u.doc \in Docs)
        => OnCourse(u)
  BY DEF OnCourse
<1>2. \A d \in Docs : OnCourse([t EXCEPT !.pc = pc, !.doc = d])
  BY <1>0, <1>1 DEF Task, DocColumn
<1>3. pc # "insert" => \A k \in EmployerKinds : OnCourse([t EXCEPT !.pc = pc, !.kind = k])
  BY <1>0, <1>1 DEF Task
<1>4. pc # "insert" => \A read \in [Docs -> Paper] : OnCourse([t EXCEPT !.pc = pc, !.read = read])
  BY <1>0, <1>1 DEF Task
<1>5. pc # "insert" => \A js \in JobseekerProfile : OnCourse([t EXCEPT !.pc = pc, !.jsSnap = js])
  BY <1>0, <1>1 DEF Task
<1>6. pc # "insert" => \A js \in JobseekerProfile : OnCourse([t EXCEPT !.pc = pc, !.js = js])
  BY <1>0, <1>1 DEF Task
<1>7. pc # "insert" => \A em \in EmployerProfile : OnCourse([t EXCEPT !.pc = pc, !.emSnap = em])
  BY <1>0, <1>1 DEF Task
<1>8. pc # "insert" => \A em \in EmployerProfile : OnCourse([t EXCEPT !.pc = pc, !.em = em])
  BY <1>0, <1>1 DEF Task
<1>9. pc # "insert" => \A d \in DocColumn, outer, em \in EmployerProfile :
        OnCourse([t EXCEPT !.pc = pc, !.doc = d, !.outer = outer, !.em = em])
  BY <1>0, <1>1 DEF Task
<1> QED
  BY <1>2, <1>3, <1>4, <1>5, <1>6, <1>7, <1>8, <1>9, ZenonT(60)

LEMMA ReadsGo ==
    ASSUME ProfilesIInv, NEW h \in Requests, Reads(h)
    PROVE  Goes(h) /\ UNCHANGED <<files, jobseeker, employer, skills, past>>
<1>a. UNCHANGED <<files, jobseeker, employer, skills, past>>
  BY DeleteColumnGoes
     DEF Reads, FindExisting, FindIdRow, FindProofRow, ListJobseekerPapers, ReloadJobseeker,
         NextOfBatch, DeleteLogoColumn, CheckEligible, LoadForAutoVerification,
         ListEmployerPapers, ListPapers, ReloadEmployer, FindDocument
<1> SUFFICES Goes(h)
  BY <1>a
<1>0. /\ papers \in [Docs -> Paper] /\ jobseeker \in JobseekerProfile
      /\ employer \in EmployerProfile /\ task \in [Requests -> Task] /\ task[h] \in Task
  BY DEF ProfilesIInv, ProfilesTypeOK
<1>1. CASE FindExisting(h)
  <2>0. task[h].op \in PaperOp
    BY <1>1, OnAt, Stages DEF FindExisting
  <2>1. CASE AfterDelete(h)
    BY <2>0, <2>1, AfterDeleteGoes, Stages
  <2>2. ASSUME NEW d \in Docs, task' = [task EXCEPT ![h].pc = "remove", ![h].doc = d]
        PROVE  Goes(h)
    <3> DEFINE t == [task[h] EXCEPT !.pc = "remove", !.doc = d]
    <3>1. OnCourse(t)
      BY <1>0, <2>0, Stages, StaysOnCourse, ZenonT(60)
    <3>2. task' = [task EXCEPT ![h] = t]
      BY <1>0, <2>2 DEF Task
    <3> QED
      BY <3>1, <3>2, SetGoes, ZenonT(60)
  <2> QED
    BY <1>1, <2>1, <2>2 DEF FindExisting, FiledAs
<1>2. CASE FindIdRow(h)
  <2>1. task[h].op \in OpsAt("hasProof")
    BY <1>2, OnAt, Stages DEF FindIdRow
  <2> QED
    BY <1>2, <2>1, ProceedGoes, FinishGoes DEF FindIdRow
<1>3. CASE FindProofRow(h)
  <2>0. task[h].op = "approveJobseeker"
    BY <1>3, OnAt, Stages DEF FindProofRow
  <2>1. CASE task' = [task EXCEPT ![h].pc = "reload", ![h].js.status = "APPROVED"]
    <3> DEFINE t == [task[h] EXCEPT !.pc = "reload", !.js.status = "APPROVED"]
    <3>1. [task[h].js EXCEPT !.status = "APPROVED"] \in JobseekerProfile
      BY <1>0, Fields DEF JobseekerProfile, Approval
    <3>2. OnCourse([task[h] EXCEPT !.pc = "reload",
                              !.js = [task[h].js EXCEPT !.status = "APPROVED"]])
      BY <1>0, <2>0, <3>1, Stages, StaysOnCourse, ZenonT(60) DEF JobseekerOp
    <3>3. task' = [task EXCEPT ![h] = t] /\ OnCourse(t)
      BY <1>0, <2>1, <3>2 DEF Task
    <3> QED
      BY <3>3, SetGoes, ZenonT(60)
  <2> QED
    BY <1>3, <2>1, FinishGoes DEF FindProofRow
<1>4. ASSUME NEW kinds, ListPapers(h, kinds) PROVE Goes(h)
  <2> DEFINE read == [d \in Docs |-> IF papers[d].kind \in kinds THEN papers[d] ELSE NoPaper]
             t == [task[h] EXCEPT !.pc = "savePapers", !.read = read]
  <2>0. task[h].op \in OpsAt("list")
    BY <1>4, OnAt DEF ListPapers
  <2>1. read \in [Docs -> Paper]
    BY <1>0, Fresh0
  <2> HIDE DEF read
  <2>2. OnCourse(t)
    BY <1>0, <2>0, <2>1, Stages, StaysOnCourse, ZenonT(60)
  <2>3. task' = [task EXCEPT ![h] = t]
    BY <1>0, <1>4 DEF ListPapers, read, Task
  <2> QED
    BY <2>2, <2>3, SetGoes
<1>5. CASE ReloadJobseeker(h)
  <2> DEFINE t == [task[h] EXCEPT !.pc = "write", !.jsSnap = jobseeker]
  <2>0. task[h].op \in OpsAt("write")
    BY <1>5, OnAt, Stages DEF ReloadJobseeker
  <2>1. OnCourse(t)
    BY <1>0, <2>0, StaysOnCourse, ZenonT(60)
  <2>2. task' = [task EXCEPT ![h] = t]
    BY <1>0, <1>5 DEF ReloadJobseeker, Task
  <2> QED
    BY <2>1, <2>2, SetGoes
<1>6. CASE NextOfBatch(h)
  <2>0. task[h].op = "uploadBatch"
    BY <1>6, OnAt, Stages DEF NextOfBatch
  <2>1. CASE Proceed(h, "reload")
    BY <2>0, <2>1, ProceedGoes, Stages DEF EmployerOp
  <2>2. ASSUME NEW k \in EmployerKinds, task' = [task EXCEPT ![h].pc = "upload", ![h].kind = k]
        PROVE  Goes(h)
    <3> DEFINE t == [task[h] EXCEPT !.pc = "upload", !.kind = k]
    <3>1. OnCourse(t)
      BY <1>0, <2>0, Stages, StaysOnCourse, ZenonT(60) DEF UploadOp
    <3>2. task' = [task EXCEPT ![h] = t]
      BY <1>0, <2>2 DEF Task
    <3> QED
      BY <3>1, <3>2, SetGoes
  <2> QED
    BY <1>6, <2>1, <2>2 DEF NextOfBatch
<1>7. CASE DeleteLogoColumn(h)
  <2>0. task[h].op \in {"uploadLogo", "deleteLogo"}
    BY <1>7 DEF DeleteLogoColumn
  <2>1. CASE employer.logo # "none"
    <3> DEFINE em == [employer EXCEPT !.logo = "unset"]
               outer == [task[h].em EXCEPT !.logo = "none"]
               t == [task[h] EXCEPT !.pc = "find", !.doc = employer.logo, !.outer = outer,
                                    !.em = em]
    <3>1. em \in EmployerProfile /\ outer \in EmployerProfile /\ employer.logo \in DocColumn
      BY <1>0, Fields DEF EmployerProfile, DocColumn, ProfilesIInv, ProfilesTypeOK
    <3> HIDE DEF em, outer
    <3>2. OnCourse(t)
      BY <1>0, <2>0, <3>1, Stages, StaysOnCourse, ZenonT(60) DEF ColumnOp
    <3>3. task' = [task EXCEPT ![h] = t]
      BY <1>0, <1>7, <2>1 DEF DeleteLogoColumn, em, outer, Task
    <3> QED
      BY <3>2, <3>3, SetGoes
  <2>2. CASE employer.logo = "none"
    BY <1>7, <2>0, <2>2, ProceedGoes, FinishGoes, Stages DEF DeleteLogoColumn, UploadOp
  <2> QED
    BY <2>1, <2>2
<1>8. CASE CheckEligible(h)
  <2>1. task[h].op \in OpsAt("load")
    BY <1>8, OnAt, Stages DEF CheckEligible
  <2> QED
    BY <1>8, <2>1, ProceedGoes, FinishGoes, ZenonT(60) DEF CheckEligible
<1>9. CASE LoadForAutoVerification(h)
  <2>1. OnCourse([Loaded EXCEPT !.op = "autoVerify", !.pc = "reload",
                            !.em.verification = "APPROVED", !.status = "APPROVED"])
    BY LoadedIs, Stages, StartsOnCourse, ZenonT(60) DEF EmployerOp, Approval, PaperStatus
  <2> QED
    BY <1>9, <2>1, SetGoes, FinishGoes DEF LoadForAutoVerification
<1>10. CASE ReloadEmployer(h)
  <2>1. CASE Finish(h)
    BY <2>1, FinishGoes
  <2>2. CASE task' = [task EXCEPT ![h].pc = "write", ![h].emSnap = employer]
    <3> DEFINE t == [task[h] EXCEPT !.pc = "write", !.emSnap = employer]
    <3>0. task[h].op \in OpsAt("write")
      BY <1>10, OnAt, Stages DEF ReloadEmployer
    <3>1. OnCourse(t)
      BY <1>0, <3>0, StaysOnCourse, ZenonT(60)
    <3>2. task' = [task EXCEPT ![h] = t]
      BY <1>0, <2>2 DEF Task
    <3> QED
      BY <3>1, <3>2, SetGoes, ZenonT(60)
  <2> QED
    BY <1>10, <2>1, <2>2 DEF ReloadEmployer
<1>11. CASE FindDocument(h)
  <2>1. task[h].op \in OpsAt("find") /\ OpsAt("object") = OpsAt("find")
    BY <1>11, OnAt, Stages DEF FindDocument
  <2> QED
    BY <1>11, <2>1, ProceedGoes, AfterDeleteGoes DEF FindDocument
<1> QED
  BY <1>1, <1>2, <1>3, <1>4, <1>5, <1>6, <1>7, <1>8, <1>9, <1>10, <1>11, DeleteColumnGoes
     DEF Reads, ListJobseekerPapers, ListEmployerPapers

\* The entities after a save: column by column the row or the entity in memory.
SavedJobseeker(t) ==
    [c \in DOMAIN jobseeker |-> SaveColumn(jobseeker[c], t.jsSnap[c], t.js[c])]
SavedEmployer(t) ==
    LET mem == IF t.em.logo = "unset" THEN [t.em EXCEPT !.logo = t.emSnap.logo] ELSE t.em
    IN [c \in DOMAIN employer |-> SaveColumn(employer[c], t.emSnap[c], mem[c])]

LEMMA SavedJobseekerIs ==
    ASSUME ProfilesIInv, NEW t \in Task
    PROVE  /\ SavedJobseeker(t) \in JobseekerProfile
           /\ SavedJobseeker(t).cv \in {jobseeker.cv, t.js.cv}
           /\ SavedJobseeker(t).picture \in {jobseeker.picture, t.js.picture}
           /\ t.jsSnap.status = jobseeker.status => SavedJobseeker(t).status = t.js.status
           /\ t.jsSnap.text = jobseeker.text => SavedJobseeker(t).text = t.js.text
           /\ t.jsSnap = jobseeker => SavedJobseeker(t) = t.js
<1> DEFINE n == SavedJobseeker(t)
<1>0. jobseeker \in JobseekerProfile /\ t.js \in JobseekerProfile /\ t.jsSnap \in JobseekerProfile
  BY Fields DEF ProfilesIInv, ProfilesTypeOK
<1>1. DOMAIN jobseeker = {"status", "text", "complete", "cv", "picture"}
  BY <1>0 DEF JobseekerProfile
<1>2. /\ n.status = SaveColumn(jobseeker.status, t.jsSnap.status, t.js.status)
      /\ n.text = SaveColumn(jobseeker.text, t.jsSnap.text, t.js.text)
      /\ n.complete = SaveColumn(jobseeker.complete, t.jsSnap.complete, t.js.complete)
      /\ n.cv = SaveColumn(jobseeker.cv, t.jsSnap.cv, t.js.cv)
      /\ n.picture = SaveColumn(jobseeker.picture, t.jsSnap.picture, t.js.picture)
  BY <1>1 DEF SavedJobseeker
<1>3. n = [status |-> n.status, text |-> n.text, complete |-> n.complete, cv |-> n.cv,
           picture |-> n.picture]
  BY <1>1 DEF SavedJobseeker
<1> HIDE DEF n
<1>4. /\ n.status \in Approval /\ n.text \in Texts /\ n.complete \in BOOLEAN
      /\ n.cv \in DocColumn /\ n.picture \in DocColumn
  BY <1>0, <1>2 DEF SaveColumn, JobseekerProfile
<1>5. n \in JobseekerProfile
  BY <1>3, <1>4 DEF JobseekerProfile
<1>6. ASSUME t.jsSnap = jobseeker PROVE n = t.js
  <2>1. /\ n.status = t.js.status /\ n.text = t.js.text /\ n.complete = t.js.complete
        /\ n.cv = t.js.cv /\ n.picture = t.js.picture
    BY <1>0, <1>2, <1>6 DEF SaveColumn
  <2> QED
    BY <1>0, <1>3, <2>1 DEF JobseekerProfile
<1>7. /\ n.cv \in {jobseeker.cv, t.js.cv} /\ n.picture \in {jobseeker.picture, t.js.picture}
      /\ t.jsSnap.status = jobseeker.status => n.status = t.js.status
      /\ t.jsSnap.text = jobseeker.text => n.text = t.js.text
  BY <1>2 DEF SaveColumn
<1> QED
  BY <1>5, <1>6, <1>7 DEF n

LEMMA SavedEmployerIs ==
    ASSUME ProfilesIInv, NEW t \in Task
    PROVE  /\ SavedEmployer(t) \in EmployerProfile
           /\ SavedEmployer(t).verification \in {employer.verification, t.em.verification}
           /\ SavedEmployer(t).logo \in {employer.logo, t.em.logo}
           /\ t.emSnap = employer =>
                SavedEmployer(t).logo = IF t.em.logo = "unset" THEN employer.logo
                                        ELSE t.em.logo
<1> DEFINE n == SavedEmployer(t)
           mem == IF t.em.logo = "unset" THEN [t.em EXCEPT !.logo = t.emSnap.logo] ELSE t.em
<1>0. employer \in EmployerProfile /\ t.em \in EmployerProfile /\ t.emSnap \in EmployerProfile
  BY Fields DEF ProfilesIInv, ProfilesTypeOK
<1>1. DOMAIN employer = {"verification", "status", "type", "logo"}
  BY <1>0 DEF EmployerProfile
<1>2. /\ mem \in EmployerProfile /\ mem.verification = t.em.verification
      /\ mem.logo = IF t.em.logo = "unset" THEN t.emSnap.logo ELSE t.em.logo
  BY <1>0 DEF EmployerProfile
<1>3. n = [c \in DOMAIN employer |-> SaveColumn(employer[c], t.emSnap[c], mem[c])]
  BY DEF SavedEmployer
<1> HIDE DEF mem
<1>4. /\ n.verification = SaveColumn(employer.verification, t.emSnap.verification,
                                     mem.verification)
      /\ n.status = SaveColumn(employer.status, t.emSnap.status, mem.status)
      /\ n.type = SaveColumn(employer.type, t.emSnap.type, mem.type)
      /\ n.logo = SaveColumn(employer.logo, t.emSnap.logo, mem.logo)
  BY <1>1, <1>3
<1>5. n = [verification |-> n.verification, status |-> n.status, type |-> n.type,
           logo |-> n.logo]
  BY <1>1, <1>3
<1> HIDE DEF n
<1>6. /\ n.verification \in Approval /\ n.status \in EmployerStatus
      /\ n.type \in EmployerTypes \cup {"none"} /\ n.logo \in DocColumn \cup {"unset"}
  BY <1>0, <1>2, <1>4 DEF SaveColumn, EmployerProfile
<1>7. n \in EmployerProfile
  BY <1>5, <1>6 DEF EmployerProfile
<1>8. n.verification \in {employer.verification, t.em.verification}
  BY <1>2, <1>4 DEF SaveColumn
<1>9. t.emSnap = employer =>
        n.logo = IF t.em.logo = "unset" THEN employer.logo ELSE t.em.logo
  BY <1>2, <1>4 DEF SaveColumn
<1>10. n.logo \in {employer.logo, t.em.logo}
  BY <1>2, <1>4 DEF SaveColumn
<1> QED
  BY <1>7, <1>8, <1>9, <1>10 DEF n

\* After a save.
LEMMA WriteJobseekerDoes ==
    ASSUME ProfilesIInv, NEW h \in Requests, WriteJobseeker(h)
    PROVE  /\ Goes(h) /\ UNCHANGED <<files, employer, skills, failed, decided>>
           /\ task[h].pc = "write" /\ task[h].op \in OpsAt("write") \cap JobseekerOp
           /\ \/ /\ {SavedJobseeker(task[h]).cv, SavedJobseeker(task[h]).picture}
                       \subseteq documents \cup {"none"}
                 /\ jobseeker' = SavedJobseeker(task[h])
                 /\ reviewed' = IF task[h].op = "approveJobseeker" THEN task[h].js.text
                                ELSE reviewed
                 /\ IF task[h].op \in {"approveJobseeker", "unapproveJobseeker"}
                    THEN task'[h] = [task[h] EXCEPT !.pc = "list"]
                    ELSE task'[h] = Rest
              \/ /\ ~({SavedJobseeker(task[h]).cv, SavedJobseeker(task[h]).picture}
                        \subseteq documents \cup {"none"})
                 /\ UNCHANGED <<jobseeker, reviewed>> /\ task'[h] = Rest
<1>1. /\ task[h].pc = "write" /\ task[h].op \in OpsAt("write") \cap JobseekerOp
      /\ UNCHANGED <<files, employer, skills, failed, decided>>
  BY OnAt DEF WriteJobseeker, On
<1> DEFINE ok == {SavedJobseeker(task[h]).cv, SavedJobseeker(task[h]).picture}
                   \subseteq documents \cup {"none"}
<1>2. CASE ok
  <2>1. /\ jobseeker' = SavedJobseeker(task[h])
        /\ reviewed' = IF task[h].op = "approveJobseeker" THEN task[h].js.text ELSE reviewed
        /\ IF task[h].op \in {"approveJobseeker", "unapproveJobseeker"}
           THEN Proceed(h, "list") ELSE Finish(h)
    BY <1>2 DEF WriteJobseeker, SavedJobseeker
  <2>2. CASE task[h].op \in {"approveJobseeker", "unapproveJobseeker"}
    <3>1. task[h].op \in OpsAt("list")
      BY <2>2, Stages
    <3> QED
      BY <1>1, <1>2, <2>1, <2>2, <3>1, ProceedGoes
  <2>3. CASE task[h].op \notin {"approveJobseeker", "unapproveJobseeker"}
    BY <1>1, <1>2, <2>1, <2>3, FinishGoes
  <2> QED
    BY <2>2, <2>3
<1>3. CASE ~ok
  <2>1. UNCHANGED <<jobseeker, reviewed>> /\ Finish(h)
    BY <1>3 DEF WriteJobseeker, SavedJobseeker
  <2> QED
    BY <1>1, <1>3, <2>1, FinishGoes
<1> QED
  BY <1>2, <1>3

LEMMA WriteEmployerDoes ==
    ASSUME ProfilesIInv, NEW h \in Requests, WriteEmployer(h)
    PROVE  /\ Goes(h) /\ UNCHANGED <<files, jobseeker, skills, past>>
           /\ task[h].pc = "write" /\ task[h].op \in OpsAt("write") \cap EmployerOp
           /\ \/ /\ SavedEmployer(task[h]).logo \in documents \cup {"none"}
                 /\ employer' = SavedEmployer(task[h])
                 /\ \/ /\ task[h].op = "uploadEmployerPaper"
                       /\ task'[h] = [task[h] EXCEPT !.pc = "upload"]
                    \/ /\ task[h].op = "uploadBatch"
                       /\ task'[h] = [task[h] EXCEPT !.pc = "eligible"]
                    \/ /\ task[h].op \in {"autoVerify", "approveEmployer"}
                       /\ task'[h] = [task[h] EXCEPT !.pc = "list"]
                    \/ /\ task[h].op = "uploadLogo" /\ task[h].em.logo = "unset"
                       /\ task'[h] = [task[h] EXCEPT !.pc = "upload", !.em = task[h].outer]
                    \/ task'[h] = Rest
              \/ /\ SavedEmployer(task[h]).logo \notin documents \cup {"none"}
                 /\ employer' = employer /\ task'[h] = Rest
<1>1. /\ task[h].pc = "write" /\ task[h].op \in OpsAt("write") \cap EmployerOp
      /\ UNCHANGED <<files, jobseeker, skills, past>>
      /\ task[h] \in Task /\ task \in [Requests -> Task]
  BY OnAt DEF WriteEmployer, On
<1>2. CASE SavedEmployer(task[h]).logo \in documents \cup {"none"}
  <2>1. employer' = SavedEmployer(task[h]) /\ AfterWrite(h)
    BY <1>2 DEF WriteEmployer, SavedEmployer
  <2>2. CASE task[h].op = "uploadEmployerPaper"
    BY <1>1, <1>2, <2>1, <2>2, ProceedGoes, Stages DEF AfterWrite, UploadOp
  <2>3. CASE task[h].op = "uploadBatch"
    BY <1>1, <1>2, <2>1, <2>3, ProceedGoes, Stages DEF AfterWrite
  <2>4. CASE task[h].op \in {"autoVerify", "approveEmployer"}
    BY <1>1, <1>2, <2>1, <2>4, ProceedGoes, Stages DEF AfterWrite
  <2>5. CASE task[h].op = "uploadLogo" /\ task[h].em.logo = "unset"
    <3> DEFINE t == [task[h] EXCEPT !.pc = "upload", !.em = task[h].outer]
    <3>1. OnCourse(t)
      BY <1>1, <2>5, Stages, StaysOnCourse, Fields, ZenonT(60) DEF UploadOp
    <3>2. task' = [task EXCEPT ![h] = t]
      BY <1>1, <2>1, <2>5 DEF AfterWrite, Task
    <3> QED
      BY <1>1, <1>2, <2>1, <2>5, <3>1, <3>2, SetGoes
  <2>6. CASE /\ task[h].op \notin {"uploadEmployerPaper", "uploadBatch", "autoVerify",
                                  "approveEmployer"}
             /\ ~(task[h].op = "uploadLogo" /\ task[h].em.logo = "unset")
    <3>1. Finish(h)
      BY <2>1, <2>6 DEF AfterWrite
    <3> QED
      BY <1>1, <1>2, <2>1, <3>1, FinishGoes
  <2> QED
    BY <2>2, <2>3, <2>4, <2>5, <2>6
<1>3. CASE SavedEmployer(task[h]).logo \notin documents \cup {"none"}
  <2>1. employer' = employer /\ Finish(h)
    BY <1>3 DEF WriteEmployer, SavedEmployer
  <2> QED
    BY <1>1, <1>3, <2>1, FinishGoes
<1> QED
  BY <1>2, <1>3

\* Verification rows are saved with a status, as read, or not at all.
LEMMA SavePapersDoes ==
    ASSUME ProfilesIInv, NEW h \in Requests, SaveJobseekerPapers(h) \/ SaveEmployerPapers(h)
    PROVE  /\ Goes(h)
           /\ UNCHANGED <<objects, documents, jobseeker, employer, skills, past>>
           /\ task[h].pc = "savePapers" /\ task[h].op \in OpsAt("savePapers")
           /\ Restamped(h) \in [Docs -> Paper]
           /\ \/ /\ CanSavePapers(h) /\ papers' = Restamped(h)
                 /\ \/ /\ task[h].op = "activate"
                       /\ task'[h] = [task[h] EXCEPT !.pc = "reload"]
                    \/ /\ task[h].op = "reviewEmployerPaper"
                       /\ task'[h] = [task[h] EXCEPT !.pc = "eligible"]
                    \/ task'[h] = Rest
              \/ papers' = papers /\ task'[h] = Rest
<1> DEFINE after == CASE task[h].op = "activate" -> Proceed(h, "reload")
                      [] task[h].op = "reviewEmployerPaper" -> Proceed(h, "eligible")
                      [] OTHER -> Finish(h)
<1>1. /\ task[h].pc = "savePapers" /\ task[h].op \in OpsAt("savePapers")
      /\ UNCHANGED <<objects, documents, jobseeker, employer, skills, past>>
      /\ task[h] \in Task /\ papers \in [Docs -> Paper]
  BY OnAt DEF SaveJobseekerPapers, SaveEmployerPapers, SavePapers, On,
              ProfilesIInv, ProfilesTypeOK
<1>2. Restamped(h) \in [Docs -> Paper]
  <2>1. \A d \in Docs : [task[h].read[d] EXCEPT !.status = task[h].status] \in Paper
    BY <1>1, Fields DEF Paper
  <2> QED
    BY <1>1, <2>1 DEF Restamped
<1>3. \/ /\ CanSavePapers(h) /\ papers' = Restamped(h)
         /\ \/ task[h].op \in JobseekerOp /\ Finish(h)
            \/ after
      \/ papers' = papers /\ Finish(h)
  BY DEF SaveJobseekerPapers, SaveEmployerPapers, SavePapers
<1>4. ASSUME after
      PROVE  /\ Goes(h)
             /\ \/ /\ task[h].op = "activate"
                   /\ task'[h] = [task[h] EXCEPT !.pc = "reload"]
                \/ /\ task[h].op = "reviewEmployerPaper"
                   /\ task'[h] = [task[h] EXCEPT !.pc = "eligible"]
                \/ task'[h] = Rest
  <2>1. CASE task[h].op = "activate"
    BY <1>4, <2>1, ProceedGoes, Stages DEF EmployerOp
  <2>2. CASE task[h].op = "reviewEmployerPaper"
    BY <1>4, <2>2, ProceedGoes, Stages
  <2>3. CASE task[h].op \notin {"activate", "reviewEmployerPaper"}
    BY <1>4, <2>3, FinishGoes
  <2> QED
    BY <2>1, <2>2, <2>3
<1> HIDE DEF after
<1> QED
  BY <1>1, <1>2, <1>3, <1>4, FinishGoes

\* The documents row goes, with what refers to it.
LEMMA RemoveDocumentDoes ==
    ASSUME ProfilesIInv, NEW h \in Requests, RemoveDocument(h)
    PROVE  /\ Goes(h) /\ UNCHANGED <<objects, skills, past>>
           /\ task[h].pc = "row" /\ task[h].op \in OpsAt("find")
           /\ documents' = documents \ {task[h].doc}
           /\ papers' \in [Docs -> Paper]
           /\ \A d \in Docs : papers'[d] = IF d = task[h].doc THEN NoPaper ELSE papers[d]
           /\ jobseeker' \in JobseekerProfile
           /\ jobseeker'.status = jobseeker.status /\ jobseeker'.text = jobseeker.text
           /\ jobseeker'.cv = SetNull(jobseeker.cv, task[h].doc)
           /\ jobseeker'.picture = SetNull(jobseeker.picture, task[h].doc)
           /\ employer' \in EmployerProfile
           /\ employer'.verification = employer.verification
           /\ employer'.logo = SetNull(employer.logo, task[h].doc)
           /\ AfterDelete(h)
<1>1. /\ papers \in [Docs -> Paper] /\ jobseeker \in JobseekerProfile
      /\ employer \in EmployerProfile /\ task[h] \in Task
  BY DEF ProfilesIInv, ProfilesTypeOK
<1>2. task[h].pc = "row" /\ task[h].op \in OpsAt("find")
  BY OnAt, Stages DEF RemoveDocument, On
<1>3. Goes(h)
  BY <1>2, AfterDeleteGoes DEF RemoveDocument
<1>4. /\ papers' \in [Docs -> Paper]
      /\ \A d \in Docs : papers'[d] = IF d = task[h].doc THEN NoPaper ELSE papers[d]
  BY <1>1, Fresh0 DEF RemoveDocument
<1>5. /\ jobseeker' \in JobseekerProfile
      /\ jobseeker'.status = jobseeker.status /\ jobseeker'.text = jobseeker.text
      /\ jobseeker'.cv = SetNull(jobseeker.cv, task[h].doc)
      /\ jobseeker'.picture = SetNull(jobseeker.picture, task[h].doc)
  BY <1>1 DEF RemoveDocument, JobseekerProfile, SetNull, DocColumn
<1>6. /\ employer' \in EmployerProfile
      /\ employer'.verification = employer.verification
      /\ employer'.logo = SetNull(employer.logo, task[h].doc)
  BY <1>1 DEF RemoveDocument, EmployerProfile, SetNull, DocColumn
<1> QED
  BY <1>2, <1>3, <1>4, <1>5, <1>6 DEF RemoveDocument

LEMMA UploadFileDoes ==
    ASSUME ProfilesIInv, NEW h \in Requests, NEW d \in Docs, UploadFile(h, d)
    PROVE  /\ Goes(h) /\ UNCHANGED <<documents, papers, jobseeker, employer, skills, past>>
           /\ objects' = objects \cup {d} /\ d \notin objects \cup documents
           /\ task[h].pc = "upload" /\ task[h].op \in UploadOp
           /\ task'[h] = [task[h] EXCEPT !.pc = "insert", !.doc = d]
<1> DEFINE t == [task[h] EXCEPT !.pc = "insert", !.doc = d]
<1>1. /\ task \in [Requests -> Task] /\ task[h] \in Task
      /\ task[h].pc = "upload" /\ task[h].op \in UploadOp
  BY OnAt, Stages DEF UploadFile, On
<1>2. OnCourse(t)
  BY <1>1, Stages, StaysOnCourse, ZenonT(60)
<1>3. task' = [task EXCEPT ![h] = t]
  BY <1>1 DEF UploadFile, Task
<1> QED
  BY <1>1, <1>2, <1>3, SetGoes DEF UploadFile, Fresh

LEMMA InsertDocumentDoes ==
    ASSUME ProfilesIInv, NEW h \in Requests, InsertDocument(h)
    PROVE  /\ Goes(h) /\ UNCHANGED <<objects, papers, jobseeker, employer, skills, past>>
           /\ task[h].pc = "insert" /\ task[h].op \in UploadOp
           /\ documents' = documents \cup {task[h].doc}
           /\ \/ /\ task[h].op = "uploadCv"
                 /\ task'[h] = [task[h] EXCEPT !.pc = "reload",
                                  !.js = [task[h].js EXCEPT !.cv = task[h].doc]]
              \/ /\ task[h].op = "uploadPicture"
                 /\ task'[h] = [task[h] EXCEPT !.pc = "reload",
                                  !.js = [task[h].js EXCEPT !.picture = task[h].doc]]
              \/ /\ task[h].op = "uploadLogo"
                 /\ task'[h] = [task[h] EXCEPT !.pc = "reload",
                                  !.em = [task[h].em EXCEPT !.logo = task[h].doc]]
              \/ /\ task[h].op \in OpsAt("file")
                 /\ task'[h] = [task[h] EXCEPT !.pc = "file"]
<1>1. /\ task \in [Requests -> Task] /\ task[h] \in Task
      /\ task[h].pc = "insert" /\ task[h].op \in UploadOp
      /\ task[h].doc \in DocColumn
      /\ task[h].js \in JobseekerProfile /\ task[h].em \in EmployerProfile
  BY OnAt, Stages, Fields DEF InsertDocument, On
<1>2. /\ documents' = documents \cup {task[h].doc}
      /\ UNCHANGED <<objects, papers, jobseeker, employer, skills, past>>
  BY DEF InsertDocument
<1>3. /\ [task[h].js EXCEPT !.cv = task[h].doc] \in JobseekerProfile
      /\ [task[h].js EXCEPT !.picture = task[h].doc] \in JobseekerProfile
      /\ [task[h].em EXCEPT !.logo = task[h].doc] \in EmployerProfile
  BY <1>1 DEF JobseekerProfile, EmployerProfile
<1>4. CASE task[h].op = "uploadCv"
  <2> DEFINE t == [task[h] EXCEPT !.pc = "reload",
                                  !.js = [task[h].js EXCEPT !.cv = task[h].doc]]
  <2>1. OnCourse(t)
    BY <1>1, <1>3, <1>4, Stages, StaysOnCourse, ZenonT(60) DEF JobseekerOp
  <2>2. task' = [task EXCEPT ![h] = t]
    BY <1>1, <1>4 DEF InsertDocument, Task
  <2> QED
    BY <1>1, <1>2, <1>4, <2>1, <2>2, SetGoes, ZenonT(60)
<1>5. CASE task[h].op = "uploadPicture"
  <2> DEFINE t == [task[h] EXCEPT !.pc = "reload",
                                  !.js = [task[h].js EXCEPT !.picture = task[h].doc]]
  <2>1. OnCourse(t)
    BY <1>1, <1>3, <1>5, Stages, StaysOnCourse, ZenonT(60) DEF JobseekerOp
  <2>2. task' = [task EXCEPT ![h] = t]
    BY <1>1, <1>5 DEF InsertDocument, Task
  <2> QED
    BY <1>1, <1>2, <1>5, <2>1, <2>2, SetGoes
<1>6. CASE task[h].op = "uploadLogo"
  <2> DEFINE t == [task[h] EXCEPT !.pc = "reload",
                                  !.em = [task[h].em EXCEPT !.logo = task[h].doc]]
  <2>1. OnCourse(t)
    BY <1>1, <1>3, <1>6, Stages, StaysOnCourse, ZenonT(60) DEF EmployerOp
  <2>2. task' = [task EXCEPT ![h] = t]
    BY <1>1, <1>6 DEF InsertDocument, Task
  <2> QED
    BY <1>1, <1>2, <1>6, <2>1, <2>2, SetGoes
<1>7. CASE task[h].op \in {"uploadPaper", "uploadEmployerPaper", "uploadBatch"}
  <2>1. task[h].op \in OpsAt("file")
    BY <1>7, Stages
  <2>2. Proceed(h, "file")
    BY <1>1, <1>7 DEF InsertDocument, Proceed, Task
  <2> QED
    BY <1>1, <1>2, <2>1, <2>2, ProceedGoes
<1> QED
  BY <1>1, <1>4, <1>5, <1>6, <1>7 DEF UploadOp

\* The three statements on skills.
LEMMA SkillStepsGo ==
    ASSUME ProfilesIInv, NEW h \in Requests,
           DeleteSkillLinks(h) \/ InsertActiveSkill(h) \/ AttachSkills(h)
    PROVE  /\ Goes(h) /\ UNCHANGED <<files, jobseeker, employer, past>>
           /\ task[h].pc \in {"unskill", "skill", "link"} /\ task[h].op = "updateProfile"
           /\ \/ task'[h] = Rest
              \/ \E pc \in {"skill", "link", "reload"} : task'[h] = [task[h] EXCEPT !.pc = pc]
<1>1. /\ task[h].op = "updateProfile" /\ task[h].skill \in {"none", "name", "id", "empty"}
      /\ task[h].pc \in {"unskill", "skill", "link"}
      /\ UNCHANGED <<files, jobseeker, employer, past>>
  BY OnAt, Stages DEF DeleteSkillLinks, InsertActiveSkill, AttachSkills, On, Task
<1>2. /\ task[h].op \in OpsAt("skill") /\ task[h].op \in OpsAt("link")
      /\ task[h].op \in OpsAt("reload")
  BY <1>1, Stages DEF JobseekerOp
<1>3. (\E pc \in {"skill", "link", "reload"} : Proceed(h, pc)) \/ Finish(h)
  <2>1. CASE DeleteSkillLinks(h)
    <3>1. task[h].skill # "none"
      BY <2>1 DEF DeleteSkillLinks, On, ProfilesIInv, OnCourse
    <3> QED
      BY <1>1, <2>1, <3>1 DEF DeleteSkillLinks
  <2>2. CASE InsertActiveSkill(h) \/ AttachSkills(h)
    BY <2>2 DEF InsertActiveSkill, AttachSkills
  <2> QED
    BY <2>1, <2>2
<1> QED
  BY <1>1, <1>2, <1>3, ProceedGoes, FinishGoes

-----------------------------------------------------------------------------
\* Types and courses are kept.
LEMMA StepKeepsTypes ==
    ASSUME ProfilesIInv, NEW h \in Requests, ProfilesStep(h)
    PROVE  ProfilesIInv'
<1>0. /\ ProfilesTypeOK /\ papers \in [Docs -> Paper] /\ task[h] \in Task
      /\ task[h].doc \in DocColumn
  BY Fields DEF ProfilesIInv, ProfilesTypeOK
<1>1. CASE Reads(h)
  BY <1>1, ReadsGo, GoesAlone
<1>2. CASE RemoveExisting(h)
  <2>1. Goes(h)
    BY <1>2, OnAt, Stages, ProceedGoes DEF RemoveExisting
  <2>2. papers' \in [Docs -> Paper]
    BY <1>0, <1>2, Fresh0 DEF RemoveExisting
  <2> QED
    BY <1>0, <1>2, <2>1, <2>2, GoesKeeps DEF RemoveExisting, ProfilesTypeOK, skills, past
<1>3. CASE InsertJobseekerPaper(h) \/ InsertEmployerPaper(h)
  <2>1. [kind |-> task[h].kind, status |-> "PENDING"] \in Paper
    BY <1>0, Fields DEF Paper, PaperStatus
  <2>2. papers' \in [Docs -> Paper]
    BY <1>0, <1>3, <2>1 DEF InsertJobseekerPaper, InsertEmployerPaper
  <2>3. Goes(h)
    <3>1. CASE InsertJobseekerPaper(h)
      <4>1. task[h].op \in OpsAt("reload")
        BY <3>1, Stages DEF InsertJobseekerPaper, JobseekerOp
      <4> QED
        BY <3>1, <4>1, ProceedGoes, FinishGoes DEF InsertJobseekerPaper
    <3>2. CASE InsertEmployerPaper(h)
      <4>1. CASE task[h].op = "uploadBatch"
        BY <3>2, <4>1, ProceedGoes, Stages DEF InsertEmployerPaper
      <4>2. CASE task[h].op = "uploadEmployerPaper"
        BY <3>2, <4>2, ProceedGoes, Stages DEF InsertEmployerPaper
      <4> QED
        BY <3>2, <4>1, <4>2 DEF InsertEmployerPaper
    <3> QED
      BY <1>3, <3>1, <3>2
  <2> QED
    BY <1>0, <1>3, <2>2, <2>3, GoesKeeps
       DEF InsertJobseekerPaper, InsertEmployerPaper, ProfilesTypeOK, skills, past
<1>4. CASE DeleteSkillLinks(h) \/ InsertActiveSkill(h) \/ AttachSkills(h)
  <2>1. catalog' \in BOOLEAN /\ links' \in BOOLEAN
    BY <1>0, <1>4 DEF DeleteSkillLinks, InsertActiveSkill, AttachSkills, ProfilesTypeOK
  <2> QED
    BY <1>0, <1>4, <2>1, SkillStepsGo, GoesKeeps DEF ProfilesTypeOK, files, past
<1>5. CASE SaveJobseekerPapers(h) \/ SaveEmployerPapers(h)
  BY <1>0, <1>5, SavePapersDoes, GoesKeeps DEF ProfilesTypeOK, skills, past
<1>6. CASE WriteJobseeker(h)
  <2>1. /\ SavedJobseeker(task[h]) \in JobseekerProfile
        /\ task[h].js.text \in Texts /\ reviewed \in Texts /\ jobseeker \in JobseekerProfile
    BY <1>0, SavedJobseekerIs, Fields DEF JobseekerProfile, ProfilesTypeOK
  <2>2. /\ reviewed' \in {reviewed, task[h].js.text}
        /\ jobseeker' \in {jobseeker, SavedJobseeker(task[h])}
    BY <1>6, WriteJobseekerDoes
  <2>3. reviewed' \in Texts /\ jobseeker' \in JobseekerProfile
    BY <2>1, <2>2
  <2>4. Goes(h) /\ UNCHANGED <<files, employer, skills, failed, decided>>
    BY <1>6, WriteJobseekerDoes
  <2> QED
    BY <1>0, <2>3, <2>4, GoesKeeps DEF ProfilesTypeOK, files, skills
<1>7. CASE WriteEmployer(h)
  <2> DEFINE new == SavedEmployer(task[h])
  <2>0. new \in EmployerProfile /\ documents \subseteq Docs
    BY <1>0, SavedEmployerIs DEF ProfilesTypeOK
  <2>a. (employer' = new /\ new.logo \in documents \cup {"none"}) \/ employer' = employer
    BY <1>7, WriteEmployerDoes, ZenonT(60)
  <2> HIDE DEF new
  <2>1. employer' \in EmployerProfile /\ employer'.logo # "unset"
    BY <1>0, <2>0, <2>a, DocumentsAssumption DEF ProfilesTypeOK
  <2>2. Goes(h) /\ UNCHANGED <<files, jobseeker, skills, past>>
    BY <1>7, WriteEmployerDoes, ZenonT(60)
  <2> QED
    BY <1>0, <2>1, <2>2, GoesKeeps DEF ProfilesTypeOK, files, skills, past
<1>8. CASE RemoveEmployerPaper(h)
  <2>1. Goes(h)
    BY <1>8, FinishGoes DEF RemoveEmployerPaper
  <2>2. papers' \in [Docs -> Paper]
    BY <1>0, <1>8, Fresh0 DEF RemoveEmployerPaper
  <2> QED
    BY <1>0, <1>8, <2>1, <2>2, GoesKeeps DEF RemoveEmployerPaper, ProfilesTypeOK, skills, past
<1>9. CASE DeleteFile(h)
  <2>1. Goes(h)
    BY <1>9, OnAt, Stages, ProceedGoes DEF DeleteFile
  <2> QED
    BY <1>0, <1>9, <2>1, GoesKeeps DEF DeleteFile, ProfilesTypeOK, skills, past
<1>10. CASE RemoveDocument(h)
  <2>1. employer'.logo # "unset"
    BY <1>0, <1>10, RemoveDocumentDoes DEF ProfilesTypeOK, SetNull
  <2> QED
    BY <1>0, <1>10, <2>1, RemoveDocumentDoes, GoesKeeps DEF ProfilesTypeOK, skills, past
<1>11. ASSUME NEW d \in Docs, UploadFile(h, d) PROVE ProfilesIInv'
  <2>1. /\ Goes(h) /\ objects' \subseteq Docs
        /\ UNCHANGED <<documents, papers, jobseeker, employer, skills, past>>
    BY <1>0, <1>11, UploadFileDoes DEF ProfilesTypeOK
  <2>2. UNCHANGED <<catalog, links, failed, reviewed, decided>>
    BY <2>1 DEF skills, past
  <2> QED
    BY <1>0, <2>1, <2>2, GoesKeeps DEF ProfilesTypeOK
<1>12. CASE InsertDocument(h)
  <2>1. task[h].doc \in Docs
    BY <1>12 DEF InsertDocument, On, ProfilesIInv, OnCourse
  <2> QED
    BY <1>0, <1>12, <2>1, InsertDocumentDoes, GoesKeeps, ZenonT(60)
       DEF ProfilesTypeOK, skills, past
<1> QED
  BY <1>1, <1>2, <1>3, <1>4, <1>5, <1>6, <1>7, <1>8, <1>9, <1>10, <1>11, <1>12
     DEF ProfilesStep, JobseekerProfileStep, EmployerProfileStep, StorageStep, Reads

LEMMA TypesInitially == ProfilesInit => ProfilesIInv
<1> SUFFICES ASSUME ProfilesInit PROVE ProfilesIInv
  OBVIOUS
<1>1. papers \in [Docs -> Paper]
  BY Fresh0 DEF ProfilesInit
<1>2. jobseeker \in JobseekerProfile
  BY Fresh0 DEF ProfilesInit, JobseekerProfile, Approval
<1>3. employer \in EmployerProfile /\ employer.logo # "unset"
  BY Fresh0 DEF ProfilesInit, EmployerProfile, NewEmployer
<1>4. task \in [Requests -> Task] /\ \A h \in Requests : OnCourse(task[h])
  BY Fresh0 DEF ProfilesInit
<1>5. decided \in [whole : BOOLEAN, kinds : SUBSET EmployerKinds]
  BY DEF ProfilesInit
<1> QED
  BY <1>1, <1>2, <1>3, <1>4, <1>5, Fresh0 DEF ProfilesInit, ProfilesIInv, ProfilesTypeOK

LEMMA TypesKept == ProfilesIInv /\ [ProfilesNext]_profileVars => ProfilesIInv'
<1> SUFFICES ASSUME ProfilesIInv, [ProfilesNext]_profileVars PROVE ProfilesIInv'
  OBVIOUS
<1>0. ProfilesTypeOK
  BY DEF ProfilesIInv
<1>1. CASE UNCHANGED profileVars
  BY <1>1 DEF profileVars, files, skills, past, ProfilesIInv, ProfilesTypeOK
<1>2. CASE CreateSkill \/ DeleteSkill
  BY <1>2 DEF CreateSkill, DeleteSkill, files, past, ProfilesIInv, ProfilesTypeOK
<1>3. ASSUME NEW h \in Requests, JobseekerController(h) \/ JobseekerDecisions(h)
                                 \/ EmployerController(h)
      PROVE  ProfilesIInv'
  BY <1>3, JobseekerControllerGoes, JobseekerDecisionsGo, EmployerControllerGoes, GoesAlone
<1>4. ASSUME NEW h \in Requests, EmployerDecisions(h) PROVE ProfilesIInv'
  BY <1>0, <1>4, EmployerDecisionsGo, GoesKeeps DEF ProfilesTypeOK, files, skills
<1>5. ASSUME NEW h \in Requests, CallFails(h) PROVE ProfilesIInv'
  BY <1>0, <1>5, FinishGoes, GoesKeeps DEF CallFails, ProfilesTypeOK, files, skills
<1> QED
  BY <1>1, <1>2, <1>3, <1>4, <1>5, StepKeepsTypes DEF ProfilesNext

\* However many requests are in flight, every row, column and request keeps its
\* type and every request takes a course of its service (ProfilesInv).
THEOREM CoursesInvariance == ProfilesSpec => []ProfilesIInv
BY TypesInitially, TypesKept, PTL DEF ProfilesSpec

-----------------------------------------------------------------------------
\* Nobody verifies himself.

\* Rulings are never taken back.
LEMMA RulingsGrow ==
    ASSUME NEW t, NEW D, NEW E, D.whole => E.whole, D.kinds \subseteq E.kinds
    PROVE  /\ VouchedBy(D) => VouchedBy(E)
           /\ Sound(t, D) => Sound(t, E)
           /\ PaperGrounded(t, D) => PaperGrounded(t, E)
           /\ RequestGrounded(t, D) => RequestGrounded(t, E)
<1>1. VouchedBy(D) => VouchedBy(E)
  BY DEF VouchedBy
<1>2. /\ Sound(t, D) => Sound(t, E)
      /\ Sound(t.em, D) => Sound(t.em, E)
      /\ Sound(t.emSnap, D) => Sound(t.emSnap, E)
      /\ Sound(t.outer, D) => Sound(t.outer, E)
  BY <1>1 DEF Sound
<1> QED
  BY <1>1, <1>2 DEF PaperGrounded, RequestGrounded

\* A step of one request, which has its grounds after it.
LEMMA GroundsKept ==
    ASSUME Grounded, NEW h \in Requests, Goes(h), task \in [Requests -> Task],
           decided.whole => decided'.whole, decided.kinds \subseteq decided'.kinds,
           RequestGrounded(task'[h], decided'),
           Sound(employer', decided'), \A d \in Docs : PaperGrounded(papers'[d], decided')
    PROVE  Grounded'
<1>1. ASSUME NEW g \in Requests, g # h PROVE RequestGrounded(task'[g], decided')
  <2>1. task'[g] = task[g]
    BY <1>1 DEF Goes
  <2>2. RequestGrounded(task[g], decided)
    BY DEF Grounded
  <2> QED
    BY <2>1, <2>2, RulingsGrow
<1> QED
  BY <1>1 DEF Grounded

\* ... and which changes neither the employer's row nor its documents.
LEMMA GroundsAlone ==
    ASSUME Grounded, NEW h \in Requests, Goes(h), task \in [Requests -> Task],
           decided.whole => decided'.whole, decided.kinds \subseteq decided'.kinds,
           RequestGrounded(task'[h], decided'), UNCHANGED <<papers, employer>>
    PROVE  Grounded'
<1>1. Sound(employer', decided')
  BY RulingsGrow DEF Grounded
<1>2. \A d \in Docs : PaperGrounded(papers'[d], decided')
  BY RulingsGrow DEF Grounded
<1> QED
  BY <1>1, <1>2, GroundsKept

\* A request that has ended, one that has gone on to another step, and one whose
\* employer entities are the same but for its step.
LEMMA RestGrounded ==
    ASSUME NEW D
    PROVE  RequestGrounded(Rest, D)
<1>1. /\ Rest.op = "none" /\ Rest.pc = "idle" /\ Rest.em = NewEmployer
      /\ Rest.emSnap = NewEmployer /\ Rest.outer = NewEmployer
  BY DEF Rest
<1>2. Sound(NewEmployer, D)
  BY DEF Sound, NewEmployer
<1> QED
  BY <1>1, <1>2 DEF RequestGrounded

LEMMA NextGrounded ==
    ASSUME NEW t, NEW u, NEW D, RequestGrounded(t, D), u.op = t.op,
           u.em = t.em, u.emSnap = t.emSnap, u.outer = t.outer,
           u.pc \notin {"load", "savePapers"}, u.op = "autoVerify" => t.pc # "eligible"
    PROVE  RequestGrounded(u, D)
BY DEF RequestGrounded

\* A request that starts and decides nothing about the employer.
LEMMA StartGrounded ==
    ASSUME Grounded, NEW u, u.em = employer, u.emSnap = NewEmployer, u.outer = NewEmployer,
           u.op \notin {"approveEmployer", "activate"}, u.pc # "load",
           u.op = "autoVerify" => u.pc = "eligible", u.pc # "savePapers"
    PROVE  RequestGrounded(u, decided)
BY DEF RequestGrounded, Grounded, Sound, NewEmployer

LEMMA ArrivalsGrounded ==
    ASSUME ProfilesIInv, Grounded, NEW h \in Requests,
           JobseekerController(h) \/ JobseekerDecisions(h) \/ EmployerController(h)
    PROVE  Grounded'
<1>0. /\ Goes(h) /\ UNCHANGED <<files, jobseeker, employer, skills, past>>
      /\ task \in [Requests -> Task] /\ employer \in EmployerProfile
      /\ papers \in [Docs -> Paper]
  BY JobseekerControllerGoes, JobseekerDecisionsGo, EmployerControllerGoes
     DEF ProfilesIInv, ProfilesTypeOK
<1> SUFFICES RequestGrounded(task'[h], decided)
  BY <1>0, GroundsAlone DEF files, past
<1>1. CASE JobseekerController(h)
  <2>1. ASSUME NEW t, Receive(h, t), t.em = employer, t.emSnap = NewEmployer,
               t.outer = NewEmployer, t.op \in JobseekerOp, t.pc \notin {"load", "savePapers"}
        PROVE  RequestGrounded(task'[h], decided)
    <3>1. task'[h] = t
      BY <1>0, <2>1 DEF Receive
    <3>2. t.op \notin {"approveEmployer", "activate", "autoVerify"}
      BY <2>1 DEF JobseekerOp
    <3> QED
      BY <2>1, <3>1, <3>2, StartGrounded
  <2>2. Loaded.em = employer /\ Loaded.emSnap = NewEmployer /\ Loaded.outer = NewEmployer
        /\ Loaded \in Task
    BY LoadedIs
  <2>3. CASE UploadCv(h)
    BY <2>1, <2>2, <2>3 DEF UploadCv, Task, JobseekerOp
  <2>4. CASE UploadProfilePicture(h)
    BY <2>1, <2>2, <2>4 DEF UploadProfilePicture, Task, JobseekerOp
  <2>5. CASE DeleteCv(h) \/ DeleteProfilePicture(h)
    BY <2>1, <2>2, <2>5 DEF DeleteCv, DeleteProfilePicture, Task, JobseekerOp
  <2>6. ASSUME NEW op \in PaperOp, NEW k, ChangePaper(h, op, k)
        PROVE  RequestGrounded(task'[h], decided)
    BY <2>1, <2>2, <2>6 DEF ChangePaper, Task, JobseekerOp, PaperOp
  <2>7. ASSUME NEW t, NEW work, NEW c, NEW s, UpdateProfile(h, t, work, c, s)
        PROVE  RequestGrounded(task'[h], decided)
    BY <2>1, <2>2, <2>7 DEF UpdateProfile, Task, JobseekerOp
  <2> QED
    BY <1>1, <2>3, <2>4, <2>5, <2>6, <2>7
       DEF JobseekerController, CvRoutes, PictureRoutes, IdDocumentRoutes,
           ProofOfAddressRoutes, UploadIdDocument, UploadProofOfAddress, DeleteIdDocument,
           DeleteProofOfAddress, PaperOp
<1>2. CASE JobseekerDecisions(h)
  <2>0. Loaded.em = employer /\ Loaded.emSnap = NewEmployer /\ Loaded.outer = NewEmployer
        /\ Loaded \in Task /\ Loaded.read = [d \in Docs |-> NoPaper]
    BY LoadedIs
  <2>1. ASSUME NEW t, Receive(h, t), t.em = employer, t.emSnap = NewEmployer,
               t.outer = NewEmployer, t.op \in JobseekerOp, t.pc # "load",
               \A d \in Docs : t.read[d] # NoPaper => t.read[d].kind \in JobseekerKinds
        PROVE  RequestGrounded(task'[h], decided)
    <3>1. task'[h] = t
      BY <1>0, <2>1 DEF Receive
    <3>2. t.op \notin {"approveEmployer", "activate", "autoVerify", "reviewEmployerPaper"}
      BY <2>1 DEF JobseekerOp
    <3>3. Sound(employer, decided) /\ Sound(NewEmployer, decided)
      BY DEF Grounded, Sound, NewEmployer
    <3> QED
      BY <2>1, <3>1, <3>2, <3>3 DEF RequestGrounded
  <2>2. CASE ApproveJobseeker(h)
    <3> DEFINE t == [Loaded EXCEPT !.op = "approveJobseeker", !.pc = "hasId",
                                   !.status = "APPROVED"]
    <3>1. /\ t.em = employer /\ t.emSnap = NewEmployer /\ t.outer = NewEmployer
          /\ t.op = "approveJobseeker" /\ t.pc = "hasId"
          /\ t.read = [d \in Docs |-> NoPaper]
      BY <2>0 DEF Task
    <3> QED
      BY <2>1, <2>2, <3>1, ZenonT(60) DEF ApproveJobseeker, JobseekerOp
  <2>3. CASE RejectJobseeker(h)
    <3> DEFINE t == [Loaded EXCEPT !.op = "rejectJobseeker", !.pc = "reload",
                                   !.js.status = "REJECTED"]
    <3>1. /\ t.em = employer /\ t.emSnap = NewEmployer /\ t.outer = NewEmployer
          /\ t.op = "rejectJobseeker" /\ t.pc = "reload"
          /\ t.read = [d \in Docs |-> NoPaper]
      BY <2>0 DEF Task
    <3> QED
      BY <2>1, <2>3, <3>1, ZenonT(60) DEF RejectJobseeker, JobseekerOp
  <2>4. CASE UnapproveJobseeker(h)
    <3> DEFINE op == IF jobseeker.status = "APPROVED" THEN "unapproveJobseeker"
                     ELSE "resetJobseeker"
               t == [Loaded EXCEPT !.op = op, !.pc = "reload", !.js.status = "PENDING"]
    <3>1. /\ t.em = employer /\ t.emSnap = NewEmployer /\ t.outer = NewEmployer
          /\ t.op \in {"unapproveJobseeker", "resetJobseeker"} /\ t.pc = "reload"
          /\ t.read = [d \in Docs |-> NoPaper]
      BY <2>0 DEF Task
    <3>2. Receive(h, t)
      BY <2>4 DEF UnapproveJobseeker
    <3>3. t.op \in JobseekerOp
      BY <3>1 DEF JobseekerOp
    <3>4. \A d \in Docs : t.read[d] = NoPaper
      BY <3>1
    <3> HIDE DEF t
    <3> QED
      BY <2>1, <3>1, <3>2, <3>3, <3>4
  <2>5. ASSUME NEW d \in Docs, NEW st \in PaperStatus, ReviewJobseekerPaper(h, d, st)
        PROVE  RequestGrounded(task'[h], decided)
    <3> DEFINE t == [Loaded EXCEPT !.op = "reviewJobseekerPaper", !.pc = "savePapers",
                                   !.status = st, !.read[d] = papers[d]]
    <3>1. /\ t.em = employer /\ t.emSnap = NewEmployer /\ t.outer = NewEmployer
          /\ t.op = "reviewJobseekerPaper" /\ t.pc = "savePapers"
          /\ t.read = [Loaded.read EXCEPT ![d] = papers[d]]
      BY <2>0 DEF Task
    <3>3. Receive(h, t) /\ papers[d].kind \in JobseekerKinds
      BY <2>5 DEF ReviewJobseekerPaper
    <3> HIDE DEF t
    <3>2. \A c \in Docs : t.read[c] # NoPaper => t.read[c].kind \in JobseekerKinds
      BY <2>0, <3>1, <3>3
    <3> QED
      BY <2>1, <3>1, <3>2, <3>3 DEF JobseekerOp
  <2> QED
    BY <1>2, <2>2, <2>3, <2>4, <2>5 DEF JobseekerDecisions
<1>3. CASE EmployerController(h)
  <2>0. Loaded.em = employer /\ Loaded.emSnap = NewEmployer /\ Loaded.outer = NewEmployer
        /\ Loaded \in Task
    BY LoadedIs
  <2>1. ASSUME NEW t, Receive(h, t), t.em \in EmployerProfile,
               t.em.verification = "APPROVED" => employer.verification = "APPROVED",
               t.emSnap = NewEmployer, t.outer = NewEmployer,
               t.op \notin {"approveEmployer", "activate"}, t.pc \notin {"load", "savePapers"},
               t.op = "autoVerify" => t.pc = "eligible"
        PROVE  RequestGrounded(task'[h], decided)
    <3>1. task'[h] = t
      BY <1>0, <2>1 DEF Receive
    <3> QED
      BY <2>1, <3>1 DEF RequestGrounded, Grounded, Sound, NewEmployer
  <2>2. /\ StartedVerification(employer) \in EmployerProfile
        /\ StartedVerification(employer).verification = "APPROVED" =>
             employer.verification = "APPROVED"
    BY <1>0, StartedTypes DEF StartedVerification, EmployerProfile
  <2>3. ASSUME NEW ty \in EmployerTypes \cup {"none"}, UpdateVerificationInfo(h, ty)
        PROVE  RequestGrounded(task'[h], decided)
    <3> DEFINE em == [StartedVerification(employer) EXCEPT
                        !.type = IF ty = "none" THEN @ ELSE ty]
    <3>1. em \in EmployerProfile /\ em.verification = StartedVerification(employer).verification
      BY <2>2 DEF EmployerProfile
    <3>2. Receive(h, [Loaded EXCEPT !.op = "updateInfo", !.pc = "reload", !.em = em])
      BY <2>3 DEF UpdateVerificationInfo
    <3> HIDE DEF em
    <3> QED
      BY <2>0, <2>1, <2>2, <3>1, <3>2 DEF Task
  <2>4. ASSUME NEW ty \in EmployerTypes \cup {"none"}, UpdateEmployerProfile(h, ty)
        PROVE  RequestGrounded(task'[h], decided)
    <3> DEFINE em == [employer EXCEPT !.type = IF ty = "none" THEN @ ELSE ty]
               read == [d \in Docs |-> IF papers[d].kind \in EmployerKinds
                                       THEN papers[d] ELSE NoPaper]
    <3>1. em \in EmployerProfile /\ em.verification = employer.verification
      BY <1>0 DEF EmployerProfile
    <3>2. Receive(h, [Loaded EXCEPT !.op = "updateEmployer", !.pc = "reload", !.em = em,
                                    !.read = read])
      BY <2>0, <2>4 DEF UpdateEmployerProfile, Task
    <3> HIDE DEF em, read
    <3> QED
      BY <2>0, <2>1, <3>1, <3>2 DEF Task
  <2>5. ASSUME NEW k \in EmployerKinds, UploadVerificationDocument(h, k)
        PROVE  RequestGrounded(task'[h], decided)
    BY <2>0, <2>1, <2>2, <2>5 DEF UploadVerificationDocument, Task
  <2>6. CASE UploadVerificationDocumentsBatch(h)
    BY <2>0, <2>1, <2>2, <2>6 DEF UploadVerificationDocumentsBatch, Task
  <2>7. ASSUME NEW d \in Docs, DeleteVerificationDocument(h, d)
        PROVE  RequestGrounded(task'[h], decided)
    BY <1>0, <2>0, <2>1, <2>7 DEF DeleteVerificationDocument, Task
  <2>8. CASE AutoVerify(h)
    BY <1>0, <2>0, <2>1, <2>8 DEF AutoVerify, Task
  <2>9. CASE UploadCompanyLogo(h)
    BY <1>0, <2>0, <2>1, <2>9 DEF UploadCompanyLogo, Task
  <2>10. CASE DeleteCompanyLogo(h)
    BY <1>0, <2>0, <2>1, <2>10 DEF DeleteCompanyLogo, Task
  <2> QED
    BY <1>3, <2>3, <2>4, <2>5, <2>6, <2>7, <2>8, <2>9, <2>10
       DEF EmployerController, VerificationRoutes, ProfileRoutes
<1> QED
  BY <1>1, <1>2, <1>3

LEMMA DecisionsGrounded ==
    ASSUME ProfilesIInv, Grounded, NEW h \in Requests, EmployerDecisions(h)
    PROVE  Grounded'
<1>0. /\ Goes(h) /\ UNCHANGED <<files, jobseeker, employer, skills, failed, reviewed>>
      /\ decided.whole => decided'.whole
      /\ decided.kinds \subseteq decided'.kinds
      /\ task \in [Requests -> Task] /\ employer \in EmployerProfile
      /\ papers \in [Docs -> Paper] /\ decided \in [whole : BOOLEAN, kinds : SUBSET EmployerKinds]
  BY EmployerDecisionsGo DEF ProfilesIInv, ProfilesTypeOK
<1> SUFFICES RequestGrounded(task'[h], decided')
  BY <1>0, GroundsAlone DEF files
<1>1. /\ Loaded.em = employer /\ Loaded.emSnap = NewEmployer /\ Loaded.outer = NewEmployer
      /\ Loaded \in Task /\ Loaded.read = [d \in Docs |-> NoPaper]
  BY LoadedIs
<1>2. Sound(employer, decided') /\ Sound(NewEmployer, decided')
  BY <1>0, RulingsGrow DEF Grounded, Sound, NewEmployer
<1>3. ASSUME NEW t, Receive(h, t), Sound(t.em, decided'),
             t.emSnap = NewEmployer, t.outer = NewEmployer,
             t.op \in {"approveEmployer", "activate"} => VouchedBy(decided'),
             t.op # "autoVerify", t.pc \notin {"load", "savePapers"}
      PROVE  RequestGrounded(task'[h], decided')
  <2>1. task'[h] = t
    BY <1>0, <1>3 DEF Receive
  <2> QED
    BY <1>2, <1>3, <2>1 DEF RequestGrounded
<1>4. DecideWhole => VouchedBy(decided')
  BY <1>0 DEF DecideWhole, VouchedBy
<1>5. ASSUME NEW st \in Approval, SetVerification(h, st)
      PROVE  RequestGrounded(task'[h], decided')
  <2> DEFINE op == IF st = "APPROVED" THEN "approveEmployer" ELSE "setVerification"
             t == [Loaded EXCEPT !.op = op, !.pc = "reload", !.em.verification = st,
                                 !.status = "APPROVED"]
  <2>1. /\ t.op = op /\ t.pc = "reload" /\ t.em.verification = st
        /\ t.emSnap = NewEmployer /\ t.outer = NewEmployer
    BY <1>0, <1>1 DEF Task, EmployerProfile
  <2>2. Receive(h, t) /\ (st = "APPROVED" => VouchedBy(decided'))
    BY <1>4, <1>5 DEF SetVerification
  <2> HIDE DEF t
  <2> QED
    BY <1>3, <2>1, <2>2 DEF Sound
<1>6. ASSUME NEW st \in EmployerStatus, UpdateEmployerStatus(h, st)
      PROVE  RequestGrounded(task'[h], decided')
  <2>1. CASE st = "ACTIVE"
    <3> DEFINE t == [Loaded EXCEPT !.op = "activate", !.pc = "list",
                                   !.em.verification = "APPROVED", !.em.status = st,
                                   !.status = "APPROVED"]
    <3>1. /\ t.op = "activate" /\ t.pc = "list"
          /\ t.emSnap = NewEmployer /\ t.outer = NewEmployer
      BY <1>0, <1>1 DEF Task
    <3>2. Receive(h, t) /\ VouchedBy(decided')
      BY <1>4, <1>6, <2>1 DEF UpdateEmployerStatus
    <3> HIDE DEF t
    <3> QED
      BY <1>3, <3>1, <3>2 DEF Sound
  <2>2. CASE st # "ACTIVE"
    <3> DEFINE t == [Loaded EXCEPT !.op = "setStatus", !.pc = "reload", !.em.status = st]
    <3>1. /\ t.op = "setStatus" /\ t.pc = "reload"
          /\ t.em.verification = employer.verification
          /\ t.emSnap = NewEmployer /\ t.outer = NewEmployer
      BY <1>0, <1>1 DEF Task, EmployerProfile
    <3>2. Receive(h, t)
      BY <1>6, <2>2 DEF UpdateEmployerStatus
    <3> HIDE DEF t
    <3> QED
      BY <1>2, <1>3, <3>1, <3>2 DEF Sound
  <2> QED
    BY <2>1, <2>2
<1>7. ASSUME NEW d \in Docs, NEW st \in PaperStatus, ReviewEmployerPaper(h, d, st)
      PROVE  RequestGrounded(task'[h], decided')
  <2> DEFINE t == [Loaded EXCEPT !.op = "reviewEmployerPaper", !.pc = "savePapers",
                                 !.status = st, !.read[d] = papers[d]]
  <2>1. /\ t.op = "reviewEmployerPaper" /\ t.pc = "savePapers" /\ t.status = st
        /\ t.em = employer /\ t.emSnap = NewEmployer /\ t.outer = NewEmployer
        /\ t.read = [Loaded.read EXCEPT ![d] = papers[d]]
    BY <1>0, <1>1 DEF Task
  <2>2. /\ Receive(h, t)
        /\ st = "APPROVED" => papers[d].kind \in decided'.kinds
    BY <1>0, <1>7 DEF ReviewEmployerPaper, DecideKind
  <2> HIDE DEF t
  <2>3. task'[h] = t
    BY <1>0, <2>2 DEF Receive
  <2>4. \A c \in Docs : t.read[c] # NoPaper =>
          (t.status = "APPROVED" => t.read[c].kind \in decided'.kinds)
    BY <1>1, <2>1, <2>2
  <2> QED
    BY <1>2, <2>1, <2>3, <2>4 DEF RequestGrounded, JobseekerOp
<1> QED
  BY <1>5, <1>6, <1>7 DEF EmployerDecisions

\* The steps that write nothing.
LEMMA ReadsGrounded ==
    ASSUME ProfilesIInv, Grounded, NEW h \in Requests, Reads(h)
    PROVE  Grounded'
<1>0. /\ Goes(h) /\ UNCHANGED <<files, jobseeker, employer, skills, past>>
      /\ task \in [Requests -> Task] /\ task[h] \in Task /\ employer \in EmployerProfile
      /\ papers \in [Docs -> Paper] /\ task[h].op \in OpsAt(task[h].pc)
  BY ReadsGo DEF ProfilesIInv, ProfilesTypeOK, OnCourse
<1>1. RequestGrounded(task[h], decided) /\ Sound(employer, decided)
  BY DEF Grounded
<1> SUFFICES RequestGrounded(task'[h], decided)
  BY <1>0, GroundsAlone DEF files, past
\* A step to one that needs no new grounds.
<1>2. ASSUME task'[h].op = task[h].op, task'[h].em = task[h].em,
             task'[h].emSnap = task[h].emSnap, task'[h].outer = task[h].outer,
             task'[h].pc \notin {"load", "savePapers"},
             task[h].op = "autoVerify" => task[h].pc # "eligible"
      PROVE  RequestGrounded(task'[h], decided)
  BY <1>1, <1>2, NextGrounded
<1>3. task'[h] = Rest => RequestGrounded(task'[h], decided)
  BY RestGrounded
<1>4. ASSUME AfterDelete(h), task[h].op \in OpsAt("find"), task[h].pc # "eligible"
      PROVE  RequestGrounded(task'[h], decided)
  <2>1. ASSUME NEW pc \in {"upload", "reload", "unlink"},
               task'[h] = [task[h] EXCEPT !.pc = pc]
        PROVE  RequestGrounded(task'[h], decided)
    <3>1. /\ task'[h].op = task[h].op /\ task'[h].em = task[h].em
          /\ task'[h].emSnap = task[h].emSnap /\ task'[h].outer = task[h].outer
          /\ task'[h].pc = pc
      BY <1>0, <2>1 DEF Task
    <3> QED
      BY <1>2, <1>4, <3>1
  <2>2. task'[h] = Rest \/ \E pc \in {"upload", "reload", "unlink"} :
                              task'[h] = [task[h] EXCEPT !.pc = pc]
    BY <1>4, AfterDeleteGoes
  <2> QED
    BY <1>3, <2>1, <2>2
<1>5. ASSUME NEW pc, Proceed(h, pc), pc \notin {"load", "savePapers"},
             task[h].pc # "eligible"
      PROVE  RequestGrounded(task'[h], decided)
  BY <1>0, <1>2, <1>5 DEF Proceed, Task
<1>6. Finish(h) => RequestGrounded(task'[h], decided)
  BY <1>3, FinishGoes
<1>7. CASE DeleteCvColumn(h) \/ DeletePictureColumn(h)
  <2>1. PICK c \in {"cv", "picture"} : DeleteColumn(h, c)
    BY <1>7 DEF DeleteCvColumn, DeletePictureColumn
  <2>2. task[h].pc = "clear" /\ task[h].op \in OpsAt("find")
    BY <1>0, <2>1, Stages DEF DeleteColumn, On
  <2>3. CASE task' = [task EXCEPT ![h].pc = "find", ![h].doc = jobseeker[c],
                                  ![h].js[c] = "none"]
    BY <1>0, <1>2, <2>2, <2>3 DEF Task
  <2> QED
    BY <1>4, <2>1, <2>2, <2>3 DEF DeleteColumn
<1>8. CASE FindExisting(h)
  <2>1. task[h].pc = "existing" /\ task[h].op \in OpsAt("find")
    BY <1>0, <1>8, Stages DEF FindExisting, On
  <2>2. ASSUME NEW d, task' = [task EXCEPT ![h].pc = "remove", ![h].doc = d]
        PROVE  RequestGrounded(task'[h], decided)
    BY <1>0, <1>2, <2>1, <2>2 DEF Task
  <2> QED
    BY <1>4, <1>8, <2>1, <2>2 DEF FindExisting
<1>9. CASE FindIdRow(h)
  BY <1>5, <1>6, <1>9 DEF FindIdRow, On
<1>10. CASE FindProofRow(h)
  <2>1. CASE task' = [task EXCEPT ![h].pc = "reload", ![h].js.status = "APPROVED"]
    BY <1>0, <1>2, <1>10, <2>1 DEF FindProofRow, On, Task
  <2> QED
    BY <1>6, <1>10, <2>1 DEF FindProofRow
<1>11. ASSUME NEW kinds, ListPapers(h, kinds),
              task[h].op \in JobseekerOp => kinds = JobseekerKinds
       PROVE  RequestGrounded(task'[h], decided)
  <2> DEFINE read == [d \in Docs |-> IF papers[d].kind \in kinds THEN papers[d] ELSE NoPaper]
  <2>1. task[h].pc = "list" /\ task[h].op # "reviewEmployerPaper"
    BY <1>0, <1>11, Stages DEF ListPapers, On
  <2>2. /\ task'[h].op = task[h].op /\ task'[h].em = task[h].em
        /\ task'[h].emSnap = task[h].emSnap /\ task'[h].outer = task[h].outer
        /\ task'[h].pc = "savePapers" /\ task'[h].read = read
    BY <1>0, <1>11 DEF ListPapers, Task
  <2>3. \A d \in Docs : read[d] # NoPaper => read[d].kind \in kinds
    OBVIOUS
  <2> HIDE DEF read
  <2> QED
    BY <1>1, <1>11, <2>1, <2>2, <2>3 DEF RequestGrounded
<1>12. CASE ListJobseekerPapers(h)
  BY <1>11, <1>12 DEF ListJobseekerPapers
<1>13. CASE ListEmployerPapers(h)
  <2>1. task[h].op \notin JobseekerOp
    BY <1>13 DEF ListEmployerPapers, JobseekerOp, EmployerOp
  <2> QED
    BY <1>11, <1>13, <2>1 DEF ListEmployerPapers
<1>14. CASE ReloadJobseeker(h)
  BY <1>0, <1>2, <1>14 DEF ReloadJobseeker, On, Task
<1>15. CASE NextOfBatch(h)
  <2>1. ASSUME NEW k, task' = [task EXCEPT ![h].pc = "upload", ![h].kind = k]
        PROVE  RequestGrounded(task'[h], decided)
    BY <1>0, <1>2, <1>15, <2>1, ZenonT(60) DEF NextOfBatch, On, Task
  <2> QED
    BY <1>5, <1>15, <2>1 DEF NextOfBatch, On
<1>16. CASE DeleteLogoColumn(h)
  <2>1. CASE employer.logo # "none"
    <3> DEFINE em == [employer EXCEPT !.logo = "unset"]
               outer == [task[h].em EXCEPT !.logo = "none"]
    <3>1. em.verification = employer.verification /\ outer.verification = task[h].em.verification
      BY <1>0, Fields DEF EmployerProfile
    <3> DEFINE t == [task[h] EXCEPT !.pc = "find", !.doc = employer.logo, !.outer = outer,
                                    !.em = em]
    <3> HIDE DEF em, outer
    <3>4. task' = [task EXCEPT ![h] = t]
      BY <1>0, <1>16, <2>1 DEF DeleteLogoColumn, em, outer, Task
    <3>2. /\ task'[h].op = task[h].op /\ task'[h].em = em
          /\ task'[h].emSnap = task[h].emSnap /\ task'[h].outer = outer
          /\ task'[h].pc = "find"
      BY <1>0, <3>4 DEF Task
    <3>3. task[h].op \in {"uploadLogo", "deleteLogo"}
      BY <1>16 DEF DeleteLogoColumn
    <3> QED
      BY <1>1, <3>1, <3>2, <3>3 DEF RequestGrounded, Sound
  <2>2. CASE employer.logo = "none"
    BY <1>5, <1>6, <1>16, <2>2 DEF DeleteLogoColumn, On
  <2> QED
    BY <2>1, <2>2
\* The automatic approval: every mandatory kind has an approved document, each
\* for a reason.
<1>17. CASE CheckEligible(h)
  <2>1. Eligible => VouchedBy(decided)
    <3> SUFFICES ASSUME Eligible, ~VouchedBy(decided) PROVE FALSE
      OBVIOUS
    <3>1. employer.type \in EmployerTypes
      BY <1>0 DEF Eligible, EmployerProfile
    <3>2. ASSUME NEW k \in Mandatory[employer.type] PROVE k \in decided.kinds
      <4>1. PICK d \in FiledAs({k}) : papers[d].status = "APPROVED"
        BY DEF Eligible
      <4>2. d \in Docs /\ papers[d].kind = k /\ k \in EmployerKinds
        BY <3>1, Kinds DEF FiledAs
      <4>3. PaperGrounded(papers[d], decided)
        BY <4>2 DEF Grounded
      <4> QED
        BY <4>1, <4>2, <4>3 DEF PaperGrounded
    <3> QED
      BY <3>1, <3>2 DEF VouchedBy
  <2>2. CASE Eligible
    <3>1. /\ task'[h].op = task[h].op /\ task'[h].em = task[h].em
          /\ task'[h].emSnap = task[h].emSnap /\ task'[h].outer = task[h].outer
          /\ task'[h].pc = "load"
      BY <1>0, <1>17, <2>2 DEF CheckEligible, Proceed, Task
    <3> QED
      BY <1>1, <2>1, <2>2, <3>1 DEF RequestGrounded
  <2>3. CASE ~Eligible
    BY <1>6, <1>17, <2>3 DEF CheckEligible
  <2> QED
    BY <2>2, <2>3
<1>18. CASE LoadForAutoVerification(h)
  <2>0. VouchedBy(decided)
    BY <1>1, <1>18 DEF LoadForAutoVerification, On, RequestGrounded
  <2>1. CASE employer.verification = "PENDING"
    <3> DEFINE t == [Loaded EXCEPT !.op = "autoVerify", !.pc = "reload",
                                   !.em.verification = "APPROVED", !.status = "APPROVED"]
    <3>1. t.op = "autoVerify" /\ t.pc = "reload"
      BY LoadedIs DEF Task
    <3>2. task'[h] = t
      BY <1>0, <1>18, <2>1 DEF LoadForAutoVerification
    <3> QED
      BY <2>0, <3>1, <3>2 DEF RequestGrounded, Sound
  <2> QED
    BY <1>6, <1>18, <2>1 DEF LoadForAutoVerification
<1>19. CASE ReloadEmployer(h)
  <2>1. CASE task' = [task EXCEPT ![h].pc = "write", ![h].emSnap = employer]
    <3>1. /\ task'[h].op = task[h].op /\ task'[h].em = task[h].em
          /\ task'[h].emSnap = employer /\ task'[h].outer = task[h].outer
          /\ task'[h].pc = "write" /\ task[h].pc = "reload"
      BY <1>0, <1>19, <2>1 DEF ReloadEmployer, On, Task
    <3> QED
      BY <1>1, <3>1 DEF RequestGrounded
  <2> QED
    BY <1>6, <1>19, <2>1 DEF ReloadEmployer
<1>20. CASE FindDocument(h)
  <2>1. task[h].pc = "find" /\ task[h].op \in OpsAt("find")
    BY <1>0, <1>20 DEF FindDocument, On
  <2> QED
    BY <1>4, <1>5, <1>20, <2>1 DEF FindDocument
<1> QED
  BY <1>7, <1>8, <1>9, <1>10, <1>12, <1>13, <1>14, <1>15, <1>16, <1>17, <1>18, <1>19, <1>20
     DEF Reads

LEMMA StepsGrounded ==
    ASSUME ProfilesIInv, Grounded, NEW h \in Requests, ProfilesStep(h)
    PROVE  Grounded'
<1>0. /\ task \in [Requests -> Task] /\ task[h] \in Task /\ employer \in EmployerProfile
      /\ papers \in [Docs -> Paper] /\ task[h].op \in OpsAt(task[h].pc)
      /\ decided.whole => decided.whole
  BY DEF ProfilesIInv, ProfilesTypeOK, OnCourse
<1>1. /\ RequestGrounded(task[h], decided) /\ Sound(employer, decided)
      /\ \A d \in Docs : PaperGrounded(papers[d], decided)
  BY DEF Grounded
\* A step to one that needs no new grounds, and the end of the request.
<1>2. ASSUME task'[h].op = task[h].op, task'[h].em = task[h].em,
             task'[h].emSnap = task[h].emSnap, task'[h].outer = task[h].outer,
             task'[h].pc \notin {"load", "savePapers"},
             task[h].op = "autoVerify" => task[h].pc # "eligible"
      PROVE  RequestGrounded(task'[h], decided)
  BY <1>1, <1>2, NextGrounded
<1>3. task'[h] = Rest => RequestGrounded(task'[h], decided)
  BY RestGrounded
<1>4. ASSUME NEW pc, task'[h] = [task[h] EXCEPT !.pc = pc], pc \notin {"load", "savePapers"},
             task[h].pc # "eligible"
      PROVE  RequestGrounded(task'[h], decided)
  <2>1. /\ task'[h].op = task[h].op /\ task'[h].em = task[h].em
        /\ task'[h].emSnap = task[h].emSnap /\ task'[h].outer = task[h].outer
        /\ task'[h].pc = pc
    BY <1>0, <1>4 DEF Task
  <2> QED
    BY <1>2, <1>4, <2>1
<1>5. ASSUME Goes(h), UNCHANGED <<decided, employer>>, RequestGrounded(task'[h], decided),
             \A d \in Docs : papers'[d] = papers[d] \/ papers'[d] = NoPaper
                             \/ papers'[d].status = "PENDING"
      PROVE  Grounded'
  <2>1. PaperGrounded(NoPaper, decided)
    BY DEF PaperGrounded, NoPaper
  <2>2. \A d \in Docs : PaperGrounded(papers'[d], decided)
    BY <1>1, <1>5, <2>1 DEF PaperGrounded
  <2> QED
    BY <1>0, <1>1, <1>5, <2>2, GroundsKept
<1>6. CASE Reads(h)
  BY <1>6, ReadsGrounded
<1>7. CASE RemoveExisting(h)
  <2>1. Goes(h) /\ task'[h] = [task[h] EXCEPT !.pc = "find"] /\ task[h].pc = "remove"
    BY <1>7, OnAt, Stages, ProceedGoes DEF RemoveExisting, On
  <2>2. \A d \in Docs : papers'[d] = papers[d] \/ papers'[d] = NoPaper
    BY <1>0, <1>7 DEF RemoveExisting
  <2>3. RequestGrounded(task'[h], decided)
    BY <1>4, <2>1
  <2> QED
    BY <1>5, <1>7, <2>1, <2>2, <2>3 DEF RemoveExisting, past
<1>8. CASE InsertJobseekerPaper(h)
  <2>1. task[h].op \in OpsAt("reload") /\ task[h].pc = "file"
    BY <1>8, Stages DEF InsertJobseekerPaper, JobseekerOp, On
  <2>2. Goes(h) /\ (task'[h] = [task[h] EXCEPT !.pc = "reload"] \/ task'[h] = Rest)
    BY <1>8, <2>1, ProceedGoes, FinishGoes DEF InsertJobseekerPaper
  <2>3. \A d \in Docs : papers'[d] = papers[d] \/ papers'[d].status = "PENDING"
    BY <1>0, <1>8 DEF InsertJobseekerPaper
  <2>4. RequestGrounded(task'[h], decided)
    BY <1>3, <1>4, <2>1, <2>2
  <2> QED
    BY <1>5, <1>8, <2>2, <2>3, <2>4 DEF InsertJobseekerPaper, past
<1>9. CASE InsertEmployerPaper(h)
  <2>0. task[h].pc = "file" /\ task[h].op \in {"uploadEmployerPaper", "uploadBatch"}
    BY <1>9 DEF InsertEmployerPaper, On
  <2>2. Goes(h) /\ \E pc \in {"next", "eligible"} : task'[h] = [task[h] EXCEPT !.pc = pc]
    <3>1. CASE task[h].op = "uploadBatch"
      BY <1>9, <3>1, ProceedGoes, Stages DEF InsertEmployerPaper
    <3>2. CASE task[h].op = "uploadEmployerPaper"
      BY <1>9, <3>2, ProceedGoes, Stages DEF InsertEmployerPaper
    <3> QED
      BY <2>0, <3>1, <3>2
  <2>3. \A d \in Docs : papers'[d] = papers[d] \/ papers'[d].status = "PENDING"
    BY <1>0, <1>9 DEF InsertEmployerPaper
  <2>4. RequestGrounded(task'[h], decided)
    BY <1>4, <2>0, <2>2
  <2> QED
    BY <1>5, <1>9, <2>2, <2>3, <2>4 DEF InsertEmployerPaper, past
<1>10. CASE DeleteSkillLinks(h) \/ InsertActiveSkill(h) \/ AttachSkills(h)
  <2>1. /\ Goes(h) /\ UNCHANGED <<files, jobseeker, employer, past>>
        /\ task[h].pc \in {"unskill", "skill", "link"}
        /\ \/ task'[h] = Rest
           \/ \E pc \in {"skill", "link", "reload"} : task'[h] = [task[h] EXCEPT !.pc = pc]
    BY <1>10, SkillStepsGo
  <2>2. RequestGrounded(task'[h], decided)
    BY <1>3, <1>4, <2>1
  <2> QED
    BY <1>5, <2>1, <2>2 DEF files, past
\* Verification rows are given the status of the ruling they come after.
<1>11. CASE SaveJobseekerPapers(h) \/ SaveEmployerPapers(h)
  <2>1. /\ Goes(h) /\ UNCHANGED <<employer, decided>>
        /\ task[h].pc = "savePapers" /\ task[h].op \in OpsAt("savePapers")
        /\ papers' \in {papers, Restamped(h)}
        /\ \/ task'[h] = [task[h] EXCEPT !.pc = "reload"]
           \/ task'[h] = [task[h] EXCEPT !.pc = "eligible"]
           \/ task'[h] = Rest
    BY <1>11, SavePapersDoes DEF past
  <2>2. RequestGrounded(task'[h], decided)
    BY <1>3, <1>4, <2>1
  <2>3. ASSUME NEW d \in Docs, task[h].read[d] # NoPaper
        PROVE  PaperGrounded(Restamped(h)[d], decided)
    <3> DEFINE row == task[h].read[d]
    <3>0. row \in Paper
      BY <1>0, Fields
    <3>1. Restamped(h)[d].kind = row.kind /\ Restamped(h)[d].status = task[h].status
      BY <2>3, <3>0 DEF Restamped, Paper
    <3> HIDE DEF row
    <3>2. CASE task[h].op \in JobseekerOp
      <4>1. row.kind \notin EmployerKinds
        BY <1>1, <2>1, <2>3, <3>2, Kinds DEF RequestGrounded, row
      <4> QED
        BY <3>1, <4>1 DEF PaperGrounded
    <3>3. CASE task[h].op \in {"autoVerify", "approveEmployer", "activate"}
      <4>1. VouchedBy(decided)
        BY <1>1, <2>1, <3>3 DEF RequestGrounded
      <4> QED
        BY <4>1 DEF PaperGrounded
    <3>4. CASE task[h].op = "reviewEmployerPaper"
      <4>1. task[h].status = "APPROVED" => row.kind \in decided.kinds
        BY <1>1, <2>1, <2>3, <3>4 DEF RequestGrounded, row
      <4> QED
        BY <3>1, <4>1 DEF PaperGrounded
    <3> QED
      BY <2>1, <3>2, <3>3, <3>4, Stages DEF JobseekerOp
  <2>4. \A d \in Docs : PaperGrounded(papers'[d], decided)
    <3>1. ASSUME NEW d \in Docs, task[h].read[d] = NoPaper
          PROVE  Restamped(h)[d] = papers[d]
      BY <3>1 DEF Restamped
    <3> QED
      BY <1>1, <2>1, <2>3, <3>1
  <2> QED
    BY <1>0, <1>1, <2>1, <2>2, <2>4, GroundsKept
<1>12. CASE WriteJobseeker(h)
  <2>1. /\ Goes(h) /\ UNCHANGED <<files, employer, skills, failed, decided>>
        /\ task[h].pc = "write" /\ task[h].op \in JobseekerOp
        /\ task'[h] = [task[h] EXCEPT !.pc = "list"] \/ task'[h] = Rest
    BY <1>12, WriteJobseekerDoes
  <2>2. RequestGrounded(task'[h], decided)
    BY <1>3, <1>4, <2>1
  <2> QED
    BY <1>5, <2>1, <2>2 DEF files
\* The employer's row is approved by an entity that says so.
<1>13. CASE WriteEmployer(h)
  <2>1. /\ Goes(h) /\ UNCHANGED <<files, jobseeker, skills, past>>
        /\ task[h].pc = "write"
        /\ employer' \in {employer, SavedEmployer(task[h])}
        /\ \/ \E pc \in {"upload", "eligible", "list"} : task'[h] = [task[h] EXCEPT !.pc = pc]
           \/ task'[h] = [task[h] EXCEPT !.pc = "upload", !.em = task[h].outer]
           \/ task'[h] = Rest
    BY <1>13, WriteEmployerDoes, ZenonT(60)
  <2>2. Sound(employer', decided)
    <3>1. SavedEmployer(task[h]).verification \in {employer.verification,
                                                    task[h].em.verification}
      BY <1>0, SavedEmployerIs
    <3> QED
      BY <1>1, <2>1, <3>1 DEF Sound, RequestGrounded
  <2>3. RequestGrounded(task'[h], decided)
    <3>1. CASE task'[h] = [task[h] EXCEPT !.pc = "upload", !.em = task[h].outer]
      <4>1. /\ task'[h].op = task[h].op /\ task'[h].em = task[h].outer
            /\ task'[h].emSnap = task[h].emSnap /\ task'[h].outer = task[h].outer
            /\ task'[h].pc = "upload"
        BY <1>0, <3>1 DEF Task
      <4> QED
        BY <1>1, <2>1, <4>1 DEF RequestGrounded
    <3> QED
      BY <1>3, <1>4, <2>1, <3>1
  <2> QED
    BY <1>0, <1>1, <2>1, <2>2, <2>3, GroundsKept DEF files, past
<1>14. CASE RemoveEmployerPaper(h)
  <2>1. Goes(h) /\ task'[h] = Rest
    BY <1>14, FinishGoes DEF RemoveEmployerPaper
  <2>2. \A d \in Docs : papers'[d] = papers[d] \/ papers'[d] = NoPaper
    BY <1>0, <1>14 DEF RemoveEmployerPaper
  <2> QED
    BY <1>3, <1>5, <1>14, <2>1, <2>2 DEF RemoveEmployerPaper, past
<1>15. CASE DeleteFile(h)
  <2>1. Goes(h) /\ task'[h] = [task[h] EXCEPT !.pc = "row"] /\ task[h].pc = "object"
    BY <1>15, OnAt, Stages, ProceedGoes DEF DeleteFile, On
  <2>2. RequestGrounded(task'[h], decided)
    BY <1>4, <2>1
  <2> QED
    BY <1>5, <1>15, <2>1, <2>2 DEF DeleteFile, past
<1>16. CASE RemoveDocument(h)
  <2>1. /\ Goes(h) /\ UNCHANGED past /\ employer'.verification = employer.verification
        /\ task[h].pc = "row" /\ task[h].op \in OpsAt("find") /\ AfterDelete(h)
        /\ \A d \in Docs : papers'[d] \in {NoPaper, papers[d]}
    BY <1>16, RemoveDocumentDoes
  <2>a. task'[h] = Rest \/ \E pc \in {"upload", "reload", "unlink"} :
                               task'[h] = [task[h] EXCEPT !.pc = pc]
    BY <2>1, AfterDeleteGoes
  <2>2. RequestGrounded(task'[h], decided)
    BY <1>3, <1>4, <2>1, <2>a
  <2>3. \A d \in Docs : PaperGrounded(papers'[d], decided)
    BY <1>1, <2>1 DEF PaperGrounded, NoPaper
  <2>4. Sound(employer', decided)
    BY <1>1, <2>1 DEF Sound
  <2> QED
    BY <1>0, <2>1, <2>2, <2>3, <2>4, GroundsKept DEF past
<1>17. ASSUME NEW d \in Docs, UploadFile(h, d) PROVE Grounded'
  <2>1. /\ Goes(h) /\ UNCHANGED <<documents, papers, jobseeker, employer, skills, past>>
        /\ task[h].pc = "upload"
        /\ task'[h] = [task[h] EXCEPT !.pc = "insert", !.doc = d]
    BY <1>17, UploadFileDoes, ZenonT(60)
  <2>2. /\ task'[h].op = task[h].op /\ task'[h].em = task[h].em
        /\ task'[h].emSnap = task[h].emSnap /\ task'[h].outer = task[h].outer
        /\ task'[h].pc = "insert"
    BY <1>0, <2>1 DEF Task
  <2>3. RequestGrounded(task'[h], decided)
    BY <1>2, <2>1, <2>2
  <2> QED
    BY <1>5, <2>1, <2>3 DEF past
<1>18. CASE InsertDocument(h)
  <2>1. /\ Goes(h) /\ UNCHANGED <<objects, papers, jobseeker, employer, skills, past>>
        /\ task[h].pc = "insert"
        /\ \/ \E js : task'[h] = [task[h] EXCEPT !.pc = "reload", !.js = js]
           \/ task'[h] = [task[h] EXCEPT !.pc = "reload",
                            !.em = [task[h].em EXCEPT !.logo = task[h].doc]]
           \/ task'[h] = [task[h] EXCEPT !.pc = "file"]
    BY <1>18, InsertDocumentDoes, ZenonT(60)
  <2>2. RequestGrounded(task'[h], decided)
    <3>1. ASSUME NEW js, task'[h] = [task[h] EXCEPT !.pc = "reload", !.js = js]
          PROVE  RequestGrounded(task'[h], decided)
      <4>1. /\ task'[h].op = task[h].op /\ task'[h].em = task[h].em
            /\ task'[h].emSnap = task[h].emSnap /\ task'[h].outer = task[h].outer
            /\ task'[h].pc = "reload"
        BY <1>0, <3>1 DEF Task
      <4> QED
        BY <1>2, <2>1, <4>1, ZenonT(60)
    <3>2. ASSUME task'[h] = [task[h] EXCEPT !.pc = "reload",
                               !.em = [task[h].em EXCEPT !.logo = task[h].doc]]
          PROVE  RequestGrounded(task'[h], decided)
      <4> DEFINE em == [task[h].em EXCEPT !.logo = task[h].doc]
      <4>1. em.verification = task[h].em.verification
        BY <1>0, Fields DEF EmployerProfile
      <4> HIDE DEF em
      <4>2. task'[h] = [task[h] EXCEPT !.pc = "reload", !.em = em]
        BY <3>2 DEF em
      <4>3. /\ task'[h].op = task[h].op /\ task'[h].em = em
            /\ task'[h].emSnap = task[h].emSnap /\ task'[h].outer = task[h].outer
            /\ task'[h].pc = "reload"
        BY <1>0, <4>2 DEF Task
      <4> QED
        BY <1>1, <2>1, <4>1, <4>3, ZenonT(60) DEF RequestGrounded, Sound
    <3>3. ASSUME task'[h] = [task[h] EXCEPT !.pc = "file"]
          PROVE  RequestGrounded(task'[h], decided)
      BY <1>4, <2>1, <3>3
    <3> QED
      BY <2>1, <3>1, <3>2, <3>3, ZenonT(60)
  <2> QED
    BY <1>5, <2>1, <2>2, ZenonT(60) DEF past
<1> QED
  BY <1>6, <1>7, <1>8, <1>9, <1>10, <1>11, <1>12, <1>13, <1>14, <1>15, <1>16, <1>17, <1>18
     DEF ProfilesStep, JobseekerProfileStep, EmployerProfileStep, StorageStep, Reads

LEMMA GroundedInitially == ProfilesInit => Grounded
<1> SUFFICES ASSUME ProfilesInit PROVE Grounded
  OBVIOUS
<1>1. Sound(employer, decided)
  BY DEF ProfilesInit, Sound, NewEmployer
<1>2. \A d \in Docs : PaperGrounded(papers[d], decided)
  BY DEF ProfilesInit, PaperGrounded, NoPaper
<1>3. \A h \in Requests : RequestGrounded(task[h], decided)
  BY RestGrounded DEF ProfilesInit
<1> QED
  BY <1>1, <1>2, <1>3 DEF Grounded

LEMMA GroundedKept == ProfilesIInv /\ Grounded /\ [ProfilesNext]_profileVars => Grounded'
<1> SUFFICES ASSUME ProfilesIInv, Grounded, [ProfilesNext]_profileVars PROVE Grounded'
  OBVIOUS
<1>1. CASE UNCHANGED profileVars \/ CreateSkill \/ DeleteSkill
  BY <1>1 DEF profileVars, CreateSkill, DeleteSkill, files, past, Grounded
<1>2. ASSUME NEW h \in Requests, CallFails(h) PROVE Grounded'
  <2>1. Goes(h) /\ task'[h] = Rest /\ task \in [Requests -> Task]
    BY <1>2, FinishGoes DEF CallFails, ProfilesIInv, ProfilesTypeOK
  <2> QED
    BY <1>2, <2>1, RestGrounded, GroundsAlone DEF CallFails, files
<1> QED
  BY <1>1, <1>2, ArrivalsGrounded, DecisionsGrounded, StepsGrounded DEF ProfilesNext

\* However requests overlap, every approval of an employer that is in the database
\* or on its way there has the decision of an administrator behind it (ProfilesInv).
THEOREM GroundedInvariance == ProfilesSpec => []Grounded
BY TypesInitially, TypesKept, GroundedInitially, GroundedKept, PTL DEF ProfilesSpec

\* Nobody verifies himself: an approved employer was approved as a whole by an
\* administrator, or one has approved a document of each kind that some type asks
\* for, whatever uploads, deletions and auto verifications run at the same time
\* (EmployerVerificationService.performAutoVerification).
THEOREM NobodyVerifiesHimselfHolds == ProfilesSpec => []NobodyVerifiesHimself
<1>1. Grounded => NobodyVerifiesHimself
  BY DEF Grounded, Sound, NobodyVerifiesHimself, Vouched
<1> QED
  BY <1>1, GroundedInvariance, PTL

-----------------------------------------------------------------------------
\* The files, while there is one request at a time (RequestsApart): what the request
\* that acts finds and leaves.
SoleAt(h) ==
    /\ OwnedOnce
    /\ SoleRequestOK(task[h])
    /\ ~failed => FilesAt(task[h])

\* A step that writes no row.
LEMMA SoleAlone ==
    ASSUME ProfilesIInv, NEW h \in Requests, SoleAt(h),
           UNCHANGED <<files, jobseeker, employer, failed, reviewed>>,
           SoleRequestOK(task'[h]), ~failed => FilesAt(task'[h])
    PROVE  SoleAt(h)'
<1>1. UNCHANGED <<objects, documents, papers, jobseeker, employer, failed, reviewed>>
  BY DEF files
<1>2. OwnedOnce'
  BY <1>1 DEF SoleAt, OwnedOnce, References, Filed, FiledAs
<1>3. /\ Deletes(task[h])' = Deletes(task'[h]) /\ Attaching(task[h])' = Attaching(task'[h])
      /\ Uploads(task[h])' = Uploads(task'[h]) /\ Mirrors(task[h])' = Mirrors(task'[h])
  BY <1>1 DEF Deletes, Attaching, Uploads, Mirrors, FiledAs
<1>4. SoleRequestOK(task[h])'
  BY <1>1, <1>3 DEF SoleRequestOK, References, Filed, FiledAs
<1>5. FilesAt(task[h])' = FilesAt(task'[h])
  BY <1>1, <1>3 DEF FilesAt, References, Filed
<1> QED
  BY <1>1, <1>2, <1>4, <1>5 DEF SoleAt

\* Between requests, and wherever no document is on its way.
LEMMA RestSole ==
    /\ SoleRequestOK(Rest)
    /\ documents = References /\ objects = References => FilesAt(Rest)
<1>1. Rest.op = "none" /\ Rest.pc = "idle"
  BY DEF Rest
<1>2. ~Attaching(Rest)
  BY <1>1 DEF Attaching
<1>3. Mirrors(Rest)
  BY <1>1 DEF Mirrors, JobseekerOp, EmployerOp, PaperOp
<1> QED
  BY <1>1, <1>2, <1>3 DEF SoleRequestOK, FilesAt, PaperOp

LEMMA SettledFiles ==
    ASSUME NEW t, ~Attaching(t), t.pc \notin {"find", "object", "row", "insert"}
    PROVE  FilesAt(t) <=> documents = References /\ objects = References
BY DEF FilesAt

\* What an operation starts with.
Arriving(t) ==
    /\ t.js.cv = jobseeker.cv /\ t.js.picture = jobseeker.picture
    /\ t.js.status = "APPROVED" => jobseeker.status = "APPROVED" /\ t.js.text = jobseeker.text
    /\ t.em.logo = employer.logo /\ t.outer.logo = "none"
    /\ t.op \in PaperOp => /\ t.kind \in JobseekerKinds /\ t.js.status # "APPROVED"
                          /\ jobseeker.status # "APPROVED"
    /\ t.op = "uploadEmployerPaper" => t.kind \in EmployerKinds
    /\ t.doc # "none" => t.op = "deleteEmployerPaper" /\ t.doc \in FiledAs(EmployerKinds)
    /\ \A d \in Docs : t.read[d] # NoPaper =>
         /\ t.read[d] = papers[d]
         /\ t.op \in JobseekerOp => papers[d].kind \in JobseekerKinds
         /\ t.op \in EmployerOp => papers[d].kind \in EmployerKinds
    /\ \/ t.pc \in {"clear", "existing", "unskill", "hasId", "next", "eligible", "list"}
       \/ t.pc = "upload" /\ t.op \in {"uploadCv", "uploadPicture", "uploadLogo"} /\ Uploads(t)
       \/ t.pc = "find" /\ t.op = "deleteEmployerPaper" /\ t.doc \in FiledAs(EmployerKinds)
       \/ /\ t.pc = "savePapers"
          /\ \A d \in Docs : t.read[d] # NoPaper => t.read[d].kind = papers[d].kind
       \/ /\ t.pc = "reload"
          /\ t.op \notin {"uploadCv", "uploadPicture", "uploadLogo", "deleteLogo",
                          "approveJobseeker"}

LEMMA ArrivingSole ==
    ASSUME ProfilesIInv, NEW h \in Requests, SoleAt(h), NEW t, Receive(h, t),
           Arriving(t), UNCHANGED <<files, jobseeker, employer, failed, reviewed>>
    PROVE  SoleAt(h)'
<1>1. task'[h] = t /\ task[h].pc = "idle"
  BY DEF Receive, ProfilesIInv, ProfilesTypeOK
<1>2. ~Attaching(t) /\ ~Attaching(task[h])
  BY <1>1 DEF Arriving, Attaching
<1>3. Mirrors(t)
  BY <1>2 DEF Arriving, Mirrors
<1>4. /\ References \subseteq documents
      /\ ~failed => documents = References /\ objects = References
  BY <1>1, <1>2, SettledFiles DEF SoleAt, OwnedOnce
<1>5. CASE t.pc = "find"
  <2>1. t.op = "deleteEmployerPaper" /\ t.doc \in FiledAs(EmployerKinds)
    BY <1>5 DEF Arriving
  <2>2. t.doc \in References /\ papers[t.doc].kind \in EmployerKinds
    BY <2>1, Kinds DEF FiledAs, References, Filed
  <2>3. Deletes(t)
    BY <2>1, <2>2 DEF Deletes, PaperOp
  <2>4. SoleRequestOK(t)
    BY <1>2, <1>3, <1>4, <1>5, <2>1, <2>2, <2>3 DEF SoleRequestOK, PaperOp
  <2>5. ~failed => FilesAt(t)
    BY <1>2, <1>4, <1>5, <2>2 DEF FilesAt
  <2> QED
    BY <1>1, <2>4, <2>5, SoleAlone
<1>6. CASE t.pc # "find"
  <2>1. SoleRequestOK(t)
    BY <1>2, <1>3, <1>6 DEF Arriving, SoleRequestOK
  <2>2. ~failed => FilesAt(t)
    <3>1. t.pc \notin {"find", "object", "row", "insert"}
      BY <1>6 DEF Arriving
    <3> QED
      BY <1>2, <1>4, <3>1, SettledFiles
  <2> QED
    BY <1>1, <2>1, <2>2, SoleAlone
<1> QED
  BY <1>5, <1>6

Arrives(h) == \E t : Receive(h, t) /\ Arriving(t)

LEMMA JobseekerArrivesSole ==
    ASSUME ProfilesIInv, NEW h \in Requests, JobseekerController(h)
    PROVE  Arrives(h)
<1>0. /\ Loaded \in Task /\ Loaded.js = jobseeker /\ Loaded.em = employer
      /\ Loaded.outer.logo = "none" /\ Loaded.doc = "none"
      /\ Loaded.read = [d \in Docs |-> NoPaper] /\ jobseeker \in JobseekerProfile
  BY LoadedIs DEF NewEmployer
<1>2. ASSUME NEW t, Receive(h, t), Arriving(t) PROVE Arrives(h)
  BY <1>2 DEF Arrives
<1>3. /\ Started(jobseeker).cv = jobseeker.cv /\ Started(jobseeker).picture = jobseeker.picture
      /\ Started(jobseeker).text = jobseeker.text
      /\ Started(jobseeker).status = "APPROVED" => jobseeker.status = "APPROVED"
  BY <1>0 DEF Started, JobseekerProfile
<1>4. CASE UploadCv(h)
  <2> DEFINE t == [Loaded EXCEPT !.op = "uploadCv", !.js = Started(jobseeker),
                                 !.pc = IF jobseeker.cv = "none" THEN "upload" ELSE "clear"]
  <2>1. /\ t.op = "uploadCv" /\ t.js = Started(jobseeker) /\ t.em = employer
        /\ t.outer.logo = "none"
        /\ t.doc = "none" /\ t.read = Loaded.read
        /\ t.pc = IF jobseeker.cv = "none" THEN "upload" ELSE "clear"
    BY <1>0 DEF Task
  <2> HIDE DEF t
  <2>2. Arriving(t)
    BY <1>0, <1>3, <2>1 DEF Arriving, Uploads, PaperOp
  <2> QED
    BY <1>2, <1>4, <2>2 DEF UploadCv, t
<1>5. CASE UploadProfilePicture(h)
  <2> DEFINE t == [Loaded EXCEPT !.op = "uploadPicture",
                                 !.pc = IF jobseeker.picture = "none" THEN "upload" ELSE "clear"]
  <2>1. /\ t.op = "uploadPicture" /\ t.js = jobseeker /\ t.em = employer
        /\ t.outer.logo = "none"
        /\ t.doc = "none" /\ t.read = Loaded.read
        /\ t.pc = IF jobseeker.picture = "none" THEN "upload" ELSE "clear"
    BY <1>0 DEF Task
  <2> HIDE DEF t
  <2>2. Arriving(t)
    BY <1>0, <2>1 DEF Arriving, Uploads, PaperOp
  <2> QED
    BY <1>2, <1>5, <2>2 DEF UploadProfilePicture, t
<1>6. ASSUME NEW op \in {"deleteCv", "deletePicture"},
             Receive(h, [Loaded EXCEPT !.op = op, !.pc = "clear"])
      PROVE  Arrives(h)
  <2> DEFINE t == [Loaded EXCEPT !.op = op, !.pc = "clear"]
  <2>1. /\ t.op = op /\ t.js = jobseeker /\ t.em = employer
        /\ t.outer.logo = "none" /\ t.pc = "clear"
        /\ t.doc = "none" /\ t.read = Loaded.read
    BY <1>0 DEF Task
  <2> HIDE DEF t
  <2>2. Arriving(t)
    BY <1>0, <2>1 DEF Arriving, PaperOp
  <2> QED
    BY <1>2, <1>6, <2>2 DEF t
<1>7. ASSUME NEW op \in PaperOp, NEW k \in JobseekerKinds, ChangePaper(h, op, k)
      PROVE  Arrives(h)
  <2> DEFINE js == IF op = "uploadPaper" THEN Started(jobseeker) ELSE jobseeker
             t == [Loaded EXCEPT !.op = op, !.pc = "existing", !.kind = k, !.js = js]
  <2>1. /\ t.op = op /\ t.js = js /\ t.em = employer /\ t.kind = k
        /\ t.outer.logo = "none" /\ t.pc = "existing"
        /\ t.doc = "none" /\ t.read = Loaded.read
    BY <1>0 DEF Task
  <2>2. js.cv = jobseeker.cv /\ js.picture = jobseeker.picture /\ js.status # "APPROVED"
        /\ jobseeker.status # "APPROVED"
    BY <1>3, <1>7 DEF ChangePaper
  <2> HIDE DEF t, js
  <2>3. Arriving(t)
    BY <1>0, <2>1, <2>2 DEF Arriving, PaperOp
  <2> QED
    BY <1>2, <1>7, <2>3 DEF ChangePaper, t, js
<1>8. ASSUME NEW txt \in Texts, NEW work \in BOOLEAN, NEW c \in BOOLEAN,
             NEW s \in {"none", "name", "id", "empty"}, UpdateProfile(h, txt, work, c, s)
      PROVE  Arrives(h)
  <2> DEFINE js == Rewritten(txt, work, c)
             t == [Loaded EXCEPT !.op = "updateProfile", !.js = js, !.skill = s,
                                 !.pc = IF s = "none" THEN "reload" ELSE "unskill"]
  <2>1. /\ t.op = "updateProfile" /\ t.js = js /\ t.em = employer
        /\ t.outer.logo = "none" /\ t.pc = IF s = "none" THEN "reload" ELSE "unskill"
        /\ t.doc = "none" /\ t.read = Loaded.read
    BY <1>0 DEF Task
  <2>2. /\ js.cv = jobseeker.cv /\ js.picture = jobseeker.picture
        /\ js.status = "APPROVED" => jobseeker.status = "APPROVED" /\ js.text = jobseeker.text
    <3> DEFINE j == [jobseeker EXCEPT
                       !.text = txt, !.complete = c,
                       !.status = IF @ = "APPROVED" /\ (work \/ txt # jobseeker.text)
                                  THEN "PENDING" ELSE @]
    <3>1. /\ j.cv = jobseeker.cv /\ j.picture = jobseeker.picture /\ j.text = txt
          /\ j.status = "APPROVED" => jobseeker.status = "APPROVED" /\ txt = jobseeker.text
          /\ j \in JobseekerProfile
      BY <1>0 DEF JobseekerProfile, Approval
    <3>2. js = Started(j)
      BY DEF Rewritten
    <3> HIDE DEF j, js
    <3> QED
      BY <3>1, <3>2 DEF Started, JobseekerProfile
  <2> HIDE DEF t, js
  <2>3. Arriving(t)
    BY <1>0, <2>1, <2>2 DEF Arriving, PaperOp
  <2> QED
    BY <1>2, <1>8, <2>3 DEF UpdateProfile, t, js
<1> QED
  BY <1>4, <1>5, <1>6, <1>7, <1>8
     DEF JobseekerController, CvRoutes, PictureRoutes, IdDocumentRoutes, ProofOfAddressRoutes,
         DeleteCv, DeleteProfilePicture, UploadIdDocument, UploadProofOfAddress,
         DeleteIdDocument, DeleteProofOfAddress, PaperOp, JobseekerKinds

LEMMA DecisionArrivesSole ==
    ASSUME ProfilesIInv, NEW h \in Requests,
           JobseekerDecisions(h) \/ EmployerDecisions(h)
    PROVE  Arrives(h)
<1>0. /\ Loaded \in Task /\ Loaded.js = jobseeker /\ Loaded.em = employer
      /\ Loaded.outer.logo = "none" /\ Loaded.doc = "none"
      /\ Loaded.read = [d \in Docs |-> NoPaper]
      /\ jobseeker \in JobseekerProfile /\ employer \in EmployerProfile
      /\ papers \in [Docs -> Paper]
  BY LoadedIs DEF NewEmployer
<1>2. ASSUME NEW t, Receive(h, t), Arriving(t) PROVE Arrives(h)
  BY <1>2 DEF Arrives
<1>3. CASE ApproveJobseeker(h)
  <2> DEFINE t == [Loaded EXCEPT !.op = "approveJobseeker", !.pc = "hasId",
                                 !.status = "APPROVED"]
  <2>1. /\ t.op = "approveJobseeker" /\ t.js = jobseeker /\ t.em = employer
        /\ t.outer.logo = "none" /\ t.pc = "hasId"
        /\ t.doc = "none" /\ t.read = Loaded.read
    BY <1>0 DEF Task
  <2> HIDE DEF t
  <2>2. Arriving(t)
    BY <1>0, <2>1 DEF Arriving, PaperOp
  <2> QED
    BY <1>2, <1>3, <2>2 DEF ApproveJobseeker, t
<1>4. ASSUME NEW op \in {"rejectJobseeker", "unapproveJobseeker", "resetJobseeker"},
             NEW st \in {"REJECTED", "PENDING"},
             Receive(h, [Loaded EXCEPT !.op = op, !.pc = "reload", !.js.status = st])
      PROVE  Arrives(h)
  <2> DEFINE js == [jobseeker EXCEPT !.status = st]
             t == [Loaded EXCEPT !.op = op, !.pc = "reload", !.js.status = st]
  <2>1. /\ t.op = op /\ t.js = js /\ t.em = employer
        /\ t.outer.logo = "none" /\ t.pc = "reload"
        /\ t.doc = "none" /\ t.read = Loaded.read
    BY <1>0 DEF Task
  <2>2. js.cv = jobseeker.cv /\ js.picture = jobseeker.picture /\ js.status # "APPROVED"
    BY <1>0 DEF JobseekerProfile
  <2> HIDE DEF t, js
  <2>3. Arriving(t)
    BY <1>0, <2>1, <2>2 DEF Arriving, PaperOp
  <2> QED
    BY <1>2, <1>4, <2>3 DEF t
<1>5. ASSUME NEW op \in {"reviewJobseekerPaper", "reviewEmployerPaper"}, NEW d \in Docs,
             NEW st \in PaperStatus,
             papers[d].kind \in IF op = "reviewJobseekerPaper" THEN JobseekerKinds
                                ELSE EmployerKinds,
             Receive(h, [Loaded EXCEPT !.op = op, !.pc = "savePapers", !.status = st,
                                       !.read[d] = papers[d]])
      PROVE  Arrives(h)
  <2> DEFINE t == [Loaded EXCEPT !.op = op, !.pc = "savePapers", !.status = st,
                                 !.read[d] = papers[d]]
  <2>1. /\ t.op = op /\ t.js = jobseeker /\ t.em = employer
        /\ t.outer.logo = "none" /\ t.pc = "savePapers"
        /\ t.doc = "none"
        /\ t.read = [Loaded.read EXCEPT ![d] = papers[d]]
    BY <1>0 DEF Task
  <2> HIDE DEF t
  <2>2. \A c \in Docs : t.read[c] # NoPaper => c = d /\ t.read[c] = papers[c]
    BY <1>0, <2>1
  <2>3. Arriving(t)
    BY <1>5, <2>1, <2>2 DEF Arriving, PaperOp, JobseekerOp, EmployerOp
  <2> QED
    BY <1>2, <1>5, <2>3 DEF t
\* The employer as a whole.
<1>6. ASSUME NEW t, Receive(h, t), t.pc \in {"reload", "list"},
             t.op \in {"approveEmployer", "setVerification", "activate", "setStatus"},
             t.js = jobseeker, t.em.logo = employer.logo, t.outer.logo = "none",
             t.doc = "none", t.read = Loaded.read
      PROVE  Arrives(h)
  <2>1. Arriving(t)
    BY <1>0, <1>6 DEF Arriving, PaperOp
  <2> QED
    BY <1>2, <1>6, <2>1
<1>7. ASSUME NEW st \in Approval, SetVerification(h, st) PROVE Arrives(h)
  <2> DEFINE em == [employer EXCEPT !.verification = st]
             op == IF st = "APPROVED" THEN "approveEmployer" ELSE "setVerification"
             t == [Loaded EXCEPT !.op = op, !.pc = "reload", !.em.verification = st,
                                 !.status = "APPROVED"]
  <2>1. /\ t.op = op /\ t.js = jobseeker /\ t.em = em
        /\ t.outer.logo = "none" /\ t.pc = "reload"
        /\ t.doc = "none" /\ t.read = Loaded.read
    BY <1>0 DEF Task
  <2>2. em.logo = employer.logo
    BY <1>0 DEF EmployerProfile
  <2>3. Receive(h, t)
    BY <1>7 DEF SetVerification
  <2> HIDE DEF t, em
  <2> QED
    BY <1>6, <2>1, <2>2, <2>3
<1>8. ASSUME NEW st \in EmployerStatus, UpdateEmployerStatus(h, st) PROVE Arrives(h)
  <2>1. CASE st = "ACTIVE"
    <3> DEFINE em == [employer EXCEPT !.verification = "APPROVED", !.status = st]
               t == [Loaded EXCEPT !.op = "activate", !.pc = "list",
                               !.em.verification = "APPROVED", !.em.status = st,
                               !.status = "APPROVED"]
    <3>1. /\ t.op = "activate" /\ t.js = jobseeker /\ t.em = em
          /\ t.outer.logo = "none" /\ t.pc = "list"
          /\ t.doc = "none" /\ t.read = Loaded.read
      BY <1>0 DEF Task
    <3>2. em.logo = employer.logo
      BY <1>0 DEF EmployerProfile
    <3>3. Receive(h, t)
      BY <1>8, <2>1 DEF UpdateEmployerStatus
    <3> HIDE DEF t, em
    <3> QED
      BY <1>6, <3>1, <3>2, <3>3
  <2>2. CASE st # "ACTIVE"
    <3> DEFINE em == [employer EXCEPT !.status = st]
               t == [Loaded EXCEPT !.op = "setStatus", !.pc = "reload", !.em.status = st]
    <3>1. /\ t.op = "setStatus" /\ t.js = jobseeker /\ t.em = em
          /\ t.outer.logo = "none" /\ t.pc = "reload"
          /\ t.doc = "none" /\ t.read = Loaded.read
      BY <1>0 DEF Task
    <3>2. em.logo = employer.logo
      BY <1>0 DEF EmployerProfile
    <3>3. Receive(h, t)
      BY <1>8, <2>2 DEF UpdateEmployerStatus
    <3> HIDE DEF t, em
    <3> QED
      BY <1>6, <3>1, <3>2, <3>3
  <2> QED
    BY <2>1, <2>2
<1> QED
  BY <1>3, <1>4, <1>5, <1>7, <1>8, ZenonT(60)
     DEF JobseekerDecisions, EmployerDecisions, RejectJobseeker, UnapproveJobseeker,
         ReviewJobseekerPaper, ReviewEmployerPaper

LEMMA EmployerArrivesSole ==
    ASSUME ProfilesIInv, NEW h \in Requests, EmployerController(h)
    PROVE  Arrives(h)
<1>0. /\ Loaded \in Task /\ Loaded.js = jobseeker /\ Loaded.em = employer
      /\ Loaded.outer.logo = "none" /\ Loaded.doc = "none"
      /\ Loaded.read = [d \in Docs |-> NoPaper] /\ employer \in EmployerProfile
  BY LoadedIs DEF NewEmployer
<1>2. ASSUME NEW t, Receive(h, t), t.js = jobseeker, t.em.logo = employer.logo,
             t.outer.logo = "none", t.op \in EmployerOp,
             \/ t.pc \in {"clear", "next", "eligible"}
             \/ t.pc = "upload" /\ t.op = "uploadLogo" /\ employer.logo = "none"
             \/ t.pc = "find" /\ t.op = "deleteEmployerPaper"
                  /\ t.doc \in FiledAs(EmployerKinds)
             \/ t.pc = "reload" /\ t.op \notin {"uploadLogo", "deleteLogo"},
             t.op = "uploadEmployerPaper" => t.kind \in EmployerKinds,
             t.doc # "none" => t.op = "deleteEmployerPaper" /\ t.doc \in FiledAs(EmployerKinds),
             \A d \in Docs : t.read[d] # NoPaper =>
               t.read[d] = papers[d] /\ papers[d].kind \in EmployerKinds
      PROVE  Arrives(h)
  <2>1. Arriving(t)
    BY <1>2 DEF Arriving, EmployerOp, JobseekerOp, PaperOp, Uploads
  <2> QED
    BY <1>2, <2>1 DEF Arrives
<1>3. StartedVerification(employer).logo = employer.logo
      /\ StartedVerification(employer) \in EmployerProfile
  BY <1>0, StartedTypes DEF StartedVerification, EmployerProfile
<1>4. ASSUME NEW ty, UpdateVerificationInfo(h, ty) PROVE Arrives(h)
  <2> DEFINE em == [StartedVerification(employer) EXCEPT
                               !.type = IF ty = "none" THEN @ ELSE ty]
             t == [Loaded EXCEPT !.op = "updateInfo", !.pc = "reload", !.em = em]
  <2>1. /\ t.op = "updateInfo" /\ t.js = jobseeker /\ t.em = em
        /\ t.outer.logo = "none" /\ t.pc = "reload"
        /\ t.doc = "none" /\ t.read = Loaded.read
    BY <1>0 DEF Task
  <2>2. em.logo = employer.logo
    BY <1>3 DEF EmployerProfile
  <2>3. Receive(h, t)
    BY <1>4 DEF UpdateVerificationInfo
  <2> HIDE DEF t, em
  <2> QED
    BY <1>0, <1>2, <2>1, <2>2, <2>3 DEF EmployerOp
<1>5. ASSUME NEW ty, UpdateEmployerProfile(h, ty) PROVE Arrives(h)
  <2> DEFINE em == [employer EXCEPT !.type = IF ty = "none" THEN @ ELSE ty]
             read == [d \in Docs |-> IF papers[d].kind \in EmployerKinds
                                     THEN papers[d] ELSE NoPaper]
             t == [Loaded EXCEPT !.op = "updateEmployer", !.pc = "reload",
                     !.em.type = IF ty = "none" THEN @ ELSE ty, !.read = read]
  <2>0. \A d \in Docs : read[d] # NoPaper =>
          read[d] = papers[d] /\ papers[d].kind \in EmployerKinds
    OBVIOUS
  <2>1. /\ t.op = "updateEmployer" /\ t.js = jobseeker /\ t.em = em
        /\ t.outer.logo = "none" /\ t.pc = "reload"
        /\ t.doc = "none" /\ t.read = read
    BY <1>0 DEF Task
  <2>2. em.logo = employer.logo
    BY <1>0 DEF EmployerProfile
  <2>3. Receive(h, t)
    BY <1>5 DEF UpdateEmployerProfile
  <2> HIDE DEF t, em, read
  <2> QED
    BY <1>2, <2>0, <2>1, <2>2, <2>3 DEF EmployerOp
<1>6. ASSUME NEW k \in EmployerKinds, UploadVerificationDocument(h, k) PROVE Arrives(h)
  <2> DEFINE t == [Loaded EXCEPT !.op = "uploadEmployerPaper", !.pc = "reload", !.kind = k,
                                 !.em = StartedVerification(employer)]
  <2>1. /\ t.op = "uploadEmployerPaper" /\ t.js = jobseeker
        /\ t.em = StartedVerification(employer)
        /\ t.outer.logo = "none" /\ t.pc = "reload" /\ t.kind = k
        /\ t.doc = "none" /\ t.read = Loaded.read
    BY <1>0 DEF Task
  <2>2. Receive(h, t)
    BY <1>6 DEF UploadVerificationDocument
  <2> HIDE DEF t
  <2> QED
    BY <1>0, <1>2, <1>3, <2>1, <2>2 DEF EmployerOp
<1>7. CASE UploadVerificationDocumentsBatch(h)
  <2> DEFINE t == [Loaded EXCEPT !.op = "uploadBatch", !.pc = "next",
                                 !.em = StartedVerification(employer)]
  <2>1. /\ t.op = "uploadBatch" /\ t.js = jobseeker /\ t.em = StartedVerification(employer)
        /\ t.outer.logo = "none" /\ t.pc = "next"
        /\ t.doc = "none" /\ t.read = Loaded.read
    BY <1>0 DEF Task
  <2>2. Receive(h, t)
    BY <1>7 DEF UploadVerificationDocumentsBatch
  <2> HIDE DEF t
  <2> QED
    BY <1>0, <1>2, <1>3, <2>1, <2>2 DEF EmployerOp
<1>8. ASSUME NEW d \in Docs, DeleteVerificationDocument(h, d) PROVE Arrives(h)
  <2> DEFINE t == [Loaded EXCEPT !.op = "deleteEmployerPaper", !.pc = "find", !.doc = d]
  <2>1. /\ t.op = "deleteEmployerPaper" /\ t.js = jobseeker /\ t.em = employer
        /\ t.outer.logo = "none" /\ t.pc = "find" /\ t.doc = d
        /\ t.read = Loaded.read
    BY <1>0 DEF Task
  <2>2. Receive(h, t) /\ d \in FiledAs(EmployerKinds)
    BY <1>8 DEF DeleteVerificationDocument, FiledAs
  <2> HIDE DEF t
  <2> QED
    BY <1>0, <1>2, <2>1, <2>2 DEF EmployerOp
<1>9. ASSUME NEW op \in {"autoVerify", "uploadLogo", "deleteLogo"},
             NEW pc \in {"eligible", "upload", "clear"},
             Receive(h, [Loaded EXCEPT !.op = op, !.pc = pc]),
             pc = "upload" => op = "uploadLogo" /\ employer.logo = "none"
      PROVE  Arrives(h)
  <2> DEFINE t == [Loaded EXCEPT !.op = op, !.pc = pc]
  <2>1. /\ t.op = op /\ t.js = jobseeker /\ t.em = employer
        /\ t.outer.logo = "none" /\ t.pc = pc
        /\ t.doc = "none" /\ t.read = Loaded.read
    BY <1>0 DEF Task
  <2>2. Receive(h, t)
    BY <1>9
  <2> HIDE DEF t
  <2> QED
    BY <1>0, <1>2, <1>9, <2>1, <2>2 DEF EmployerOp
<1>10. CASE AutoVerify(h) \/ UploadCompanyLogo(h) \/ DeleteCompanyLogo(h)
  BY <1>9, <1>10 DEF AutoVerify, UploadCompanyLogo, DeleteCompanyLogo
<1> QED
  BY <1>4, <1>5, <1>6, <1>7, <1>8, <1>10
     DEF EmployerController, VerificationRoutes, ProfileRoutes

\* The entities of a request that goes on with no document on its way.
LEMMA MirrorsStay ==
    ASSUME NEW t, NEW u, Mirrors(t), u.op = t.op, u.js = t.js, u.em.logo = t.em.logo,
           u.outer.logo = t.outer.logo, u.kind = t.kind \/ t.op = "uploadBatch",
           ~Attaching(t), ~Attaching(u)
    PROVE  Mirrors(u)
<1>1. t.op = "uploadBatch" => t.op \notin JobseekerOp \cup PaperOp
  BY DEF JobseekerOp, PaperOp
<1> QED
  BY <1>1 DEF Mirrors

LEMMA GoesOnSole ==
    ASSUME ProfilesIInv, NEW h \in Requests, SoleAt(h),
           UNCHANGED <<files, jobseeker, employer, failed, reviewed>>,
           ~Attaching(task[h]), task[h].pc \notin {"find", "object", "row", "insert"},
           ~Attaching(task'[h]), task'[h].pc \notin {"find", "object", "row", "insert"},
           SoleRequestOK(task'[h])
    PROVE  SoleAt(h)'
<1>1. ~failed => FilesAt(task'[h])
  BY SettledFiles DEF SoleAt
<1> QED
  BY <1>1, SoleAlone

\* A step that only goes on to another one.
LEMMA OnwardsSole ==
    ASSUME ProfilesIInv, NEW h \in Requests, SoleAt(h),
           UNCHANGED <<files, jobseeker, employer, failed, reviewed>>,
           NEW pc, task'[h] = [task[h] EXCEPT !.pc = pc],
           task[h].pc \notin {"file", "write", "reload", "find", "object", "row", "insert"},
           \/ pc \in {"load", "skill", "link", "list"}
           \/ pc = "upload" /\ Uploads(task[h])
           \/ pc = "hasProof" /\ (task[h].op = "approveJobseeker" =>
                                    FiledAs({"ID_DOCUMENT"}) # {})
           \/ pc = "reload" /\ task[h].op \notin {"uploadCv", "uploadPicture", "uploadLogo",
                                                "deleteLogo", "approveJobseeker"}
    PROVE  SoleAt(h)'
<1> DEFINE t == task[h]
           u == task'[h]
<1>1. /\ t \in Task /\ SoleRequestOK(t)
  BY DEF ProfilesIInv, ProfilesTypeOK, SoleAt
<1>2. /\ u.op = t.op /\ u.js = t.js /\ u.em = t.em /\ u.outer = t.outer /\ u.kind = t.kind
      /\ u.pc = pc
  BY <1>1 DEF Task
<1> HIDE DEF t, u
<1>3. ~Attaching(t) /\ ~Attaching(u)
  BY <1>2 DEF Attaching, t
<1>4. Mirrors(u)
  BY <1>1, <1>2, <1>3, MirrorsStay DEF SoleRequestOK
<1>5. pc = "upload" => Uploads(u)
  BY <1>2 DEF Uploads, t
<1>6. SoleRequestOK(u)
  BY <1>1, <1>2, <1>3, <1>4, <1>5 DEF SoleRequestOK, t
<1> QED
  BY <1>2, <1>3, <1>6, GoesOnSole DEF t, u

LEMMA EndsSole ==
    ASSUME ProfilesIInv, NEW h \in Requests, SoleAt(h),
           UNCHANGED <<files, jobseeker, employer, failed, reviewed>>, task'[h] = Rest,
           ~Attaching(task[h]), task[h].pc \notin {"find", "object", "row", "insert"}
    PROVE  SoleAt(h)'
<1>1. ~Attaching(Rest) /\ Rest.pc = "idle"
  BY DEF Rest, Attaching
<1> QED
  BY <1>1, RestSole, GoesOnSole

LEMMA ReadsSole ==
    ASSUME ProfilesIInv, NEW h \in Requests, SoleAt(h), Reads(h)
    PROVE  SoleAt(h)'
<1> DEFINE t == task[h]
           u == task'[h]
<1>0. /\ t \in Task /\ t.op \in OpsAt(t.pc) /\ SoleRequestOK(t) /\ Mirrors(t)
      /\ task \in [Requests -> Task]
      /\ jobseeker \in JobseekerProfile /\ employer \in EmployerProfile
      /\ papers \in [Docs -> Paper] /\ OwnedOnce
      /\ References \subseteq documents
      /\ UNCHANGED <<files, jobseeker, employer, failed, reviewed>>
  BY ReadsGo DEF ProfilesIInv, ProfilesTypeOK, OnCourse, SoleAt, SoleRequestOK, OwnedOnce,
                 past
<1> HIDE DEF t, u
\* A document is found that is referred to.
<1>1. ASSUME u.pc = "find", u.doc \in References, Deletes(u), Mirrors(u),
             t.pc \in {"clear", "remove"}, u.op \in ColumnOp
      PROVE  SoleAt(h)'
  <2>1. ~Attaching(t) /\ ~Attaching(u)
    BY <1>1 DEF Attaching
  <2>2. SoleRequestOK(u)
    BY <1>0, <1>1, <2>1 DEF SoleRequestOK, ColumnOp, PaperOp
  <2>3. ~failed => documents = References /\ objects = References
    BY <1>1, <2>1, SettledFiles DEF SoleAt, t
  <2>4. ~failed => FilesAt(u)
    BY <1>1, <2>1, <2>3 DEF FilesAt
  <2> QED
    BY <1>0, <2>2, <2>4, SoleAlone DEF u
\* The end of a request, and a step to the next one.
<1>2. ASSUME Finish(h), t.pc \notin {"file", "write", "reload", "find", "object", "row", "insert"}
      PROVE  SoleAt(h)'
  <2>1. ~Attaching(t)
    BY <1>2 DEF Attaching
  <2> QED
    BY <1>0, <1>2, <2>1, FinishGoes, EndsSole DEF t
<1>3. ASSUME NEW pc, Proceed(h, pc)
      PROVE  task'[h] = [task[h] EXCEPT !.pc = pc]
  BY <1>0, <1>3 DEF Proceed, t
<1>4. ASSUME NEW c \in {"cv", "picture"}, DeleteColumn(h, c), c = "cv" => t.op \in {"uploadCv", "deleteCv"},
             c = "picture" => t.op \in {"uploadPicture", "deletePicture"}
      PROVE  SoleAt(h)'
  <2>0. t.pc = "clear" /\ jobseeker[c] = IF c = "cv" THEN jobseeker.cv ELSE jobseeker.picture
    BY <1>0, <1>4 DEF DeleteColumn, On, t
  <2>1. CASE jobseeker[c] # "none"
    <3> DEFINE js == [t.js EXCEPT ![c] = "none"]
               v == [t EXCEPT !.pc = "find", !.doc = jobseeker[c], !.js = js]
    <3>1. task' = [task EXCEPT ![h] = v]
      BY <1>0, <1>4, <2>1 DEF DeleteColumn, Task, t
    <3>2. /\ js.status = t.js.status /\ js.text = t.js.text
          /\ js.cv = IF c = "cv" THEN "none" ELSE t.js.cv
          /\ js.picture = IF c = "picture" THEN "none" ELSE t.js.picture
      <4>1. t.js \in JobseekerProfile
        BY <1>0, Fields
      <4>2. CASE c = "cv"
        BY <4>1, <4>2 DEF JobseekerProfile
      <4>3. CASE c = "picture"
        BY <4>1, <4>3 DEF JobseekerProfile
      <4> QED
        BY <4>2, <4>3
    <3> HIDE DEF js
    <3>3. /\ u.op = t.op /\ u.pc = "find" /\ u.doc = jobseeker[c] /\ u.js = js
          /\ u.em = t.em /\ u.outer = t.outer /\ u.kind = t.kind
      BY <1>0, <3>1 DEF Task, u
    <3>4. ~Attaching(t) /\ ~Attaching(u)
      BY <2>0, <3>3 DEF Attaching
    <3>5. Mirrors(u)
      BY <1>0, <1>4, <3>2, <3>3, <3>4 DEF Mirrors, EmployerOp, PaperOp
    <3>6. u.doc \in References
      BY <2>0, <2>1, <3>3 DEF References
    <3>7. Deletes(u)
      BY <1>4, <2>0, <3>3 DEF Deletes, PaperOp
    <3> QED
      BY <1>1, <1>4, <2>0, <3>3, <3>5, <3>6, <3>7 DEF ColumnOp
  <2>2. CASE jobseeker[c] = "none"
    <3>1. AfterDelete(h)
      BY <1>4, <2>2 DEF DeleteColumn
    <3>2. CASE t.op \in {"uploadCv", "uploadPicture"}
      <4>1. u = [t EXCEPT !.pc = "upload"]
        BY <1>3, <3>1, <3>2 DEF AfterDelete, t, u
      <4>2. Uploads(t)
        BY <1>4, <2>0, <2>2, <3>2 DEF Uploads
      <4> QED
        BY <1>0, <2>0, <4>1, <4>2, OnwardsSole DEF t, u
    <3>3. CASE t.op \in {"deleteCv", "deletePicture"}
      <4>1. Finish(h)
        BY <3>1, <3>3 DEF AfterDelete, t
      <4> QED
        BY <1>2, <2>0, <4>1
    <3> QED
      BY <1>4, <3>2, <3>3
  <2> QED
    BY <2>1, <2>2
<1>5. CASE DeleteCvColumn(h) \/ DeletePictureColumn(h)
  BY <1>4, <1>5 DEF DeleteCvColumn, DeletePictureColumn, t
<1>6. CASE FindExisting(h)
  <2>0. t.pc = "existing" /\ t.op \in PaperOp
    BY <1>0, <1>6, Stages DEF FindExisting, On, t
  <2>1. CASE FiledAs({t.kind}) = {} /\ AfterDelete(h)
    <3>1. CASE t.op = "uploadPaper"
      <4>1. u = [t EXCEPT !.pc = "upload"]
        BY <1>3, <2>1, <3>1 DEF AfterDelete, t, u
      <4>2. Uploads(t)
        BY <2>1, <3>1 DEF Uploads
      <4> QED
        BY <1>0, <2>0, <4>1, <4>2, OnwardsSole DEF t, u
    <3>2. CASE t.op = "deletePaper"
      <4>1. Finish(h)
        BY <2>1, <3>2 DEF AfterDelete, t
      <4> QED
        BY <1>2, <2>0, <4>1
    <3> QED
      BY <2>0, <3>1, <3>2 DEF PaperOp
  <2>2. ASSUME NEW d \in FiledAs({t.kind}), task' = [task EXCEPT ![h].pc = "remove", ![h].doc = d]
        PROVE  SoleAt(h)'
    <3> DEFINE v == [t EXCEPT !.pc = "remove", !.doc = d]
    <3>1. task' = [task EXCEPT ![h] = v]
      BY <1>0, <2>2 DEF Task, t
    <3>2. /\ u.op = t.op /\ u.pc = "remove" /\ u.doc = d /\ u.js = t.js
          /\ u.em = t.em /\ u.outer = t.outer /\ u.kind = t.kind
      BY <1>0, <3>1 DEF Task, u
    <3>3. ~Attaching(t) /\ ~Attaching(u)
      BY <2>0, <3>2 DEF Attaching
    <3>4. Mirrors(u)
      BY <1>0, <3>2, <3>3, MirrorsStay
    <3>5. SoleRequestOK(u)
      BY <1>0, <2>0, <2>2, <3>2, <3>3, <3>4 DEF SoleRequestOK, PaperOp
    <3> QED
      BY <1>0, <2>0, <3>2, <3>3, <3>5, GoesOnSole DEF t, u
  <2> QED
    BY <1>6, <2>1, <2>2 DEF FindExisting, t
<1>7. CASE FindIdRow(h)
  <2>0. t.pc = "hasId"
    BY <1>7 DEF FindIdRow, On, t
  <2>1. CASE FiledAs({"ID_DOCUMENT"}) # {}
    <3>1. u = [t EXCEPT !.pc = "hasProof"]
      BY <1>3, <1>7, <2>1 DEF FindIdRow, t, u
    <3> QED
      BY <1>0, <2>0, <2>1, <3>1, OnwardsSole DEF t, u
  <2> QED
    BY <1>2, <1>7, <2>0, <2>1 DEF FindIdRow
<1>8. CASE FindProofRow(h)
  <2>0. t.pc = "hasProof" /\ t.op = "approveJobseeker"
    BY <1>0, <1>8, Stages DEF FindProofRow, On, t
  <2>1. CASE /\ FiledAs({"PROOF_OF_ADDRESS"}) # {}
             /\ task' = [task EXCEPT ![h].pc = "reload", ![h].js.status = "APPROVED"]
    <3> DEFINE js == [t.js EXCEPT !.status = "APPROVED"]
               v == [t EXCEPT !.pc = "reload", !.js = js]
    <3>1. task' = [task EXCEPT ![h] = v]
      BY <1>0, <2>1 DEF Task, t
    <3>2. js.cv = t.js.cv /\ js.picture = t.js.picture
      BY <1>0, Fields DEF JobseekerProfile
    <3> HIDE DEF js
    <3>3. /\ u.op = t.op /\ u.pc = "reload" /\ u.js = js
          /\ u.em = t.em /\ u.outer = t.outer /\ u.kind = t.kind
      BY <1>0, <3>1 DEF Task, u
    <3>4. ~Attaching(t) /\ ~Attaching(u)
      BY <2>0, <3>3 DEF Attaching
    <3>5. Mirrors(u)
      BY <1>0, <2>0, <3>2, <3>3, <3>4 DEF Mirrors, EmployerOp, PaperOp
    <3>7. SoleRequestOK(u)
      BY <1>0, <2>0, <3>3, <3>4, <3>5 DEF SoleRequestOK, PaperOp, EmployerOp
    <3> QED
      BY <1>0, <2>0, <3>3, <3>4, <3>7, GoesOnSole DEF t, u
  <2> QED
    BY <1>2, <1>8, <2>0, <2>1 DEF FindProofRow
<1>9. ASSUME NEW kinds, ListPapers(h, kinds) PROVE SoleAt(h)'
  <2> DEFINE read == [d \in Docs |-> IF papers[d].kind \in kinds THEN papers[d] ELSE NoPaper]
             v == [t EXCEPT !.pc = "savePapers", !.read = read]
  <2>0. t.pc = "list" /\ t.op \notin PaperOp
    BY <1>0, <1>9, Stages DEF ListPapers, On, t, PaperOp
  <2>1. task' = [task EXCEPT ![h] = v]
    BY <1>0, <1>9 DEF ListPapers, Task, t
  <2>2. \A d \in Docs : read[d] # NoPaper => read[d].kind = papers[d].kind
    OBVIOUS
  <2> HIDE DEF read
  <2>3. /\ u.op = t.op /\ u.pc = "savePapers" /\ u.js = t.js /\ u.read = read
        /\ u.em = t.em /\ u.outer = t.outer /\ u.kind = t.kind
    BY <1>0, <2>1 DEF Task, u
  <2>4. ~Attaching(t) /\ ~Attaching(u)
    BY <2>0, <2>3 DEF Attaching
  <2>5. Mirrors(u)
    BY <1>0, <2>3, <2>4, MirrorsStay
  <2>6. SoleRequestOK(u)
    BY <1>0, <2>0, <2>2, <2>3, <2>4, <2>5 DEF SoleRequestOK
  <2> QED
    BY <1>0, <2>0, <2>3, <2>4, <2>6, GoesOnSole DEF t, u
<1>10. CASE ListJobseekerPapers(h) \/ ListEmployerPapers(h)
  BY <1>9, <1>10 DEF ListJobseekerPapers, ListEmployerPapers
\* The copy that save compares the entity with.
<1>11. ASSUME t.pc = "reload", u.pc = "write", u.op = t.op, u.doc = t.doc, u.js = t.js,
              u.em = t.em, u.outer = t.outer, u.kind = t.kind,
              t.op \in JobseekerOp => u.jsSnap = jobseeker,
              t.op \in EmployerOp => u.emSnap = employer
       PROVE  SoleAt(h)'
  <2>1. Attaching(u) <=> Attaching(t)
    BY <1>11 DEF Attaching
  <2>2. Mirrors(u)
    BY <1>0, <1>11, <2>1 DEF Mirrors
  <2>3. Uploads(t) => Uploads(u)
    BY <1>11 DEF Uploads
  <2>4. SoleRequestOK(u)
    BY <1>0, <1>11, <2>1, <2>2, <2>3 DEF SoleRequestOK
  <2>5. ~failed => FilesAt(u)
    BY <1>11, <2>1 DEF FilesAt, SoleAt, t
  <2> QED
    BY <1>0, <2>4, <2>5, SoleAlone DEF u
<1>12. CASE ReloadJobseeker(h)
  <2> DEFINE v == [t EXCEPT !.pc = "write", !.jsSnap = jobseeker]
  <2>1. task' = [task EXCEPT ![h] = v] /\ t.pc = "reload" /\ t.op \in JobseekerOp
    BY <1>0, <1>12 DEF ReloadJobseeker, On, Task, t
  <2>2. /\ u.op = t.op /\ u.pc = "write" /\ u.doc = t.doc /\ u.js = t.js
        /\ u.em = t.em /\ u.outer = t.outer /\ u.kind = t.kind /\ u.jsSnap = jobseeker
    BY <1>0, <2>1 DEF Task, u
  <2>3. t.op \notin EmployerOp
    BY <2>1 DEF JobseekerOp, EmployerOp
  <2> QED
    BY <1>11, <2>1, <2>2, <2>3
<1>13. CASE ReloadEmployer(h)
  <2>0. t.pc = "reload" /\ t.op \in EmployerOp
    BY <1>13 DEF ReloadEmployer, On, t
  <2>1. CASE task' = [task EXCEPT ![h].pc = "write", ![h].emSnap = employer]
    <3> DEFINE v == [t EXCEPT !.pc = "write", !.emSnap = employer]
    <3>1. task' = [task EXCEPT ![h] = v]
      BY <1>0, <2>1 DEF Task, t
    <3>2. /\ u.op = t.op /\ u.pc = "write" /\ u.doc = t.doc /\ u.js = t.js
          /\ u.em = t.em /\ u.outer = t.outer /\ u.kind = t.kind /\ u.emSnap = employer
      BY <1>0, <3>1 DEF Task, u
    <3>3. t.op \notin JobseekerOp
      BY <2>0 DEF JobseekerOp, EmployerOp
    <3> QED
      BY <1>11, <2>0, <3>2, <3>3
  <2>2. CASE t.op = "updateEmployer" /\ Finish(h)
    <3>1. ~Attaching(t)
      BY <2>0, <2>2 DEF Attaching
    <3> QED
      BY <1>0, <2>0, <2>2, <3>1, FinishGoes, EndsSole DEF t
  <2> QED
    BY <1>13, <2>1, <2>2 DEF ReloadEmployer, t
<1>14. CASE NextOfBatch(h)
  <2>0. t.pc = "next" /\ t.op = "uploadBatch"
    BY <1>0, <1>14, Stages DEF NextOfBatch, On, t
  <2>1. CASE Proceed(h, "reload")
    BY <1>0, <1>3, <2>0, <2>1, OnwardsSole DEF t
  <2>2. ASSUME NEW k \in EmployerKinds, task' = [task EXCEPT ![h].pc = "upload", ![h].kind = k]
        PROVE  SoleAt(h)'
    <3> DEFINE v == [t EXCEPT !.pc = "upload", !.kind = k]
    <3>1. task' = [task EXCEPT ![h] = v]
      BY <1>0, <2>2 DEF Task, t
    <3>2. /\ u.op = t.op /\ u.pc = "upload" /\ u.kind = k /\ u.js = t.js
          /\ u.em = t.em /\ u.outer = t.outer
      BY <1>0, <3>1 DEF Task, u
    <3>3. ~Attaching(t) /\ ~Attaching(u)
      BY <2>0, <3>2 DEF Attaching
    <3>4. Mirrors(u)
      BY <1>0, <2>0, <3>2, <3>3, MirrorsStay
    <3>5. Uploads(u)
      BY <2>0, <3>2 DEF Uploads
    <3>6. SoleRequestOK(u)
      BY <1>0, <2>0, <2>2, <3>2, <3>3, <3>4, <3>5 DEF SoleRequestOK, PaperOp
    <3> QED
      BY <1>0, <2>0, <3>2, <3>3, <3>6, GoesOnSole DEF t, u
  <2> QED
    BY <1>14, <2>1, <2>2 DEF NextOfBatch
<1>15. CASE DeleteLogoColumn(h)
  <2>0. t.pc = "clear" /\ t.op \in {"uploadLogo", "deleteLogo"}
    BY <1>15 DEF DeleteLogoColumn, On, t
  <2>1. CASE employer.logo # "none"
    <3> DEFINE em == [employer EXCEPT !.logo = "unset"]
               outer == [t.em EXCEPT !.logo = "none"]
               v == [t EXCEPT !.pc = "find", !.doc = employer.logo, !.outer = outer, !.em = em]
    <3>1. em.logo = "unset" /\ outer.logo = "none"
      BY <1>0, Fields DEF EmployerProfile
    <3> HIDE DEF em, outer
    <3>2. task' = [task EXCEPT ![h] = v]
      BY <1>0, <1>15, <2>1 DEF DeleteLogoColumn, Task, em, outer, t
    <3>3. /\ u.op = t.op /\ u.pc = "find" /\ u.doc = employer.logo /\ u.js = t.js
          /\ u.em = em /\ u.outer = outer
      BY <1>0, <3>2 DEF Task, u
    <3>4. Mirrors(u)
      BY <2>0, <3>1, <3>3 DEF Mirrors, Attaching, JobseekerOp, EmployerOp, PaperOp
    <3>5. u.doc \in References
      BY <2>1, <3>3 DEF References
    <3>6. Deletes(u)
      BY <2>0, <3>1, <3>3 DEF Deletes, PaperOp
    <3> QED
      BY <1>1, <2>0, <3>3, <3>4, <3>5, <3>6 DEF ColumnOp
  <2>2. CASE employer.logo = "none"
    <3>1. CASE t.op = "uploadLogo"
      <4>1. u = [t EXCEPT !.pc = "upload"]
        BY <1>3, <1>15, <2>2, <3>1 DEF DeleteLogoColumn, t, u
      <4>2. Uploads(t)
        BY <2>2, <3>1 DEF Uploads
      <4> QED
        BY <1>0, <2>0, <4>1, <4>2, OnwardsSole DEF t, u
    <3>2. CASE t.op = "deleteLogo"
      <4>1. Finish(h)
        BY <1>15, <2>2, <3>2 DEF DeleteLogoColumn, t
      <4> QED
        BY <1>2, <2>0, <4>1
    <3> QED
      BY <2>0, <3>1, <3>2
  <2> QED
    BY <2>1, <2>2
<1>16. CASE CheckEligible(h)
  <2>0. t.pc = "eligible"
    BY <1>16 DEF CheckEligible, On, t
  <2>1. CASE Proceed(h, "load")
    BY <1>0, <1>3, <2>0, <2>1, OnwardsSole DEF t
  <2> QED
    BY <1>2, <1>16, <2>0, <2>1 DEF CheckEligible
<1>17. CASE LoadForAutoVerification(h)
  <2>0. t.pc = "load"
    BY <1>17 DEF LoadForAutoVerification, On, t
  <2>1. CASE employer.verification = "PENDING"
    <3> DEFINE em == [employer EXCEPT !.verification = "APPROVED"]
               v == [Loaded EXCEPT !.op = "autoVerify", !.pc = "reload",
                               !.em.verification = "APPROVED", !.status = "APPROVED"]
    <3>1. em.logo = employer.logo
      BY <1>0 DEF EmployerProfile
    <3>2. v.op = "autoVerify" /\ v.pc = "reload" /\ v.em = em
      BY LoadedIs DEF Task
    <3>3. u = v
      BY <1>0, <1>17, <2>1 DEF LoadForAutoVerification, u
    <3> HIDE DEF v, em
    <3>4. ~Attaching(t) /\ ~Attaching(u)
      BY <2>0, <3>2, <3>3 DEF Attaching
    <3>5. Mirrors(u)
      BY <3>1, <3>2, <3>3 DEF Mirrors, JobseekerOp, PaperOp
    <3>6. SoleRequestOK(u)
      BY <3>2, <3>3, <3>4, <3>5 DEF SoleRequestOK, PaperOp
    <3> QED
      BY <1>0, <2>0, <3>2, <3>3, <3>4, <3>6, GoesOnSole DEF t, u
  <2> QED
    BY <1>2, <1>17, <2>0, <2>1 DEF LoadForAutoVerification
<1>18. CASE FindDocument(h)
  <2>0. t.pc = "find" /\ t.doc \in documents /\ Deletes(t)
    BY <1>0, <1>18 DEF FindDocument, On, t, SoleRequestOK
  <2>1. u = [t EXCEPT !.pc = "object"]
    BY <1>3, <1>18, <2>0 DEF FindDocument, t, u
  <2>2. /\ u.op = t.op /\ u.pc = "object" /\ u.doc = t.doc /\ u.js = t.js /\ u.kind = t.kind
        /\ u.em = t.em /\ u.outer = t.outer
    BY <1>0, <2>1 DEF Task
  <2>3. ~Attaching(t) /\ ~Attaching(u)
    BY <2>0, <2>2 DEF Attaching
  <2>4. Mirrors(u)
    BY <1>0, <2>2, <2>3, MirrorsStay
  <2>5. Deletes(u)
    BY <2>0, <2>2 DEF Deletes
  <2>6. SoleRequestOK(u)
    BY <1>0, <2>0, <2>2, <2>3, <2>4, <2>5 DEF SoleRequestOK
  <2>7. ~failed => FilesAt(u)
    BY <2>0, <2>2, <2>3 DEF FilesAt, SoleAt, t
  <2> QED
    BY <1>0, <2>6, <2>7, SoleAlone DEF u
<1> QED
  BY <1>5, <1>6, <1>7, <1>8, <1>10, <1>12, <1>13, <1>14, <1>15, <1>16, <1>17, <1>18
     DEF Reads

\* A step that writes neither profile.
LEMMA SameProfiles ==
    ASSUME NEW h \in Requests, UNCHANGED <<jobseeker, employer>>
    PROVE  /\ Mirrors(task[h])' = Mirrors(task'[h])
           /\ Attaching(task[h])' = Attaching(task'[h])
BY DEF Mirrors, Attaching

\* The verification row goes before its document.
LEMMA RemoveExistingSole ==
    ASSUME ProfilesIInv, NEW h \in Requests, SoleAt(h), RemoveExisting(h)
    PROVE  SoleAt(h)'
<1> DEFINE t == task[h]
           u == task'[h]
<1>0. /\ t \in Task /\ SoleRequestOK(t) /\ Mirrors(t) /\ OwnedOnce
      /\ t.pc = "remove" /\ t.op \in PaperOp /\ papers \in [Docs -> Paper]
      /\ t.doc \in FiledAs({t.kind}) /\ t.doc \in Docs
      /\ UNCHANGED <<objects, documents, jobseeker, employer, past>>
  BY OnAt, Stages
     DEF RemoveExisting, On, ProfilesIInv, ProfilesTypeOK, SoleAt, SoleRequestOK, FiledAs
<1>1. u = [t EXCEPT !.pc = "find"]
  BY <1>0, OnAt, Stages, ProceedGoes DEF RemoveExisting
<1>2. /\ u.op = t.op /\ u.pc = "find" /\ u.doc = t.doc /\ u.js = t.js /\ u.kind = t.kind
      /\ u.em = t.em /\ u.outer = t.outer
  BY <1>0, <1>1 DEF Task
<1>3. \A c \in Docs : papers'[c].kind = IF c = t.doc THEN "none" ELSE papers[c].kind
  BY <1>0 DEF RemoveExisting, NoPaper
<1>a. t' = u
  BY DEF t, u
<1> HIDE DEF t, u
<1>4. t.kind \in JobseekerKinds /\ papers[t.doc].kind = t.kind
  BY <1>0 DEF Mirrors, SoleRequestOK, FiledAs, PaperOp, JobseekerOp
<1>5. Filed(t.doc) /\ t.doc \notin {jobseeker.cv, jobseeker.picture, employer.logo}
  BY <1>0, <1>4, Kinds DEF Filed, OwnedOnce
<1>6. t.doc \in documents
  BY <1>0, <1>5 DEF OwnedOnce, References
<1>7. References' = References \ {t.doc}
  BY <1>0, <1>3, <1>5 DEF References, Filed
<1>8. FiledAs({t.kind})' = {}
  BY <1>0, <1>2, <1>3, <1>4, <1>a, Kinds DEF FiledAs, OwnedOnce
<1>9. ~Attaching(t) /\ ~Attaching(u)
  BY <1>0, <1>2 DEF Attaching
<1>10. Mirrors(u)
  BY <1>0, <1>2, <1>9, MirrorsStay
<1>11. Mirrors(t)' /\ ~Attaching(t)'
  BY <1>0, <1>9, <1>10, SameProfiles DEF t, u
<1>12. OwnedOnce'
  <2>1. /\ References' \subseteq documents'
        /\ (jobseeker.cv # "none" => jobseeker.cv \notin {jobseeker.picture, employer.logo})'
        /\ (jobseeker.picture # "none" => jobseeker.picture # employer.logo)'
    BY <1>0, <1>7 DEF OwnedOnce
  <2>2. ASSUME NEW d \in Docs, Filed(d)'
        PROVE  (d \notin {jobseeker.cv, jobseeker.picture, employer.logo})'
    BY <1>0, <1>3, <2>2 DEF OwnedOnce, Filed
  <2>3. ASSUME NEW c \in Docs, NEW d \in Docs, papers'[c].kind = papers'[d].kind,
               papers'[c].kind \in JobseekerKinds
        PROVE  c = d
    BY <1>0, <1>3, <2>3, Kinds DEF OwnedOnce
  <2> QED
    BY <2>1, <2>2, <2>3 DEF OwnedOnce
<1>14. Deletes(t)'
  <2>1. u.op \notin {"uploadCv", "deleteCv", "uploadPicture", "deletePicture", "uploadLogo",
                     "deleteLogo", "deleteEmployerPaper"}
    BY <1>0, <1>2 DEF PaperOp
  <2> QED
    BY <1>0, <1>2, <1>5, <1>8, <1>a, <2>1 DEF Deletes
<1>15. SoleRequestOK(t)'
  <2>1. u.op \notin {"approveJobseeker", "uploadLogo", "deleteLogo"}
    BY <1>0, <1>2 DEF PaperOp
  <2> QED
    BY <1>0, <1>2, <1>4, <1>6, <1>11, <1>14, <1>a, <2>1 DEF SoleRequestOK
<1>16. (~failed => FilesAt(t))'
  <2>1. ~failed => documents = References /\ objects = References
    BY <1>0, <1>9, SettledFiles DEF SoleAt, t
  <2> QED
    BY <1>0, <1>2, <1>6, <1>7, <1>11, <1>a, <2>1 DEF FilesAt, past
<1> QED
  BY <1>12, <1>15, <1>16 DEF SoleAt, t

\* A document is filed.
LEMMA FiledSole ==
    ASSUME ProfilesIInv, NEW h \in Requests, SoleAt(h), task[h].pc = "file",
           task[h].op \in OpsAt("file"),
           UNCHANGED <<objects, documents, jobseeker, employer, past>>,
           papers' = [papers EXCEPT ![task[h].doc] = [kind |-> task[h].kind, status |-> "PENDING"]],
           NEW pc \in {"reload", "next", "eligible"}, task'[h] = [task[h] EXCEPT !.pc = pc],
           \/ task[h].kind \in EmployerKinds
           \/ task[h].kind \in JobseekerKinds /\ FiledAs({task[h].kind}) = {},
           pc = "reload" => task[h].op = "uploadPaper"
    PROVE  SoleAt(h)'
<1> DEFINE t == task[h]
           u == task'[h]
<1>0. /\ t \in Task /\ SoleRequestOK(t) /\ Mirrors(t) /\ OwnedOnce
      /\ papers \in [Docs -> Paper] /\ documents \subseteq Docs
      /\ ~failed => FilesAt(t)
  BY DEF ProfilesIInv, ProfilesTypeOK, SoleAt, SoleRequestOK
<1>a. t' = u
  BY DEF t, u
<1>1. /\ u.op = t.op /\ u.pc = pc /\ u.doc = t.doc /\ u.js = t.js /\ u.kind = t.kind
      /\ u.em = t.em /\ u.outer = t.outer
  BY <1>0 DEF Task
<1>2. \A c \in Docs : papers'[c].kind = IF c = t.doc THEN t.kind ELSE papers[c].kind
  BY <1>0
<1>b. t.op \in {"uploadPaper", "uploadEmployerPaper", "uploadBatch"}
  BY Stages
<1>c. \/ t.kind \in EmployerKinds
      \/ t.kind \in JobseekerKinds /\ FiledAs({t.kind}) = {}
  OBVIOUS
<1>3. /\ t.pc = "file" /\ t.op \in {"uploadPaper", "uploadEmployerPaper", "uploadBatch"}
      /\ t.kind \in EmployerKinds \/ (t.kind \in JobseekerKinds /\ FiledAs({t.kind}) = {})
      /\ pc = "reload" => t.op = "uploadPaper"
  BY <1>b, <1>c
<1> HIDE DEF t, u
<1>4. Attaching(t) /\ ~Attaching(u)
  BY <1>1, <1>3 DEF Attaching
<1>5. t.doc \in documents \ References /\ t.doc \in Docs /\ papers[t.doc].kind = "none"
  BY <1>0, <1>4 DEF SoleRequestOK, References, Filed
<1>6. Mirrors(u)
  BY <1>0, <1>1, <1>3, <1>4 DEF Mirrors, EmployerOp
<1>7. Mirrors(t)' /\ ~Attaching(t)'
  BY <1>4, <1>6, SameProfiles DEF t, u
<1>8. References' = References \cup {t.doc}
  BY <1>2, <1>3, <1>5, Kinds DEF References, Filed
<1>9. \A c \in Docs : Filed(c)' <=> Filed(c) \/ c = t.doc
  BY <1>2, <1>3, <1>5, Kinds DEF Filed
<1>10. OwnedOnce'
  <2>1. /\ References' \subseteq documents'
        /\ (jobseeker.cv # "none" => jobseeker.cv \notin {jobseeker.picture, employer.logo})'
        /\ (jobseeker.picture # "none" => jobseeker.picture # employer.logo)'
    BY <1>0, <1>5, <1>8 DEF OwnedOnce
  <2>2. ASSUME NEW d \in Docs, Filed(d)'
        PROVE  (d \notin {jobseeker.cv, jobseeker.picture, employer.logo})'
    <3>1. t.doc \notin {jobseeker.cv, jobseeker.picture, employer.logo}
      BY <1>5, DocumentsAssumption DEF References
    <3> QED
      BY <1>0, <1>9, <2>2, <3>1 DEF OwnedOnce
  <2>3. ASSUME NEW c \in Docs, NEW d \in Docs, papers'[c].kind = papers'[d].kind,
               papers'[c].kind \in JobseekerKinds
        PROVE  c = d
    BY <1>0, <1>2, <1>3, <2>3, Kinds DEF OwnedOnce, FiledAs
  <2> QED
    BY <2>1, <2>2, <2>3 DEF OwnedOnce
<1>12. SoleRequestOK(t)'
  <2>1. u.op \notin {"uploadLogo", "deleteLogo"}
    BY <1>1, <1>3
  <2> QED
    BY <1>0, <1>1, <1>7, <1>a, <2>1 DEF SoleRequestOK
<1>13. (~failed => FilesAt(t))'
  <2>1. ~failed => documents = References \cup {t.doc} /\ objects = References \cup {t.doc}
    BY <1>0, <1>3, <1>4 DEF FilesAt
  <2> QED
    BY <1>0, <1>1, <1>7, <1>8, <1>a, <2>1 DEF FilesAt, past
<1> QED
  BY <1>10, <1>12, <1>13 DEF SoleAt, t

\* A status is given to verification rows, which keep their kinds.
LEMMA SavePapersSole ==
    ASSUME ProfilesIInv, NEW h \in Requests, SoleAt(h),
           SaveJobseekerPapers(h) \/ SaveEmployerPapers(h)
    PROVE  SoleAt(h)'
<1> DEFINE t == task[h]
           u == task'[h]
<1>0. /\ t \in Task /\ SoleRequestOK(t) /\ Mirrors(t) /\ OwnedOnce
      /\ papers \in [Docs -> Paper]
      /\ ~failed => FilesAt(t)
      /\ t.pc = "savePapers"
      /\ UNCHANGED <<objects, documents, jobseeker, employer, past>>
  BY SavePapersDoes DEF ProfilesIInv, ProfilesTypeOK, SoleAt, SoleRequestOK
<1>1. \/ t.op = "activate" /\ u = [t EXCEPT !.pc = "reload"]
      \/ t.op = "reviewEmployerPaper" /\ u = [t EXCEPT !.pc = "eligible"]
      \/ u = Rest
  BY SavePapersDoes
<1>2. \A c \in Docs : papers'[c].kind = papers[c].kind
  <2>1. ASSUME NEW c \in Docs, t.read[c] # NoPaper PROVE Restamped(h)[c].kind = papers[c].kind
    <3>1. t.read[c] \in Paper
      BY <1>0, Fields
    <3>2. Restamped(h)[c].kind = t.read[c].kind
      BY <2>1, <3>1 DEF Restamped, Paper
    <3> QED
      BY <1>0, <2>1, <3>2 DEF SoleRequestOK
  <2>2. ASSUME NEW c \in Docs, t.read[c] = NoPaper PROVE Restamped(h)[c].kind = papers[c].kind
    BY <2>2 DEF Restamped
  <2> QED
    BY <2>1, <2>2, SavePapersDoes
<1>a. t' = u
  BY DEF t, u
<1> HIDE DEF t, u
<1>3. References' = References /\ \A k : FiledAs(k)' = FiledAs(k)
  BY <1>0, <1>2 DEF References, Filed, FiledAs
<1>4. OwnedOnce'
  BY <1>0, <1>2, <1>3 DEF OwnedOnce, Filed, past
<1>5. ~Attaching(t) /\ ~Attaching(Rest) /\ Rest.op = "none" /\ Rest.pc = "idle"
  BY <1>0 DEF Attaching, Rest
<1>6. ~failed => documents = References /\ objects = References
  BY <1>0, <1>5, SettledFiles
<1>7. CASE u = Rest
  <2>1. Mirrors(Rest)
    BY RestSole DEF SoleRequestOK
  <2>2. Mirrors(t)' /\ ~Attaching(t)'
    BY <1>0, <1>5, <1>7, <2>1, SameProfiles DEF t, u
  <2>3. SoleRequestOK(t)'
    BY <1>5, <1>7, <1>a, <2>2 DEF SoleRequestOK, PaperOp
  <2>4. (~failed => FilesAt(t))'
    BY <1>0, <1>3, <1>5, <1>6, <1>7, <1>a, <2>2 DEF FilesAt, past
  <2> QED
    BY <1>4, <2>3, <2>4 DEF SoleAt, t
<1>8. CASE u # Rest
  <2>1. /\ u.op = t.op /\ u.js = t.js /\ u.em = t.em /\ u.outer = t.outer /\ u.kind = t.kind
        /\ u.pc \in {"reload", "eligible"} /\ u.op \in {"activate", "reviewEmployerPaper"}
    BY <1>0, <1>1, <1>8 DEF Task
  <2>2. ~Attaching(u)
    BY <2>1 DEF Attaching
  <2>3. Mirrors(u)
    BY <1>0, <1>5, <2>1, <2>2, MirrorsStay
  <2>4. Mirrors(t)' /\ ~Attaching(t)'
    BY <1>0, <2>2, <2>3, SameProfiles DEF t, u
  <2>5. SoleRequestOK(t)'
    BY <1>a, <2>1, <2>4 DEF SoleRequestOK, PaperOp
  <2>6. (~failed => FilesAt(t))'
    BY <1>0, <1>3, <1>6, <1>a, <2>1, <2>4 DEF FilesAt, past
  <2> QED
    BY <1>4, <2>5, <2>6 DEF SoleAt, t
<1> QED
  BY <1>7, <1>8

\* The job seeker's row is saved.
LEMMA WriteJobseekerSole ==
    ASSUME ProfilesIInv, NEW h \in Requests, SoleAt(h), WriteJobseeker(h)
    PROVE  SoleAt(h)'
<1> DEFINE t == task[h]
           u == task'[h]
<1>0. /\ t \in Task /\ SoleRequestOK(t) /\ Mirrors(t) /\ OwnedOnce
      /\ documents \subseteq Docs /\ jobseeker \in JobseekerProfile
      /\ ~failed => FilesAt(t)
      /\ t.pc = "write" /\ t.op \in JobseekerOp /\ t.op \in OpsAt("write")
      /\ UNCHANGED <<objects, documents, papers, employer, failed>>
  BY WriteJobseekerDoes DEF ProfilesIInv, ProfilesTypeOK, SoleAt, SoleRequestOK, files
<1>1. t.jsSnap = jobseeker /\ SavedJobseeker(t) = t.js
  BY <1>0, SavedJobseekerIs DEF SoleRequestOK
<1>2. t.op \notin {"deleteCv", "deletePicture", "deletePaper", "reviewJobseekerPaper"}
      /\ t.op \notin EmployerOp
  BY <1>0, Stages DEF JobseekerOp, EmployerOp
<1>3. /\ t.js.cv = IF t.op = "uploadCv" THEN t.doc ELSE jobseeker.cv
      /\ t.js.picture = IF t.op = "uploadPicture" THEN t.doc ELSE jobseeker.picture
      /\ t.op \in {"uploadCv", "uploadPicture"} => Attaching(t)
  BY <1>0, <1>2 DEF Mirrors, Attaching
<1>4. t.op \in {"uploadCv", "uploadPicture"} =>
        t.doc \in documents \ References /\ t.doc \in Docs /\ Uploads(t)
  BY <1>0, <1>3 DEF SoleRequestOK
<1>5. {t.js.cv, t.js.picture} \subseteq documents \cup {"none"}
  BY <1>0, <1>3, <1>4 DEF OwnedOnce, References
<1>6. /\ jobseeker' = t.js
      /\ reviewed' = IF t.op = "approveJobseeker" THEN t.js.text ELSE reviewed
      /\ IF t.op \in {"approveJobseeker", "unapproveJobseeker"}
         THEN u = [t EXCEPT !.pc = "list"] ELSE u = Rest
  BY <1>1, <1>5, WriteJobseekerDoes
<1>a. t' = u
  BY DEF t, u
<1>7. /\ u.op = "none" /\ u.pc = "idle"
      \/ /\ u.op = t.op /\ u.pc = "list" /\ u.js = t.js
         /\ t.op \in {"approveJobseeker", "unapproveJobseeker"}
  BY <1>0, <1>6 DEF Task, Rest
<1> HIDE DEF t, u
<1>8. \A d \in Docs : Filed(d)' = Filed(d)
  BY <1>0 DEF Filed
<1>9. References' = References \cup (IF t.op \in {"uploadCv", "uploadPicture"} THEN {t.doc} ELSE {})
  <2>1. CASE t.op = "uploadCv"
    <3>1. jobseeker.cv = "none" /\ jobseeker'.cv = t.doc /\ jobseeker'.picture = jobseeker.picture
          /\ t.doc # "none"
      BY <1>3, <1>4, <1>6, <2>1, DocumentsAssumption DEF Uploads
    <3> QED
      BY <1>0, <1>8, <2>1, <3>1 DEF References
  <2>2. CASE t.op = "uploadPicture"
    <3>1. jobseeker.picture = "none" /\ jobseeker'.picture = t.doc /\ jobseeker'.cv = jobseeker.cv
          /\ t.doc # "none"
      BY <1>3, <1>4, <1>6, <2>2, DocumentsAssumption DEF Uploads
    <3> QED
      BY <1>0, <1>8, <2>2, <3>1 DEF References
  <2>3. CASE t.op \notin {"uploadCv", "uploadPicture"}
    BY <1>0, <1>3, <1>6, <1>8, <2>3 DEF References
  <2> QED
    BY <2>1, <2>2, <2>3
<1>10. OwnedOnce'
  <2>1. (References \subseteq documents)'
    BY <1>0, <1>4, <1>9 DEF OwnedOnce
  <2>2. t.op \in {"uploadCv", "uploadPicture"} =>
          /\ t.doc # "none" /\ t.doc \notin {jobseeker.cv, jobseeker.picture, employer.logo}
          /\ ~Filed(t.doc)
    BY <1>4, DocumentsAssumption DEF References
  <2>3. /\ jobseeker'.cv # "none" => jobseeker'.cv \notin {jobseeker'.picture, employer'.logo}
        /\ jobseeker'.picture # "none" => jobseeker'.picture # employer'.logo
    BY <1>0, <1>3, <1>6, <2>2 DEF OwnedOnce
  <2>4. \A d \in Docs : Filed(d)' => d \notin {jobseeker'.cv, jobseeker'.picture, employer'.logo}
    BY <1>0, <1>3, <1>6, <1>8, <2>2 DEF OwnedOnce
  <2> QED
    BY <1>0, <2>1, <2>3, <2>4 DEF OwnedOnce
<1>12. Mirrors(t)' /\ ~Attaching(t)'
  <2>1. ~Attaching(t)'
    BY <1>7, <1>a DEF Attaching
  <2>2. CASE u.op = "none"
    BY <1>a, <2>1, <2>2 DEF Mirrors, JobseekerOp, EmployerOp, PaperOp
  <2>3. CASE u.op # "none"
    BY <1>6, <1>7, <1>a, <2>1, <2>3 DEF Mirrors, JobseekerOp, EmployerOp, PaperOp
  <2> QED
    BY <2>1, <2>2, <2>3
<1>13. SoleRequestOK(t)'
  BY <1>7, <1>12, <1>a DEF SoleRequestOK, PaperOp
<1>14. (~failed => FilesAt(t))'
  <2>1. Attaching(t) => t.op \in {"uploadCv", "uploadPicture"}
    BY <1>0, <1>2 DEF Attaching, EmployerOp
  <2>2. ~failed => documents = References' /\ objects = References'
    BY <1>0, <1>3, <1>9, <2>1 DEF FilesAt
  <2> QED
    BY <1>0, <1>7, <1>12, <1>a, <2>2 DEF FilesAt
<1> QED
  BY <1>10, <1>13, <1>14 DEF SoleAt, t

\* The employer's row is saved.
LEMMA WriteEmployerSole ==
    ASSUME ProfilesIInv, NEW h \in Requests, SoleAt(h), WriteEmployer(h)
    PROVE  SoleAt(h)'
<1> DEFINE t == task[h]
           u == task'[h]
           new == SavedEmployer(t)
<1>0. /\ t \in Task /\ SoleRequestOK(t) /\ Mirrors(t) /\ OwnedOnce
      /\ documents \subseteq Docs
      /\ ~failed => FilesAt(t)
      /\ t.pc = "write" /\ t.op \in EmployerOp /\ t.op \in OpsAt("write")
      /\ UNCHANGED <<objects, documents, papers, jobseeker, failed, reviewed>>
  BY WriteEmployerDoes, ZenonT(60)
     DEF ProfilesIInv, ProfilesTypeOK, SoleAt, SoleRequestOK, files, past
<1>1. new.logo = IF t.em.logo = "unset" THEN employer.logo ELSE t.em.logo
  BY <1>0, SavedEmployerIs DEF SoleRequestOK
<1>2. t.op \notin JobseekerOp \cup PaperOp
  BY <1>0 DEF JobseekerOp, EmployerOp, PaperOp
<1>4. \/ t.op = "uploadLogo" /\ Attaching(t) /\ new.logo = t.doc /\ t.em.logo # "unset"
      \/ ~Attaching(t) /\ new.logo = employer.logo
  <2>1. Attaching(t) <=> t.op = "uploadLogo" /\ t.em.logo # "unset"
    BY <1>0, <1>2 DEF Attaching, JobseekerOp
  <2>2. t.op \in {"uploadLogo", "deleteLogo"} => employer.logo = "none"
    BY <1>0 DEF SoleRequestOK
  <2>3. t.op # "deleteEmployerPaper"
    BY <1>0, Stages DEF JobseekerOp, EmployerOp
  <2>4. \/ t.em.logo = employer.logo
        \/ t.op \in {"uploadLogo", "deleteLogo"} /\ t.em.logo = "unset"
        \/ t.op = "uploadLogo" /\ Attaching(t)
    BY <1>0, <2>3 DEF Mirrors
  <2>5. t.op = "uploadLogo" /\ Attaching(t) => t.em.logo = t.doc
    BY <1>0 DEF Mirrors
  <2> QED
    BY <1>1, <2>1, <2>2, <2>4, <2>5
<1>5. Attaching(t) => t.doc \in documents \ References /\ t.doc \in Docs /\ employer.logo = "none"
                        /\ t.doc # "none"
  BY <1>0, <1>4, DocumentsAssumption DEF SoleRequestOK
<1>6. new.logo \in documents \cup {"none"}
  BY <1>0, <1>4, <1>5 DEF OwnedOnce, References
<1>7. /\ employer' = new
      /\ \/ /\ t.op = "uploadEmployerPaper" /\ u = [t EXCEPT !.pc = "upload"]
         \/ /\ t.op = "uploadBatch" /\ u = [t EXCEPT !.pc = "eligible"]
         \/ /\ t.op \in {"autoVerify", "approveEmployer"} /\ u = [t EXCEPT !.pc = "list"]
         \/ /\ t.op = "uploadLogo" /\ t.em.logo = "unset"
            /\ u = [t EXCEPT !.pc = "upload", !.em = t.outer]
         \/ u = Rest
  BY <1>6, WriteEmployerDoes, ZenonT(60)
<1>a. t' = u
  BY DEF t, u
<1>8. \/ u.op = "none" /\ u.pc = "idle"
      \/ /\ u.op = t.op /\ u.em = t.em /\ u.outer = t.outer /\ u.kind = t.kind
         /\ \/ t.op = "uploadEmployerPaper" /\ u.pc = "upload"
            \/ t.op = "uploadBatch" /\ u.pc = "eligible"
            \/ t.op \in {"autoVerify", "approveEmployer"} /\ u.pc = "list"
      \/ /\ u.op = "uploadLogo" /\ t.op = "uploadLogo" /\ u.pc = "upload"
         /\ u.em = t.outer /\ u.outer = t.outer /\ t.em.logo = "unset"
  <2>1. CASE u = Rest
    BY <2>1 DEF Rest
  <2>2. CASE u # Rest
    BY <1>0, <1>7, <2>2 DEF Task
  <2> QED
    BY <2>1, <2>2
<1> HIDE DEF t, u, new
<1>9. \A d \in Docs : Filed(d)' = Filed(d)
  BY <1>0 DEF Filed
<1>10. References' = References \cup (IF Attaching(t) THEN {t.doc} ELSE {})
  <2>1. CASE Attaching(t)
    BY <1>0, <1>4, <1>5, <1>7, <1>9, <2>1 DEF References
  <2>2. CASE ~Attaching(t)
    BY <1>0, <1>4, <1>7, <1>9, <2>2 DEF References
  <2> QED
    BY <2>1, <2>2
<1>11. OwnedOnce'
  <2>1. (References \subseteq documents)'
    BY <1>0, <1>5, <1>10 DEF OwnedOnce
  <2>2. Attaching(t) =>
          /\ t.doc \notin {jobseeker.cv, jobseeker.picture, employer.logo}
          /\ ~Filed(t.doc)
    BY <1>5 DEF References
  <2>3. /\ jobseeker'.cv # "none" => jobseeker'.cv \notin {jobseeker'.picture, employer'.logo}
        /\ jobseeker'.picture # "none" => jobseeker'.picture # employer'.logo
    BY <1>0, <1>4, <1>7, <2>2 DEF OwnedOnce
  <2>4. \A d \in Docs : Filed(d)' => d \notin {jobseeker'.cv, jobseeker'.picture, employer'.logo}
    BY <1>0, <1>4, <1>7, <1>9, <2>2 DEF OwnedOnce
  <2> QED
    BY <1>0, <2>1, <2>3, <2>4 DEF OwnedOnce
<1>13. ~Attaching(t)'
  BY <1>8, <1>a DEF Attaching
<1>14. Mirrors(t)'
  <2>1. CASE u.op = "none"
    BY <1>a, <2>1 DEF Mirrors, JobseekerOp, EmployerOp, PaperOp
  <2>2. CASE u.op = t.op /\ u.em = t.em /\ u.outer = t.outer /\ u.kind = t.kind
             /\ t.op \in {"uploadEmployerPaper", "uploadBatch", "autoVerify", "approveEmployer"}
    <3>1. t.em.logo = employer.logo
      BY <1>0, <2>2 DEF Mirrors
    <3>2. employer'.logo = employer.logo
      BY <1>4, <1>7, <2>2
    <3> QED
      BY <1>0, <1>2, <1>a, <2>2, <3>1, <3>2 DEF Mirrors
  <2>3. CASE u.op = "uploadLogo" /\ t.op = "uploadLogo" /\ u.em = t.outer
             /\ u.outer = t.outer /\ t.em.logo = "unset"
    <3>1. t.outer.logo = "none"
      BY <1>0, <2>3 DEF Mirrors
    <3>2. employer.logo = "none" /\ employer'.logo = "none"
      BY <1>0, <1>4, <1>7, <2>3 DEF SoleRequestOK
    <3> QED
      BY <1>2, <1>13, <1>a, <2>3, <3>1, <3>2 DEF Mirrors
  <2> QED
    BY <1>8, <2>1, <2>2, <2>3
<1>15. SoleRequestOK(t)'
  <2>1. u.pc = "upload" => Uploads(t)'
    <3>1. CASE t.op = "uploadLogo" /\ u.op = "uploadLogo" /\ u.pc = "upload"
      <4>1. employer'.logo = "none"
        BY <1>0, <1>4, <1>7, <1>8, <3>1 DEF SoleRequestOK
      <4> QED
        BY <1>a, <3>1, <4>1 DEF Uploads
    <3>2. CASE t.op = "uploadEmployerPaper" /\ u.op = t.op
      BY <1>a, <3>2 DEF Uploads
    <3> QED
      BY <1>8, <3>1, <3>2
  <2> QED
    BY <1>8, <1>13, <1>14, <1>a, <2>1 DEF SoleRequestOK
<1>16. (~failed => FilesAt(t))'
  <2>1. ~failed => documents = References' /\ objects = References'
    BY <1>0, <1>10 DEF FilesAt
  <2> QED
    BY <1>0, <1>8, <1>13, <1>a, <2>1 DEF FilesAt
<1> QED
  BY <1>11, <1>15, <1>16 DEF SoleAt, t

\* The documents row goes, with what refers to it.
LEMMA RemoveDocumentSole ==
    ASSUME ProfilesIInv, NEW h \in Requests, SoleAt(h), RemoveDocument(h)
    PROVE  SoleAt(h)'
<1> DEFINE t == task[h]
           u == task'[h]
           d == t.doc
<1>0. /\ t \in Task /\ SoleRequestOK(t) /\ Mirrors(t) /\ OwnedOnce
      /\ ~failed => FilesAt(t)
      /\ t.pc = "row" /\ t.op \in OpsAt("find") /\ UNCHANGED <<objects, past>>
      /\ d \in documents /\ d \in Docs /\ Deletes(t)
      /\ documents' = documents \ {d}
  BY RemoveDocumentDoes DEF ProfilesIInv, ProfilesTypeOK, SoleAt, SoleRequestOK
<1>1. /\ jobseeker'.status = jobseeker.status /\ jobseeker'.text = jobseeker.text
      /\ jobseeker'.cv = IF jobseeker.cv = d THEN "none" ELSE jobseeker.cv
      /\ jobseeker'.picture = IF jobseeker.picture = d THEN "none" ELSE jobseeker.picture
      /\ employer'.logo = IF employer.logo = d THEN "none" ELSE employer.logo
  BY RemoveDocumentDoes DEF SetNull
<1>2. \A c \in Docs : papers'[c].kind = IF c = d THEN "none" ELSE papers[c].kind
  BY RemoveDocumentDoes DEF NoPaper
<1>3. \/ /\ t.op \in {"uploadCv", "uploadPicture", "uploadPaper"} /\ u = [t EXCEPT !.pc = "upload"]
      \/ /\ t.op \in {"uploadLogo", "deleteLogo"} /\ u = [t EXCEPT !.pc = "reload"]
      \/ /\ t.op = "deleteEmployerPaper" /\ u = [t EXCEPT !.pc = "unlink"]
      \/ /\ t.op \in {"deleteCv", "deletePicture", "deletePaper"} /\ u = Rest
  BY <1>0, RemoveDocumentDoes, AfterDeleteGoes
<1>4. \/ t.op \in {"deleteCv", "deletePicture", "deletePaper"} /\ u.op = "none" /\ u.pc = "idle"
      \/ /\ u.op = t.op /\ u.doc = d /\ u.js = t.js /\ u.em = t.em /\ u.outer = t.outer
         /\ u.kind = t.kind
         /\ \/ t.op \in {"uploadCv", "uploadPicture", "uploadPaper"} /\ u.pc = "upload"
            \/ t.op \in {"uploadLogo", "deleteLogo"} /\ u.pc = "reload"
            \/ t.op = "deleteEmployerPaper" /\ u.pc = "unlink"
  <2>1. CASE u = Rest
    BY <1>3, <2>1 DEF Rest, Task
  <2>2. CASE u # Rest
    BY <1>0, <1>3, <2>2 DEF Task
  <2> QED
    BY <2>1, <2>2
<1>a. t' = u
  BY DEF t, u
<1>b. d # "none"
  BY <1>0, DocumentsAssumption
<1> HIDE DEF t, u, d
<1>5. \A c \in Docs : Filed(c)' <=> Filed(c) /\ c # d
  BY <1>2 DEF Filed
<1>6. References' = References \ {d}
  BY <1>0, <1>1, <1>5, <1>b DEF References
<1>7. OwnedOnce'
  <2>1. (References \subseteq documents)'
    BY <1>0, <1>6 DEF OwnedOnce
  <2>2. /\ jobseeker'.cv # "none" => jobseeker'.cv \notin {jobseeker'.picture, employer'.logo}
        /\ jobseeker'.picture # "none" => jobseeker'.picture # employer'.logo
    BY <1>0, <1>1 DEF OwnedOnce
  <2>3. ASSUME NEW c \in Docs, Filed(c)'
        PROVE  c \notin {jobseeker'.cv, jobseeker'.picture, employer'.logo}
    BY <1>0, <1>1, <1>5, <2>3, DocumentsAssumption DEF OwnedOnce
  <2>4. \A c, e \in Docs :
          papers'[c].kind = papers'[e].kind /\ papers'[c].kind \in JobseekerKinds => c = e
    BY <1>0, <1>2, Kinds DEF OwnedOnce
  <2> QED
    BY <2>1, <2>2, <2>3, <2>4 DEF OwnedOnce
\* The columns that this request has not come to delete stay.
<1>8. /\ t.op \notin {"uploadCv", "deleteCv"} => jobseeker'.cv = jobseeker.cv
      /\ t.op \in {"uploadCv", "deleteCv"} => jobseeker'.cv = "none"
      /\ t.op \notin {"uploadPicture", "deletePicture"} => jobseeker'.picture = jobseeker.picture
      /\ t.op \in {"uploadPicture", "deletePicture"} => jobseeker'.picture = "none"
      /\ t.op \notin {"uploadLogo", "deleteLogo"} => employer'.logo = employer.logo
      /\ t.op \in {"uploadLogo", "deleteLogo"} => employer'.logo = "none" /\ t.em.logo = "unset"
  <2>1. /\ t.op \in {"uploadCv", "deleteCv"} => d = jobseeker.cv
        /\ t.op \in {"uploadPicture", "deletePicture"} => d = jobseeker.picture
        /\ t.op \in {"uploadLogo", "deleteLogo"} => d = employer.logo /\ t.em.logo = "unset"
        /\ t.op \in PaperOp => d \notin {jobseeker.cv, jobseeker.picture, employer.logo}
        /\ t.op = "deleteEmployerPaper" => papers[d].kind \in EmployerKinds
    BY <1>0 DEF Deletes, d
  <2>2. t.op = "deleteEmployerPaper" => d \notin {jobseeker.cv, jobseeker.picture, employer.logo}
    BY <1>0, <2>1, Kinds DEF OwnedOnce, Filed
  <2>3. t.op \in {"uploadCv", "deleteCv", "uploadPicture", "deletePicture", "uploadLogo",
                  "deleteLogo", "deleteEmployerPaper"} \cup PaperOp
    BY <1>0, Stages DEF ColumnOp
  <2>4. /\ jobseeker.cv = d => jobseeker.picture # d /\ employer.logo # d
        /\ jobseeker.picture = d => employer.logo # d
    BY <1>0, <1>b DEF OwnedOnce
  <2> QED
    BY <1>1, <2>1, <2>2, <2>3, <2>4 DEF PaperOp
<1>10. ~Attaching(t)'
  BY <1>4, <1>8, <1>a DEF Attaching
<1>c. ~Attaching(t)
  BY <1>0 DEF Attaching
<1>11. Mirrors(t)'
  <2>1. CASE u.op = "none"
    BY <1>a, <2>1 DEF Mirrors, JobseekerOp, EmployerOp, PaperOp
  <2>2. CASE u.op = t.op /\ u.js = t.js /\ u.em = t.em /\ u.outer = t.outer /\ u.kind = t.kind
             /\ t.op \in JobseekerOp
    <3>1. t.op \notin EmployerOp \cup {"uploadLogo", "deleteLogo", "uploadEmployerPaper"}
      BY <2>2 DEF JobseekerOp, EmployerOp
    <3> QED
      BY <1>0, <1>1, <1>8, <1>10, <1>c, <1>a, <2>2, <3>1 DEF Mirrors
  <2>3. CASE u.op = t.op /\ u.em = t.em /\ u.outer = t.outer
             /\ t.op \in {"uploadLogo", "deleteLogo", "deleteEmployerPaper"}
    <3>1. t.op \notin JobseekerOp \cup PaperOp
      BY <2>3 DEF JobseekerOp, PaperOp
    <3> QED
      BY <1>0, <1>8, <1>10, <1>c, <1>a, <2>3, <3>1 DEF Mirrors
  <2> QED
    BY <1>4, <2>1, <2>2, <2>3 DEF JobseekerOp
<1>12. u.pc = "upload" => Uploads(t)'
  <2>1. t.op \in PaperOp => FiledAs({t.kind}) = {}
    BY <1>0 DEF Deletes
  <2>2. CASE u.op = "uploadPaper" /\ t.op = u.op /\ u.kind = t.kind
    <3>1. FiledAs({t.kind})' = {}
      <4>1. t.kind \in JobseekerKinds
        BY <1>0, <2>2 DEF Mirrors, PaperOp, JobseekerOp
      <4> QED
        BY <1>2, <1>a, <2>1, <2>2, <4>1, Kinds DEF FiledAs, PaperOp
    <3> QED
      BY <1>a, <2>2, <3>1 DEF Uploads
  <2>3. CASE u.op \in {"uploadCv", "uploadPicture"} /\ t.op = u.op
    BY <1>8, <1>a, <2>3 DEF Uploads
  <2> QED
    BY <1>4, <2>2, <2>3
<1>13. SoleRequestOK(t)'
  <2>1. u.pc = "unlink" => papers'[u.doc].kind = "none"
    BY <1>0, <1>2, <1>4
  <2> QED
    BY <1>4, <1>8, <1>10, <1>11, <1>12, <1>a, <2>1 DEF SoleRequestOK, Filed
<1>14. (~failed => FilesAt(t))'
  <2>1. ~failed => documents = References \cup {d} /\ objects = (References \cup {d}) \ {d}
    BY <1>0, <1>c DEF FilesAt, d
  <2>2. ~failed => documents' = References' /\ objects' = References'
    BY <1>0, <1>6, <2>1
  <2> QED
    BY <1>0, <1>4, <1>10, <1>a, <2>2 DEF FilesAt, past
<1> QED
  BY <1>7, <1>13, <1>14 DEF SoleAt, t

\* The object goes; a new one comes, and then its row.
LEMMA DeleteFileSole ==
    ASSUME ProfilesIInv, NEW h \in Requests, SoleAt(h), DeleteFile(h)
    PROVE  SoleAt(h)'
<1> DEFINE t == task[h]
           u == task'[h]
<1>0. /\ t \in Task /\ SoleRequestOK(t) /\ Mirrors(t) /\ OwnedOnce
      /\ ~failed => FilesAt(t)
      /\ t.pc = "object" /\ UNCHANGED <<documents, papers, jobseeker, employer, past>>
      /\ objects' = objects \ {t.doc}
  BY DEF DeleteFile, On, ProfilesIInv, ProfilesTypeOK, SoleAt, SoleRequestOK
<1>1. u = [t EXCEPT !.pc = "row"]
  BY OnAt, Stages, ProceedGoes DEF DeleteFile
<1>2. /\ u.op = t.op /\ u.pc = "row" /\ u.doc = t.doc /\ u.js = t.js /\ u.kind = t.kind
      /\ u.em = t.em /\ u.outer = t.outer
  BY <1>0, <1>1 DEF Task
<1>a. t' = u
  BY DEF t, u
<1> HIDE DEF t, u
<1>3. ~Attaching(t) /\ ~Attaching(u)
  BY <1>0, <1>2 DEF Attaching
<1>4. Mirrors(u)
  BY <1>0, <1>2, <1>3, MirrorsStay
<1>5. Mirrors(t)' /\ ~Attaching(t)'
  BY <1>0, <1>3, <1>4, SameProfiles DEF t, u
<1>6. References' = References /\ \A k : FiledAs(k)' = FiledAs(k)
  BY <1>0 DEF References, Filed, FiledAs
<1>7. OwnedOnce'
  BY <1>0, <1>6 DEF OwnedOnce, Filed, past
<1>8. Deletes(t)'
  <2>1. Deletes(t)
    BY <1>0 DEF SoleRequestOK
  <2> QED
    BY <1>0, <1>2, <1>6, <1>a, <2>1 DEF Deletes
<1>9. SoleRequestOK(t)'
  <2>1. t.doc \in documents
    BY <1>0 DEF SoleRequestOK
  <2> QED
    BY <1>0, <1>2, <1>5, <1>8, <1>a, <2>1 DEF SoleRequestOK
<1>10. (~failed => FilesAt(t))'
  <2>1. ~failed => documents = References \cup {t.doc} /\ objects = References \cup {t.doc}
    BY <1>0, <1>3 DEF FilesAt
  <2> QED
    BY <1>0, <1>2, <1>5, <1>6, <1>a, <2>1 DEF FilesAt, past
<1> QED
  BY <1>7, <1>9, <1>10 DEF SoleAt, t

LEMMA UploadFileSole ==
    ASSUME ProfilesIInv, NEW h \in Requests, SoleAt(h), NEW d \in Docs,
           UploadFile(h, d)
    PROVE  SoleAt(h)'
<1> DEFINE t == task[h]
           u == task'[h]
<1>0. /\ t \in Task /\ SoleRequestOK(t) /\ Mirrors(t) /\ OwnedOnce
      /\ ~failed => FilesAt(t)
      /\ t.pc = "upload" /\ UNCHANGED <<documents, papers, jobseeker, employer, past>>
      /\ objects' = objects \cup {d} /\ d \notin documents /\ t.op \in UploadOp
  BY UploadFileDoes, ZenonT(60) DEF ProfilesIInv, ProfilesTypeOK, SoleAt, SoleRequestOK
<1>1. u = [t EXCEPT !.pc = "insert", !.doc = d]
  BY UploadFileDoes, ZenonT(60)
<1>2. /\ u.op = t.op /\ u.pc = "insert" /\ u.doc = d /\ u.js = t.js /\ u.kind = t.kind
      /\ u.em = t.em /\ u.outer = t.outer
  BY <1>0, <1>1 DEF Task
<1>a. t' = u
  BY DEF t, u
<1> HIDE DEF t, u
<1>3. ~Attaching(t) /\ ~Attaching(u)
  BY <1>0, <1>2 DEF Attaching
<1>4. Mirrors(u)
  BY <1>0, <1>2, <1>3, MirrorsStay
<1>5. Mirrors(t)' /\ ~Attaching(t)'
  BY <1>0, <1>3, <1>4, SameProfiles DEF t, u
<1>6. References' = References /\ \A k : FiledAs(k)' = FiledAs(k)
  BY <1>0 DEF References, Filed, FiledAs
<1>7. OwnedOnce'
  BY <1>0, <1>6 DEF OwnedOnce, Filed, past
<1>8. Uploads(t)'
  <2>1. Uploads(t)
    BY <1>0 DEF SoleRequestOK
  <2> QED
    BY <1>0, <1>2, <1>6, <1>a, <2>1 DEF Uploads
<1>9. SoleRequestOK(t)'
  BY <1>0, <1>2, <1>5, <1>8, <1>a DEF SoleRequestOK
<1>10. (~failed => FilesAt(t))'
  <2>1. ~failed => documents = References /\ objects = References
    BY <1>0, <1>3 DEF FilesAt
  <2> QED
    BY <1>0, <1>2, <1>5, <1>6, <1>a, <2>1 DEF FilesAt, past
<1> QED
  BY <1>7, <1>9, <1>10 DEF SoleAt, t

\* The request after a change of its step and of one of its copies.
LEMMA InsertShape ==
    ASSUME NEW t \in Task, NEW pc, NEW x
    PROVE  /\ [t EXCEPT !.pc = pc].pc = pc /\ [t EXCEPT !.pc = pc].op = t.op
           /\ [t EXCEPT !.pc = pc].doc = t.doc /\ [t EXCEPT !.pc = pc].outer = t.outer
           /\ [t EXCEPT !.pc = pc].kind = t.kind /\ [t EXCEPT !.pc = pc].js = t.js
           /\ [t EXCEPT !.pc = pc].em = t.em
           /\ LET u == [t EXCEPT !.pc = pc, !.js = x]
              IN /\ u.pc = pc /\ u.op = t.op /\ u.doc = t.doc /\ u.outer = t.outer
                 /\ u.kind = t.kind /\ u.js = x /\ u.em = t.em
           /\ LET u == [t EXCEPT !.pc = pc, !.em = x]
              IN /\ u.pc = pc /\ u.op = t.op /\ u.doc = t.doc /\ u.outer = t.outer
                 /\ u.kind = t.kind /\ u.js = t.js /\ u.em = x
BY DEF Task

LEMMA InsertDocumentSole ==
    ASSUME ProfilesIInv, NEW h \in Requests, SoleAt(h), InsertDocument(h)
    PROVE  SoleAt(h)'
<1> DEFINE t == task[h]
           u == task'[h]
           d == t.doc
<1>0. /\ t \in Task /\ SoleRequestOK(t) /\ Mirrors(t) /\ OwnedOnce
      /\ ~failed => FilesAt(t)
      /\ t.pc = "insert" /\ UNCHANGED <<objects, papers, jobseeker, employer, past>>
      /\ documents' = documents \cup {d} /\ d \in Docs /\ d \notin documents
      /\ Uploads(t)
  BY InsertDocumentDoes, ZenonT(60) DEF ProfilesIInv, ProfilesTypeOK, SoleAt, SoleRequestOK
<1>1. /\ u.op = t.op /\ u.doc = d /\ u.outer = t.outer /\ u.kind = t.kind
      /\ \/ /\ t.op = "uploadCv" /\ u.pc = "reload" /\ u.em = t.em
            /\ u.js = [t.js EXCEPT !.cv = d]
         \/ /\ t.op = "uploadPicture" /\ u.pc = "reload" /\ u.em = t.em
            /\ u.js = [t.js EXCEPT !.picture = d]
         \/ /\ t.op = "uploadLogo" /\ u.pc = "reload" /\ u.js = t.js
            /\ u.em = [t.em EXCEPT !.logo = d]
         \/ /\ t.op \in {"uploadPaper", "uploadEmployerPaper", "uploadBatch"}
            /\ u.pc = "file" /\ u.js = t.js /\ u.em = t.em
  <2>1. CASE t.op = "uploadCv" /\ u = [t EXCEPT !.pc = "reload", !.js = [t.js EXCEPT !.cv = d]]
    BY <1>0, <2>1, InsertShape
  <2>2. CASE /\ t.op = "uploadPicture"
             /\ u = [t EXCEPT !.pc = "reload", !.js = [t.js EXCEPT !.picture = d]]
    BY <1>0, <2>2, InsertShape
  <2>3. CASE t.op = "uploadLogo" /\ u = [t EXCEPT !.pc = "reload", !.em = [t.em EXCEPT !.logo = d]]
    BY <1>0, <2>3, InsertShape
  <2>4. CASE t.op \in OpsAt("file") /\ u = [t EXCEPT !.pc = "file"]
    BY <1>0, <2>4, InsertShape, Stages
  <2> QED
    BY <2>1, <2>2, <2>3, <2>4, InsertDocumentDoes, ZenonT(60)
<1>2. t.js \in JobseekerProfile /\ t.em \in EmployerProfile
  BY <1>0, Fields
<1>a. t' = u
  BY DEF t, u
<1>b. d \notin {"none", "unset"}
  BY <1>0, DocumentsAssumption
<1> HIDE DEF t, u, d
<1>3. /\ u.op = t.op /\ u.doc = d /\ u.outer = t.outer /\ u.kind = t.kind
      /\ u.js.status = t.js.status /\ u.js.text = t.js.text
      /\ u.js.cv = IF t.op = "uploadCv" THEN d ELSE t.js.cv
      /\ u.js.picture = IF t.op = "uploadPicture" THEN d ELSE t.js.picture
      /\ u.em.logo = IF t.op = "uploadLogo" THEN d ELSE t.em.logo
      /\ \/ t.op \in {"uploadCv", "uploadPicture", "uploadLogo"} /\ u.pc = "reload"
         \/ t.op \in {"uploadPaper", "uploadEmployerPaper", "uploadBatch"} /\ u.pc = "file"
  <2>1. CASE t.op = "uploadCv"
    BY <1>1, <1>2, <2>1 DEF JobseekerProfile
  <2>2. CASE t.op = "uploadPicture"
    BY <1>1, <1>2, <2>2 DEF JobseekerProfile
  <2>3. CASE t.op = "uploadLogo"
    BY <1>1, <1>2, <2>3 DEF EmployerProfile
  <2>4. CASE t.op \notin {"uploadCv", "uploadPicture", "uploadLogo"}
    BY <1>1, <2>4
  <2> QED
    BY <2>1, <2>2, <2>3, <2>4
<1>4. ~Attaching(t) /\ Attaching(u)
  BY <1>0, <1>3, <1>b DEF Attaching
<1>5. Mirrors(u)
  BY <1>0, <1>3, <1>4, <1>b DEF Mirrors, JobseekerOp, EmployerOp, PaperOp
<1>6. Mirrors(t)' /\ Attaching(t)'
  BY <1>0, <1>4, <1>5, SameProfiles DEF t, u
<1>7. References' = References /\ \A k : FiledAs(k)' = FiledAs(k)
  BY <1>0 DEF References, Filed, FiledAs
<1>8. OwnedOnce'
  BY <1>0, <1>7 DEF OwnedOnce, Filed, past
<1>9. Uploads(t)'
  BY <1>0, <1>3, <1>7, <1>a DEF Uploads
<1>10. SoleRequestOK(t)'
  <2>1. u.doc \in documents' \ References'
    BY <1>0, <1>3, <1>7 DEF OwnedOnce
  <2>2. u.op \in {"uploadLogo", "deleteLogo"} => employer'.logo = "none"
    BY <1>0, <1>3 DEF Uploads
  <2> QED
    BY <1>0, <1>3, <1>6, <1>9, <1>a, <2>1, <2>2 DEF SoleRequestOK
<1>11. (~failed => FilesAt(t))'
  <2>1. ~failed => documents = References /\ objects = References \cup {d}
    BY <1>0, <1>4 DEF FilesAt, d
  <2> QED
    BY <1>0, <1>3, <1>6, <1>7, <1>a, <2>1 DEF FilesAt, past
<1> QED
  BY <1>8, <1>10, <1>11 DEF SoleAt, t

LEMMA StepsSole ==
    ASSUME ProfilesIInv, NEW h \in Requests, SoleAt(h), ProfilesStep(h)
    PROVE  SoleAt(h)'
<1> DEFINE t == task[h]
<1>0. /\ t \in Task /\ SoleRequestOK(t) /\ t.op \in OpsAt(t.pc) /\ task \in [Requests -> Task]
      /\ papers \in [Docs -> Paper] /\ References \subseteq documents
  BY DEF ProfilesIInv, ProfilesTypeOK, OnCourse, SoleAt, SoleRequestOK, OwnedOnce
<1>1. CASE Reads(h)
  BY <1>1, ReadsSole
<1>2. CASE RemoveExisting(h)
  BY <1>2, RemoveExistingSole
<1>3. CASE InsertJobseekerPaper(h)
  <2>1. t.pc = "file" /\ t.op = "uploadPaper" /\ t.op \in OpsAt("file")
    BY <1>3, Stages DEF InsertJobseekerPaper, On
  <2>2. FiledAs({t.kind}) = {} /\ t.kind \in JobseekerKinds
    BY <1>0, <2>1 DEF SoleRequestOK, Attaching, Uploads, Mirrors, PaperOp, JobseekerOp
  <2>3. /\ papers' = [papers EXCEPT ![t.doc] = [kind |-> t.kind, status |-> "PENDING"]]
        /\ Proceed(h, "reload") /\ UNCHANGED <<objects, documents, jobseeker, employer, past>>
    BY <1>3, <2>2 DEF InsertJobseekerPaper
  <2>4. task'[h] = [t EXCEPT !.pc = "reload"]
    BY <1>0, <2>3 DEF Proceed
  <2> QED
    BY <2>1, <2>2, <2>3, <2>4, FiledSole
<1>4. CASE InsertEmployerPaper(h)
  <2>1. t.pc = "file" /\ t.op \in {"uploadEmployerPaper", "uploadBatch"} /\ t.op \in OpsAt("file")
    BY <1>4, Stages DEF InsertEmployerPaper, On
  <2>2. t.kind \in EmployerKinds
    BY <1>0, <2>1 DEF SoleRequestOK, Attaching, Uploads, Mirrors
  <2>3. /\ papers' = [papers EXCEPT ![t.doc] = [kind |-> t.kind, status |-> "PENDING"]]
        /\ UNCHANGED <<objects, documents, jobseeker, employer, past>>
    BY <1>4 DEF InsertEmployerPaper
  <2>4. \E pc \in {"next", "eligible"} : task'[h] = [t EXCEPT !.pc = pc]
    BY <1>0, <1>4 DEF InsertEmployerPaper, Proceed
  <2> QED
    BY <2>1, <2>2, <2>3, <2>4, FiledSole
<1>5. CASE DeleteSkillLinks(h) \/ InsertActiveSkill(h) \/ AttachSkills(h)
  <2>1. /\ UNCHANGED <<files, jobseeker, employer, past>>
        /\ t.pc \in {"unskill", "skill", "link"} /\ t.op = "updateProfile"
        /\ \/ task'[h] = Rest
           \/ \E pc \in {"skill", "link", "reload"} : task'[h] = [t EXCEPT !.pc = pc]
    BY <1>5, SkillStepsGo
  <2>2. UNCHANGED <<files, jobseeker, employer, failed, reviewed>>
    BY <2>1 DEF past
  <2>3. ~Attaching(t)
    BY <2>1 DEF Attaching
  <2>4. CASE task'[h] = Rest
    BY <2>1, <2>2, <2>3, <2>4, EndsSole
  <2>5. ASSUME NEW pc \in {"skill", "link", "reload"}, task'[h] = [t EXCEPT !.pc = pc]
        PROVE  SoleAt(h)'
    BY <2>1, <2>2, <2>5, OnwardsSole
  <2> QED
    BY <2>1, <2>4, <2>5
<1>6. CASE SaveJobseekerPapers(h) \/ SaveEmployerPapers(h)
  BY <1>6, SavePapersSole
<1>7. CASE WriteJobseeker(h)
  BY <1>7, WriteJobseekerSole
<1>8. CASE WriteEmployer(h)
  BY <1>8, WriteEmployerSole
\* The row is gone by then: nothing happens.
<1>9. CASE RemoveEmployerPaper(h)
  <2>1. t.pc = "unlink" /\ Finish(h) /\ papers[t.doc].kind = "none"
    BY <1>0, <1>9 DEF RemoveEmployerPaper, On, SoleRequestOK, Filed
  <2>2. ~Attaching(t)
    BY <2>1 DEF Attaching
  <2>3. /\ UNCHANGED <<objects, documents, jobseeker, employer, past>> /\ task'[h] = Rest
        /\ \A d \in Docs : papers'[d].kind = papers[d].kind
    BY <1>0, <1>9, <2>1, FinishGoes DEF RemoveEmployerPaper, NoPaper
  <2>4. References' = References /\ \A k : FiledAs(k)' = FiledAs(k)
    BY <2>3 DEF References, Filed, FiledAs
  <2>5. OwnedOnce'
    BY <2>3, <2>4 DEF SoleAt, OwnedOnce, Filed, past
  <2>6. ~failed => documents = References /\ objects = References
    BY <2>1, <2>2, SettledFiles DEF SoleAt
  <2>7. task'[h].op = "none" /\ task'[h].pc = "idle"
    BY <2>3 DEF Rest
  <2>8. ~Attaching(task[h])' /\ Mirrors(task[h])'
    BY <2>7 DEF Attaching, Mirrors, JobseekerOp, EmployerOp, PaperOp
  <2>9. SoleRequestOK(task[h])'
    BY <2>7, <2>8 DEF SoleRequestOK, PaperOp
  <2>10. (~failed => FilesAt(task[h]))'
    BY <2>3, <2>4, <2>6, <2>7, <2>8 DEF FilesAt, past
  <2> QED
    BY <2>5, <2>9, <2>10 DEF SoleAt
<1>10. CASE DeleteFile(h)
  BY <1>10, DeleteFileSole
<1>11. CASE RemoveDocument(h)
  BY <1>11, RemoveDocumentSole
<1>12. CASE InsertDocument(h)
  BY <1>12, InsertDocumentSole
<1> QED
  BY <1>1, <1>2, <1>3, <1>4, <1>5, <1>6, <1>7, <1>8, <1>9, <1>10, <1>11, <1>12,
     UploadFileSole
     DEF ProfilesStep, JobseekerProfileStep, EmployerProfileStep, StorageStep, Reads

LEMMA SoleInitially == ProfilesInit => SoleIInv
<1> SUFFICES ASSUME ProfilesInit PROVE SoleIInv
  OBVIOUS
<1>1. \A d \in Docs : papers[d].kind = "none"
  BY DEF ProfilesInit, NoPaper
<1>2. jobseeker.cv = "none" /\ jobseeker.picture = "none" /\ employer.logo = "none"
  BY DEF ProfilesInit, NewJobseeker, NewEmployer
<1>3. References = {}
  BY <1>1, <1>2 DEF References, Filed
<1>4. OwnedOnce
  BY <1>1, <1>2, <1>3, Kinds DEF OwnedOnce, Filed
<1>6. documents = References /\ objects = References
  BY <1>3 DEF ProfilesInit
<1>7. \A h \in Requests : On(h, "idle")
  BY DEF ProfilesInit, Rest, On
<1> QED
  BY <1>4, <1>6, <1>7 DEF SoleIInv, FilesAreReferenced

\* What a request that is idle, or the only one that is not, finds.
LEMMA SoleFinds ==
    ASSUME ProfilesIInv, SoleIInv, NEW h \in Requests,
           \A g \in Requests \ {h} : On(g, "idle")
    PROVE  SoleAt(h)
<1>1. CASE ~On(h, "idle")
  BY <1>1 DEF SoleIInv, SoleAt
<1>2. CASE On(h, "idle")
  <2>1. task[h].pc = "idle" /\ task[h].op = "none"
    BY <1>2, Stages DEF On, ProfilesIInv, OnCourse
  <2>2. ~Attaching(task[h]) /\ Mirrors(task[h])
    BY <2>1 DEF Attaching, Mirrors, JobseekerOp, EmployerOp, PaperOp
  <2>3. SoleRequestOK(task[h])
    BY <2>1, <2>2 DEF SoleRequestOK, PaperOp
  <2>4. ~failed => documents = References /\ objects = References
    BY <1>2 DEF SoleIInv, FilesAreReferenced
  <2> QED
    BY <2>1, <2>2, <2>3, <2>4, SettledFiles DEF SoleIInv, SoleAt
<1> QED
  BY <1>1, <1>2

\* ... and what it leaves is the invariant, when the others are idle afterwards.
LEMMA SoleLeaves ==
    ASSUME NEW h \in Requests, SoleAt(h)', \A g \in Requests \ {h} : On(g, "idle")'
    PROVE  SoleIInv'
<1>1. OwnedOnce'
  BY DEF SoleAt
<1>2. (\A g \in Requests :
         ~On(g, "idle") => SoleRequestOK(task[g]) /\ (~failed => FilesAt(task[g])))'
  BY DEF SoleAt
<1>3. FilesAreReferenced'
  <2> SUFFICES ASSUME ~failed', On(h, "idle")'
               PROVE  (objects = documents /\ documents = References)'
    BY DEF FilesAreReferenced
  <2>1. FilesAt(task[h])' /\ task'[h].pc = "idle"
    BY DEF SoleAt, On
  <2>2. ~Attaching(task[h])'
    BY <2>1 DEF Attaching
  <2> QED
    BY <2>1, <2>2 DEF FilesAt
<1> QED
  BY <1>1, <1>2, <1>3 DEF SoleIInv

\* A step of a request is one of a request under way, and of no other.
LEMMA StepsAreOwn ==
    ASSUME ProfilesIInv, NEW h \in Requests, ProfilesStep(h) \/ CallFails(h)
    PROVE  ~On(h, "idle") /\ \A g \in Requests \ {h} : task'[g] = task[g]
<1>1. task \in [Requests -> Task]
  BY DEF ProfilesIInv, ProfilesTypeOK
<1>2. ASSUME NEW pc, Proceed(h, pc) PROVE \A g \in Requests \ {h} : task'[g] = task[g]
  BY <1>1, <1>2 DEF Proceed
<1>3. ASSUME Finish(h) PROVE \A g \in Requests \ {h} : task'[g] = task[g]
  BY <1>1, <1>3 DEF Finish
<1>4. ASSUME AfterDelete(h) PROVE \A g \in Requests \ {h} : task'[g] = task[g]
  BY <1>2, <1>3, <1>4 DEF AfterDelete
<1>5. CASE CallFails(h)
  BY <1>3, <1>5 DEF CallFails
<1>6. CASE StorageStep(h)
  BY <1>1, <1>2, <1>4, <1>6
     DEF StorageStep, FindDocument, DeleteFile, RemoveDocument, UploadFile, InsertDocument, On
<1>7. CASE JobseekerProfileStep(h)
  <2>1. CASE DeleteCvColumn(h) \/ DeletePictureColumn(h) \/ FindExisting(h)
              \/ RemoveExisting(h) \/ InsertJobseekerPaper(h)
    BY <1>1, <1>2, <1>3, <1>4, <2>1
       DEF DeleteCvColumn, DeletePictureColumn, DeleteColumn, FindExisting, RemoveExisting,
           InsertJobseekerPaper, On
  <2>2. CASE DeleteSkillLinks(h) \/ InsertActiveSkill(h) \/ AttachSkills(h) \/ FindIdRow(h)
              \/ FindProofRow(h)
    BY <1>1, <1>2, <1>3, <2>2
       DEF DeleteSkillLinks, InsertActiveSkill, AttachSkills, FindIdRow, FindProofRow, On
  <2>3. CASE ListJobseekerPapers(h) \/ SaveJobseekerPapers(h)
    BY <1>1, <1>3, <2>3 DEF ListJobseekerPapers, ListPapers, SaveJobseekerPapers, SavePapers, On
  <2>4. CASE ReloadJobseeker(h) \/ WriteJobseeker(h)
    BY <1>1, <1>2, <1>3, <2>4 DEF ReloadJobseeker, WriteJobseeker, On
  <2> QED
    BY <1>7, <2>1, <2>2, <2>3, <2>4 DEF JobseekerProfileStep
<1>8. CASE EmployerProfileStep(h)
  <2>1. CASE NextOfBatch(h) \/ InsertEmployerPaper(h) \/ RemoveEmployerPaper(h)
    BY <1>1, <1>2, <1>3, <2>1 DEF NextOfBatch, InsertEmployerPaper, RemoveEmployerPaper, On
  <2>2. CASE DeleteLogoColumn(h) \/ CheckEligible(h) \/ LoadForAutoVerification(h)
    BY <1>1, <1>2, <1>3, <2>2 DEF DeleteLogoColumn, CheckEligible, LoadForAutoVerification, On
  <2>3. CASE ListEmployerPapers(h) \/ SaveEmployerPapers(h)
    BY <1>1, <1>2, <1>3, <2>3
       DEF ListEmployerPapers, ListPapers, SaveEmployerPapers, SavePapers, On
  <2>4. CASE ReloadEmployer(h)
    BY <1>1, <1>3, <2>4 DEF ReloadEmployer, On
  <2>5. CASE WriteEmployer(h)
    BY <1>1, <1>2, <1>3, <2>5 DEF WriteEmployer, AfterWrite, On
  <2> QED
    BY <1>8, <2>1, <2>2, <2>3, <2>4, <2>5 DEF EmployerProfileStep
<1> QED
  BY <1>5, <1>6, <1>7, <1>8 DEF ProfilesStep

LEMMA FailSole ==
    ASSUME ProfilesIInv, NEW h \in Requests, SoleAt(h), CallFails(h)
    PROVE  SoleAt(h)'
<1>1. /\ UNCHANGED <<files, jobseeker, employer, reviewed>> /\ task'[h] = Rest /\ failed'
  BY FinishGoes DEF CallFails
<1>2. UNCHANGED <<objects, documents, papers, jobseeker, employer, reviewed>>
  BY <1>1 DEF files
<1>3. References' = References /\ \A k : FiledAs(k)' = FiledAs(k)
  BY <1>2 DEF References, Filed, FiledAs
<1>4. OwnedOnce'
  BY <1>2, <1>3 DEF SoleAt, OwnedOnce, Filed
<1>5. task'[h].op = "none" /\ task'[h].pc = "idle"
  BY <1>1 DEF Rest
<1>6. ~Attaching(task[h])' /\ Mirrors(task[h])'
  BY <1>5 DEF Attaching, Mirrors, JobseekerOp, EmployerOp, PaperOp
<1>7. SoleRequestOK(task[h])'
  BY <1>5, <1>6 DEF SoleRequestOK, PaperOp
<1> QED
  BY <1>1, <1>4, <1>7 DEF SoleAt

LEMMA SoleKept ==
    /\ ProfilesIInv /\ SoleIInv /\ RequestsApart /\ RequestsApart'
    /\ [ProfilesNext]_profileVars
    => SoleIInv'
<1> SUFFICES ASSUME ProfilesIInv, SoleIInv, RequestsApart, RequestsApart',
                    [ProfilesNext]_profileVars
             PROVE  SoleIInv'
  OBVIOUS
<1>1. CASE UNCHANGED profileVars \/ CreateSkill \/ DeleteSkill
  <2>1. /\ UNCHANGED <<objects, documents, papers, jobseeker, employer, failed, reviewed>>
        /\ UNCHANGED task
    BY <1>1 DEF profileVars, CreateSkill, DeleteSkill, files, past
  <2>2. CASE Requests = {}
    BY <2>1, <2>2 DEF SoleIInv, OwnedOnce, FilesAreReferenced, References,
                      Filed, FiledAs
  <2>3. CASE Requests # {}
    <3>1. PICK h \in Requests : \A g \in Requests \ {h} : On(g, "idle")
      BY <2>3 DEF RequestsApart
    <3>2. SoleAt(h)
      BY <3>1, SoleFinds
    <3>3. SoleAt(h)'
      BY <2>1, <3>2, SoleAlone DEF SoleAt, files
    <3>4. \A g \in Requests \ {h} : On(g, "idle")'
      BY <2>1, <3>1 DEF On
    <3> QED
      BY <3>3, <3>4, SoleLeaves
  <2> QED
    BY <2>2, <2>3
<1>2. ASSUME NEW h \in Requests, JobseekerController(h) \/ JobseekerDecisions(h)
                                 \/ EmployerController(h) \/ EmployerDecisions(h)
      PROVE  SoleIInv'
  <2>1. /\ UNCHANGED <<files, jobseeker, employer, failed, reviewed>>
        /\ \A g \in Requests \ {h} : task'[g] = task[g]
    BY <1>2, JobseekerControllerGoes, JobseekerDecisionsGo, EmployerControllerGoes,
       EmployerDecisionsGo DEF past, Goes, ProfilesIInv, ProfilesTypeOK
  <2>2. PICK t : Receive(h, t) /\ Arriving(t)
    BY <1>2, JobseekerArrivesSole, DecisionArrivesSole, EmployerArrivesSole DEF Arrives
  <2>3. ~On(h, "idle")'
    BY <2>2 DEF Arriving, Receive, On, ProfilesIInv, ProfilesTypeOK
  <2>4. /\ \A g \in Requests \ {h} : On(g, "idle")
        /\ \A g \in Requests \ {h} : On(g, "idle")'
    BY <2>1, <2>3 DEF RequestsApart, On
  <2>5. SoleAt(h)'
    BY <2>1, <2>2, <2>4, SoleFinds, ArrivingSole
  <2> QED
    BY <2>4, <2>5, SoleLeaves
<1>3. ASSUME NEW h \in Requests, ProfilesStep(h) \/ CallFails(h) PROVE SoleIInv'
  <2>1. ~On(h, "idle") /\ \A g \in Requests \ {h} : task'[g] = task[g]
    BY <1>3, StepsAreOwn
  <2>2. /\ \A g \in Requests \ {h} : On(g, "idle")
        /\ \A g \in Requests \ {h} : On(g, "idle")'
    BY <2>1 DEF RequestsApart, On
  <2>3. SoleAt(h)'
    BY <1>3, <2>2, SoleFinds, StepsSole, FailSole
  <2> QED
    BY <2>2, <2>3, SoleLeaves
<1> QED
  BY <1>1, <1>2, <1>3 DEF ProfilesNext

\* While there is one request at a time, the bucket, the documents table and what refers
\* to it agree between requests, until a call fails half-way (StorageService and its
\* callers).
THEOREM FilesAreReferencedHolds == ProfilesSpec /\ []RequestsApart => []FilesAreReferenced
<1>1. SoleIInv => FilesAreReferenced
  BY DEF SoleIInv
<1> QED
  BY <1>1, SoleInitially, SoleKept, TypesInitially, TypesKept, PTL DEF ProfilesSpec

-----------------------------------------------------------------------------
\* Whose a document is, however requests overlap (FilingIInv).

LEMMA Sides ==
    /\ JobseekerOp \cap EmployerOp = {} /\ "none" \notin JobseekerOp \cup EmployerOp
    /\ PaperOp \subseteq JobseekerOp
    /\ OperationsOn("columns") = {"uploadCv", "deleteCv", "uploadPicture", "deletePicture"}
    /\ OperationsOn("papers") = PaperOp
    /\ OperationsOn("employer") = EmployerOp
    /\ OperationsOn("columns") \cap PaperOp = {}
    /\ "columns" \in Owners /\ "papers" \in Owners /\ "employer" \in Owners
    /\ \A owner \in Owners : owner \in {"columns", "papers", "employer"}
BY DEF JobseekerOp, EmployerOp, PaperOp, ColumnOp, OperationsOn, Owners

LEMMA HasIs ==
    /\ Has("columns") = {jobseeker.cv, jobseeker.picture} \cap Docs
    /\ Has("papers") = FiledAs(JobseekerKinds)
    /\ Has("employer") = ({employer.logo} \cap Docs) \cup FiledAs(EmployerKinds)
BY DEF Has

\* Requests that hold the same documents.
Alike(u, t) ==
    /\ u.op = t.op /\ u.doc = t.doc /\ u.kind = t.kind /\ u.read = t.read
    /\ u.js.cv = t.js.cv /\ u.js.picture = t.js.picture
    /\ u.em.logo = t.em.logo /\ u.outer.logo = t.outer.logo

\* ... as a step leaves them that changes none.
GoesOn(u, t) ==
    \/ u = Rest
    \/ Alike(u, t) /\ ~(u.op = "uploadBatch" /\ u.pc \in {"upload", "insert", "file"})

LEMMA RestHolds ==
    KindsKept(Rest) /\ \A owner \in Owners : Holds(owner, Rest) = {}
<1>0. Rest.op = "none" /\ Rest.read = [d \in Docs |-> NoPaper]
  BY DEF Rest
<1>1. Rest.op = "none" /\ \A d \in Docs : Rest.read[d] = NoPaper
  BY <1>0
<1>2. \A owner \in Owners : "none" \notin OperationsOn(owner)
  BY Sides
<1>3. \A owner \in Owners : Holds(owner, Rest) = {}
  BY <1>1, <1>2, Sides DEF Holds
<1>4. KindsKept(Rest)
  BY <1>1 DEF KindsKept, PaperOp
<1> QED
  BY <1>3, <1>4

LEMMA AlikeHolds ==
    ASSUME NEW u, NEW t, GoesOn(u, t), KindsKept(t)
    PROVE  KindsKept(u) /\ \A owner \in Owners : Holds(owner, u) \subseteq Holds(owner, t)
<1>1. CASE u = Rest
  BY <1>1, RestHolds
<1>2. CASE Alike(u, t) /\ ~(u.op = "uploadBatch" /\ u.pc \in {"upload", "insert", "file"})
  BY <1>2 DEF Alike, KindsKept, Holds
<1> QED
  BY <1>1, <1>2 DEF GoesOn

LEMMA PcAlike ==
    ASSUME NEW t \in Task, NEW pc
    PROVE  /\ Alike([t EXCEPT !.pc = pc], t) /\ [t EXCEPT !.pc = pc].pc = pc
           /\ \A js : Alike([t EXCEPT !.pc = pc, !.jsSnap = js], t)
           /\ \A em : Alike([t EXCEPT !.pc = pc, !.emSnap = em], t)
           /\ \A st : Alike([t EXCEPT !.pc = pc, !.js.status = st], t)
<1>1. t.js \in JobseekerProfile
  BY Fields
<1> QED
  BY <1>1 DEF Alike, Task, JobseekerProfile

\* A step of one request that takes its documents from those it holds and those the
\* rows of its owner have, and changes the rows of none but these.
Tidy(h) ==
    /\ \A owner \in Owners :
         /\ Holds(owner, task'[h]) \subseteq Holds(owner, task[h]) \cup Has(owner)
         /\ Has(owner)' \subseteq Has(owner) \cup Holds(owner, task[h])
         /\ Has(owner)' \subseteq documents'
    /\ \A d \in documents \ documents' : \E owner \in Owners : d \in Holds(owner, task[h])
    /\ \A d \in Docs :
         papers'[d] # papers[d] => \E owner \in Owners : d \in Holds(owner, task[h])
    /\ KindsKept(task'[h])
    /\ NewPaper(h)' /\ (On(h, "file")' => task'[h].doc \in documents')

LEMMA TidyKeeps ==
    ASSUME ProfilesIInv, FilingIInv, NEW h \in Requests, Goes(h), Tidy(h)
    PROVE  FilingIInv'
<1>0. /\ task \in [Requests -> Task]
      /\ \A g \in Requests \ {h} : task'[g] = task[g]
  BY DEF Goes, ProfilesIInv, ProfilesTypeOK
<1>1. \A owner \in Owners : (Has(owner) \subseteq documents)'
  BY DEF Tidy
<1>2. ASSUME NEW owner \in Owners, NEW other \in Owners, owner # other
      PROVE  /\ Has(owner)' \cap Has(other)' = {}
             /\ \A f \in Requests : Holds(owner, task'[f]) \cap Has(other)' = {}
             /\ \A f, g \in Requests : Holds(owner, task'[f]) \cap Holds(other, task'[g]) = {}
  <2>1. /\ Has(owner) \cap Has(other) = {}
        /\ \A f \in Requests : /\ Holds(owner, task[f]) \cap Has(other) = {}
                               /\ Holds(other, task[f]) \cap Has(owner) = {}
        /\ \A f, g \in Requests : Holds(owner, task[f]) \cap Holds(other, task[g]) = {}
    BY <1>2 DEF FilingIInv
  <2>2. /\ Has(owner)' \subseteq Has(owner) \cup Holds(owner, task[h])
        /\ Has(other)' \subseteq Has(other) \cup Holds(other, task[h])
    BY DEF Tidy
  <2>3. \A f \in Requests :
          /\ Holds(owner, task'[f]) \subseteq Holds(owner, task[f]) \cup Has(owner)
          /\ Holds(other, task'[f]) \subseteq Holds(other, task[f]) \cup Has(other)
    BY <1>0 DEF Tidy
  <2>4. Has(owner)' \cap Has(other)' = {}
    BY <2>1, <2>2
  <2>5. \A f \in Requests : Holds(owner, task'[f]) \cap Has(other)' = {}
    BY <2>1, <2>2, <2>3
  <2>6. \A f, g \in Requests : Holds(owner, task'[f]) \cap Holds(other, task'[g]) = {}
    BY <2>1, <2>3
  <2> QED
    BY <2>4, <2>5, <2>6
<1>3. ASSUME NEW g \in Requests
      PROVE  KindsKept(task'[g]) /\ NewPaper(g)' /\ (On(g, "file")' => task'[g].doc \in documents')
  <2>1. CASE g = h
    BY <2>1 DEF Tidy
  <2>2. CASE g # h
    <3>1. /\ task'[g] = task[g] /\ KindsKept(task[g]) /\ NewPaper(g)
          /\ task[g].pc = "file" => task[g].doc \in documents
      BY <1>0, <2>2 DEF FilingIInv, On
    <3>2. ASSUME task[g].pc \in {"insert", "file"}, NEW owner \in Owners
          PROVE  /\ task[g].doc \notin Has(owner)'
                 /\ \A f \in Requests \ {g} : task[g].doc \notin Holds(owner, task'[f])
      BY <1>0, <2>2, <3>1, <3>2 DEF NewPaper, Tidy
    <3>3. NewPaper(g)'
      BY <3>1, <3>2 DEF NewPaper
    <3>4. task[g].pc = "file" => task[g].doc \in documents'
      BY <2>2, <3>1 DEF NewPaper, Tidy
    <3> QED
      BY <3>1, <3>3, <3>4 DEF On
  <2> QED
    BY <2>1, <2>2
<1> QED
  BY <1>1, <1>2, <1>3 DEF FilingIInv

\* A step that changes no row of these is tidy if its request is.
LEMMA QuietTidy ==
    ASSUME FilingIInv, NEW h \in Requests, UNCHANGED <<files, jobseeker, employer>>,
           \A owner \in Owners : Holds(owner, task'[h]) \subseteq Holds(owner, task[h]) \cup Has(owner),
           KindsKept(task'[h]), task'[h].pc \notin {"insert", "file"}
    PROVE  Tidy(h)
<1>1. UNCHANGED <<documents, papers, jobseeker, employer>>
  BY DEF files
<1>2. \A owner : Has(owner)' = Has(owner)
  BY <1>1 DEF Has, FiledAs
<1>3. NewPaper(h)' /\ ~On(h, "file")'
  BY DEF NewPaper, On
<1> QED
  BY <1>1, <1>2, <1>3 DEF Tidy, FilingIInv

LEMMA QuietStep ==
    ASSUME FilingIInv, NEW h \in Requests, UNCHANGED <<files, jobseeker, employer>>,
           GoesOn(task'[h], task[h]), task'[h].pc \notin {"insert", "file"}
    PROVE  Tidy(h)
BY QuietTidy, AlikeHolds DEF FilingIInv

\* What the steps that only read find, and what they keep of it.
ReadsOnly(h, t, u) ==
    \/ u = Rest
    \/ AfterDelete(h) /\ t.op \in OpsAt("find")
    \/ \E c \in {"cv", "picture"} :
         /\ t.op \in OperationsOn("columns") /\ t.pc = "clear"
         /\ u = [t EXCEPT !.pc = "find", !.doc = jobseeker[c], !.js = [t.js EXCEPT ![c] = "none"]]
    \/ \E d \in FiledAs({t.kind}) :
         t.op \in PaperOp /\ u = [t EXCEPT !.pc = "remove", !.doc = d]
    \/ /\ t.op = "approveJobseeker" /\ FiledAs({"ID_DOCUMENT"}) # {}
       /\ u = [t EXCEPT !.pc = "hasProof"]
    \/ /\ t.op = "approveJobseeker" /\ FiledAs({"PROOF_OF_ADDRESS"}) # {}
       /\ t.pc = "hasProof" /\ u = [t EXCEPT !.pc = "reload", !.js.status = "APPROVED"]
    \/ \E kinds \in {JobseekerKinds, EmployerKinds} :
         /\ t.op \in IF kinds = JobseekerKinds THEN JobseekerOp ELSE EmployerOp
         /\ t.pc = "list"
         /\ u = [t EXCEPT !.pc = "savePapers",
                          !.read = [d \in Docs |-> IF papers[d].kind \in kinds
                                                   THEN papers[d] ELSE NoPaper]]
    \/ /\ t.op \in JobseekerOp /\ t.pc = "reload"
       /\ u = [t EXCEPT !.pc = "write", !.jsSnap = jobseeker]
    \/ /\ t.op \in EmployerOp
       /\ \/ u = [t EXCEPT !.pc = "write", !.emSnap = employer]
          \/ u = [t EXCEPT !.pc = "load"]
          \/ u = [t EXCEPT !.pc = "reload"]
          \/ u = [t EXCEPT !.pc = "upload"] /\ t.op = "uploadLogo"
          \/ \E k \in EmployerKinds : u = [t EXCEPT !.pc = "upload", !.kind = k]
          \/ u = [t EXCEPT !.pc = "find", !.doc = employer.logo,
                           !.outer = [t.em EXCEPT !.logo = "none"],
                           !.em = [employer EXCEPT !.logo = "unset"]]
          \/ u = [Loaded EXCEPT !.op = "autoVerify", !.pc = "reload",
                                !.em.verification = "APPROVED", !.status = "APPROVED"]
    \/ t.op \in OpsAt("find") /\ t.pc = "find" /\ u = [t EXCEPT !.pc = "object"]

LEMMA ReadsDo ==
    ASSUME ProfilesIInv, NEW h \in Requests, Reads(h)
    PROVE  ReadsOnly(h, task[h], task'[h])
<1> DEFINE t == task[h]
           u == task'[h]
<1>0. /\ task \in [Requests -> Task] /\ t \in Task /\ t.op \in OpsAt(t.pc)
  BY DEF ProfilesIInv, ProfilesTypeOK, OnCourse
<1>1. ASSUME NEW pc, Proceed(h, pc) PROVE u = [t EXCEPT !.pc = pc]
  BY <1>0, <1>1 DEF Proceed
<1>2. ASSUME Finish(h) PROVE u = Rest
  BY <1>2, FinishGoes
<1>a. ASSUME NEW v, task' = [task EXCEPT ![h] = v] PROVE u = v
  BY <1>0, <1>a
<1>3. ASSUME NEW c \in {"cv", "picture"}, DeleteColumn(h, c), t.op \in OperationsOn("columns")
      PROVE  ReadsOnly(h, t, u)
  <2>0. t.pc = "clear" /\ t.op \in OpsAt("find")
    BY <1>0, <1>3, Stages DEF DeleteColumn, On
  <2>1. CASE jobseeker[c] # "none"
    <3> DEFINE js == [t.js EXCEPT ![c] = "none"]
               v == [t EXCEPT !.pc = "find", !.doc = jobseeker[c], !.js = js]
    <3>1. task' = [task EXCEPT ![h] = v]
      BY <1>0, <1>3, <2>1 DEF DeleteColumn, Task
    <3>2. u = v
      BY <1>a, <3>1
    <3> QED
      BY <1>3, <2>0, <3>2 DEF ReadsOnly
  <2>2. CASE jobseeker[c] = "none"
    BY <1>3, <2>0, <2>2 DEF DeleteColumn, ReadsOnly
  <2> QED
    BY <2>1, <2>2
<1>4. CASE DeleteCvColumn(h) \/ DeletePictureColumn(h)
  BY <1>3, <1>4, Sides DEF DeleteCvColumn, DeletePictureColumn
<1>5. CASE FindExisting(h)
  <2>0. t.op \in PaperOp /\ t.op \in OpsAt("find")
    BY <1>0, <1>5, Stages DEF FindExisting, On
  <2>1. ASSUME NEW d \in FiledAs({t.kind}), task' = [task EXCEPT ![h].pc = "remove", ![h].doc = d]
        PROVE  u = [t EXCEPT !.pc = "remove", !.doc = d]
    BY <1>0, <2>1 DEF Task
  <2> QED
    BY <1>5, <2>0, <2>1 DEF FindExisting, ReadsOnly
<1>6. CASE FindIdRow(h) \/ FindProofRow(h)
  <2>0. t.op = "approveJobseeker"
    BY <1>0, <1>6, Stages DEF FindIdRow, FindProofRow, On
  <2>1. CASE FindIdRow(h)
    BY <1>1, <1>2, <2>0, <2>1 DEF FindIdRow, ReadsOnly
  <2>2. CASE FindProofRow(h) /\ ~Finish(h)
    <3>1. /\ task' = [task EXCEPT ![h].pc = "reload", ![h].js.status = "APPROVED"]
          /\ t.pc = "hasProof" /\ FiledAs({"PROOF_OF_ADDRESS"}) # {}
      BY <2>2 DEF FindProofRow, On
    <3>2. u = [t EXCEPT !.pc = "reload", !.js.status = "APPROVED"]
      BY <1>0, <3>1 DEF Task
    <3> QED
      BY <2>0, <3>1, <3>2 DEF ReadsOnly
  <2>3. CASE Finish(h)
    BY <1>2, <2>3 DEF ReadsOnly
  <2> QED
    BY <1>6, <2>1, <2>2, <2>3
<1>7. CASE ListJobseekerPapers(h) \/ ListEmployerPapers(h)
  <2>1. JobseekerKinds # EmployerKinds
    BY Kinds DEF JobseekerKinds
  <2>2. PICK kinds \in {JobseekerKinds, EmployerKinds} :
          /\ ListPapers(h, kinds)
          /\ t.op \in IF kinds = JobseekerKinds THEN JobseekerOp ELSE EmployerOp
    BY <1>7, <2>1 DEF ListJobseekerPapers, ListEmployerPapers
  <2> DEFINE read == [d \in Docs |-> IF papers[d].kind \in kinds THEN papers[d] ELSE NoPaper]
  <2>3. task' = [task EXCEPT ![h].pc = "savePapers", ![h].read = read] /\ t.pc = "list"
    BY <2>2 DEF ListPapers, On
  <2>4. u = [t EXCEPT !.pc = "savePapers", !.read = read]
    BY <1>0, <2>3 DEF Task
  <2> QED
    BY <2>2, <2>3, <2>4 DEF ReadsOnly
<1>8. CASE ReloadJobseeker(h)
  <2>1. u = [t EXCEPT !.pc = "write", !.jsSnap = jobseeker]
    BY <1>0, <1>8 DEF ReloadJobseeker, Task
  <2> QED
    BY <1>8, <2>1 DEF ReloadJobseeker, On, ReadsOnly
<1>9. CASE NextOfBatch(h) \/ CheckEligible(h)
  <2>0. t.op \in EmployerOp
    BY <1>0, <1>9, Stages DEF NextOfBatch, CheckEligible, On, EmployerOp
  <2>1. ASSUME NEW k \in EmployerKinds, task' = [task EXCEPT ![h].pc = "upload", ![h].kind = k]
        PROVE  u = [t EXCEPT !.pc = "upload", !.kind = k]
    BY <1>0, <2>1 DEF Task
  <2> QED
    BY <1>1, <1>2, <1>9, <2>0, <2>1 DEF NextOfBatch, CheckEligible, ReadsOnly
<1>10. CASE DeleteLogoColumn(h)
  <2>0. t.op \in {"uploadLogo", "deleteLogo"}
    BY <1>10 DEF DeleteLogoColumn
  <2>1. CASE employer.logo # "none"
    <3> DEFINE em == [employer EXCEPT !.logo = "unset"]
               outer == [t.em EXCEPT !.logo = "none"]
    <3>1. task' = [task EXCEPT ![h].pc = "find", ![h].doc = employer.logo, ![h].outer = outer,
                               ![h].em = em]
      BY <1>10, <2>1 DEF DeleteLogoColumn
    <3>2. u = [t EXCEPT !.pc = "find", !.doc = employer.logo, !.outer = outer, !.em = em]
      BY <1>0, <3>1 DEF Task
    <3> QED
      BY <2>0, <3>2 DEF ReadsOnly, EmployerOp
  <2>2. CASE employer.logo = "none"
    BY <1>1, <1>2, <1>10, <2>0, <2>2 DEF DeleteLogoColumn, ReadsOnly, EmployerOp
  <2> QED
    BY <2>1, <2>2
<1>11. CASE LoadForAutoVerification(h)
  <2>0. t.op \in EmployerOp
    BY <1>0, <1>11, Stages DEF LoadForAutoVerification, On, EmployerOp
  <2> QED
    BY <1>2, <1>a, <1>11, <2>0 DEF LoadForAutoVerification, ReadsOnly
<1>12. CASE ReloadEmployer(h)
  <2>1. ASSUME task' = [task EXCEPT ![h].pc = "write", ![h].emSnap = employer]
        PROVE  u = [t EXCEPT !.pc = "write", !.emSnap = employer]
    BY <1>0, <2>1 DEF Task
  <2> QED
    BY <1>2, <1>12, <2>1 DEF ReloadEmployer, ReadsOnly
<1>13. CASE FindDocument(h)
  <2>0. t.op \in OpsAt("find") /\ t.pc = "find"
    BY <1>0, <1>13, Stages DEF FindDocument, On
  <2> QED
    BY <1>1, <1>13, <2>0 DEF FindDocument, ReadsOnly
<1> QED
  BY <1>4, <1>5, <1>6, <1>7, <1>8, <1>9, <1>10, <1>11, <1>12, <1>13 DEF Reads

LEMMA AfterDeleteOn ==
    ASSUME ProfilesIInv, NEW h \in Requests, AfterDelete(h), task[h].op \in OpsAt("find")
    PROVE  /\ GoesOn(task'[h], task[h]) /\ task'[h].pc \notin {"insert", "file"}
           /\ \/ task'[h] = Rest
              \/ \E pc \in {"upload", "reload", "unlink"} :
                   task'[h] = [task[h] EXCEPT !.pc = pc]
<1>1. task[h] \in Task
  BY DEF ProfilesIInv, ProfilesTypeOK
<1>2. \/ task'[h] = Rest
      \/ \E pc \in {"upload", "reload", "unlink"} : task'[h] = [task[h] EXCEPT !.pc = pc]
  BY AfterDeleteGoes
<1>3. task[h].op # "uploadBatch"
  BY Stages DEF ColumnOp, PaperOp
<1>4. ASSUME NEW pc \in {"upload", "reload", "unlink"}, task'[h] = [task[h] EXCEPT !.pc = pc]
      PROVE  GoesOn(task'[h], task[h]) /\ task'[h].pc \notin {"insert", "file"}
  <2>1. Alike(task'[h], task[h]) /\ task'[h].pc = pc
    BY <1>1, <1>4, PcAlike
  <2> QED
    BY <1>3, <2>1 DEF GoesOn, Alike
<1>5. task'[h] = Rest => GoesOn(task'[h], task[h]) /\ task'[h].pc \notin {"insert", "file"}
  BY DEF GoesOn, Rest
<1> QED
  BY <1>2, <1>4, <1>5

LEMMA ArrivalTidy ==
    ASSUME ProfilesIInv, FilingIInv, NEW h \in Requests, NEW t, Receive(h, t), Arriving(t),
           UNCHANGED <<files, jobseeker, employer>>
    PROVE  Tidy(h) /\ task'[h] = t /\ task[h].op = "none"
<1>1. /\ task'[h] = t /\ task[h].pc = "idle" /\ task[h].op = "none"
  BY Stages DEF Receive, ProfilesIInv, ProfilesTypeOK, OnCourse
<1>2. t.pc \notin {"insert", "file"} /\ (t.op = "uploadBatch" => t.pc # "upload")
  BY DEF Arriving
<1>3. KindsKept(t)
  BY <1>2 DEF KindsKept, Arriving
<1>4. ASSUME NEW owner \in Owners, NEW d \in Holds(owner, t)
      PROVE  d \in Has(owner)
  <2>1. d \in Docs /\ d # "none"
    BY DocumentsAssumption DEF Holds
  <2>2. CASE owner = "columns"
    BY <1>4, <2>1, <2>2, HasIs, Sides DEF Holds, Arriving
  <2>3. CASE owner = "papers"
    <3>1. t.op \in JobseekerOp /\ t.read[d] # NoPaper
      BY <1>4, <2>1, <2>3, Sides DEF Holds, Arriving, PaperOp
    <3> QED
      BY <2>1, <2>3, <3>1, HasIs DEF Arriving, FiledAs
  <2>4. CASE owner = "employer"
    <3>1. CASE d = t.doc
      BY <2>1, <2>4, <3>1, HasIs DEF Arriving
    <3>2. CASE d # t.doc
      <4>1. t.op \in EmployerOp /\ (d = employer.logo \/ t.read[d] # NoPaper)
        BY <1>4, <2>1, <2>4, <3>2, Sides DEF Holds, Arriving
      <4> QED
        BY <2>1, <2>4, <4>1, HasIs DEF Arriving, FiledAs
    <3> QED
      BY <3>1, <3>2
  <2> QED
    BY <2>2, <2>3, <2>4, Sides
<1> QED
  BY <1>1, <1>2, <1>3, <1>4, QuietTidy

LEMMA ReadsTidy ==
    ASSUME ProfilesIInv, FilingIInv, NEW h \in Requests, Reads(h)
    PROVE  Tidy(h)
<1> DEFINE t == task[h]
           u == task'[h]
<1>0. /\ t \in Task /\ KindsKept(t) /\ UNCHANGED <<files, jobseeker, employer>>
      /\ t.js \in JobseekerProfile /\ t.em \in EmployerProfile
      /\ employer \in EmployerProfile
  BY ReadsGo, Fields DEF ProfilesIInv, ProfilesTypeOK, FilingIInv
<1>1. ReadsOnly(h, t, u)
  BY ReadsDo
<1>n. "none" \notin Docs /\ "unset" \notin Docs
  BY DocumentsAssumption
<1>2. ASSUME GoesOn(u, t), u.pc \notin {"insert", "file"} PROVE Tidy(h)
  BY <1>0, <1>2, QuietStep
<1>3. ASSUME NEW pc \in {"hasProof", "reload", "load", "object", "write"},
             Alike(u, t), u.pc = pc
      PROVE  Tidy(h)
  BY <1>2, <1>3 DEF GoesOn
<1>4. CASE u = Rest
  BY <1>2, <1>4 DEF GoesOn, Rest
<1>5. CASE AfterDelete(h) /\ t.op \in OpsAt("find")
  BY <1>2, <1>5, AfterDeleteOn
<1>6. ASSUME NEW c \in {"cv", "picture"}, t.op \in OperationsOn("columns"),
             u = [t EXCEPT !.pc = "find", !.doc = jobseeker[c], !.js = [t.js EXCEPT ![c] = "none"]]
      PROVE  Tidy(h)
  <2> DEFINE js == [t.js EXCEPT ![c] = "none"]
  <2>1. js.cv \in {"none", t.js.cv} /\ js.picture \in {"none", t.js.picture}
    <3>1. CASE c = "cv"
      BY <1>0, <3>1 DEF JobseekerProfile
    <3>2. CASE c = "picture"
      BY <1>0, <3>2 DEF JobseekerProfile
    <3> QED
      BY <3>1, <3>2
  <2>2. jobseeker[c] \in {jobseeker.cv, jobseeker.picture}
    OBVIOUS
  <2>3. u = [t EXCEPT !.pc = "find", !.doc = jobseeker[c], !.js = js]
    BY <1>6
  <2> HIDE DEF js
  <2>4. /\ u.op = t.op /\ u.pc = "find" /\ u.doc = jobseeker[c] /\ u.js = js /\ u.read = t.read
        /\ u.em = t.em /\ u.outer = t.outer /\ u.kind = t.kind
    BY <1>0, <2>3 DEF Task
  <2> HIDE DEF t, u
  <2>5. ASSUME NEW owner \in Owners, NEW d \in Holds(owner, u)
        PROVE  d \in Holds(owner, t) \cup Has(owner)
    <3>1. CASE owner = "columns"
      BY <1>n, <2>1, <2>2, <2>4, <2>5, <3>1, HasIs DEF Holds
    <3>2. CASE owner = "papers"
      BY <1>6, <2>4, <2>5, <3>2, Sides DEF Holds
    <3>3. CASE owner = "employer"
      <4>1. t.op \notin EmployerOp
        BY <1>6, Sides DEF EmployerOp
      <4> QED
        BY <2>4, <2>5, <3>3, <4>1, Sides DEF Holds
    <3> QED
      BY <3>1, <3>2, <3>3, Sides
  <2>6. KindsKept(u)
    BY <1>0, <2>4 DEF KindsKept
  <2> QED
    BY <1>0, <2>4, <2>5, <2>6, QuietTidy DEF t, u
<1>7. ASSUME NEW d \in FiledAs({t.kind}), t.op \in PaperOp,
             u = [t EXCEPT !.pc = "remove", !.doc = d]
      PROVE  Tidy(h)
  <2>1. /\ u.op = t.op /\ u.pc = "remove" /\ u.doc = d /\ u.js = t.js /\ u.read = t.read
        /\ u.em = t.em /\ u.outer = t.outer /\ u.kind = t.kind
    BY <1>0, <1>7 DEF Task
  <2>2. d \in Has("papers")
    BY <1>0, <1>7, HasIs DEF KindsKept, FiledAs
  <2> HIDE DEF t, u
  <2>3. ASSUME NEW owner \in Owners, NEW c \in Holds(owner, u)
        PROVE  c \in Holds(owner, t) \cup Has(owner)
    <3>1. CASE owner = "papers"
      BY <2>1, <2>2, <2>3, <3>1 DEF Holds
    <3>2. CASE owner # "papers"
      BY <1>7, <2>1, <2>3, <3>2, Sides DEF Holds
    <3> QED
      BY <3>1, <3>2
  <2>4. KindsKept(u)
    BY <1>0, <2>1 DEF KindsKept
  <2> QED
    BY <1>0, <2>1, <2>3, <2>4, QuietTidy DEF t, u
<1>8. ASSUME NEW kinds \in {JobseekerKinds, EmployerKinds}, t.pc = "list",
             t.op \in IF kinds = JobseekerKinds THEN JobseekerOp ELSE EmployerOp,
             u = [t EXCEPT !.pc = "savePapers",
                           !.read = [d \in Docs |-> IF papers[d].kind \in kinds
                                                    THEN papers[d] ELSE NoPaper]]
      PROVE  Tidy(h)
  <2> DEFINE read == [d \in Docs |-> IF papers[d].kind \in kinds THEN papers[d] ELSE NoPaper]
  <2>1. \A d \in Docs : read[d] # NoPaper => d \in FiledAs(kinds) /\ read[d].kind \in kinds
    BY DEF FiledAs
  <2>2. u = [t EXCEPT !.pc = "savePapers", !.read = read]
    BY <1>8
  <2> HIDE DEF read
  <2>3. /\ u.op = t.op /\ u.pc = "savePapers" /\ u.doc = t.doc /\ u.js = t.js /\ u.read = read
        /\ u.em = t.em /\ u.outer = t.outer /\ u.kind = t.kind
    BY <1>0, <2>2 DEF Task
  <2>a. /\ t.op \in JobseekerOp => kinds = JobseekerKinds
        /\ t.op \in EmployerOp => kinds = EmployerKinds
    BY <1>8, Sides
  <2> HIDE DEF t, u
  <2>4. ASSUME NEW owner \in Owners, NEW c \in Holds(owner, u)
        PROVE  c \in Holds(owner, t) \cup Has(owner)
    BY <2>1, <2>3, <2>a, <2>4, HasIs DEF Holds
  <2>5. KindsKept(u)
    BY <1>0, <2>1, <2>3, <2>a DEF KindsKept
  <2> QED
    BY <1>0, <2>3, <2>4, <2>5, QuietTidy DEF t, u
<1>9. ASSUME NEW k \in EmployerKinds, t.op \in EmployerOp, u = [t EXCEPT !.pc = "upload", !.kind = k]
      PROVE  Tidy(h)
  <2>1. /\ u.op = t.op /\ u.pc = "upload" /\ u.doc = t.doc /\ u.js = t.js /\ u.read = t.read
        /\ u.em = t.em /\ u.outer = t.outer /\ u.kind = k
    BY <1>0, <1>9 DEF Task
  <2> HIDE DEF t, u
  <2>2. \A owner \in Owners : Holds(owner, u) = Holds(owner, t)
    BY <2>1 DEF Holds
  <2>3. KindsKept(u)
    BY <1>0, <1>9, <2>1, Sides DEF KindsKept
  <2> QED
    BY <1>0, <2>1, <2>2, <2>3, QuietTidy DEF t, u
<1>10. ASSUME t.op \in EmployerOp,
              u = [t EXCEPT !.pc = "find", !.doc = employer.logo,
                            !.outer = [t.em EXCEPT !.logo = "none"],
                            !.em = [employer EXCEPT !.logo = "unset"]]
       PROVE  Tidy(h)
  <2> DEFINE outer == [t.em EXCEPT !.logo = "none"]
             em == [employer EXCEPT !.logo = "unset"]
  <2>1. outer.logo = "none" /\ em.logo = "unset"
    BY <1>0 DEF EmployerProfile
  <2>2. u = [t EXCEPT !.pc = "find", !.doc = employer.logo, !.outer = outer, !.em = em]
    BY <1>10
  <2> HIDE DEF outer, em
  <2>3. /\ u.op = t.op /\ u.pc = "find" /\ u.doc = employer.logo /\ u.js = t.js
        /\ u.read = t.read /\ u.em = em /\ u.outer = outer /\ u.kind = t.kind
    BY <1>0, <2>2 DEF Task
  <2> HIDE DEF t, u
  <2>4. ASSUME NEW owner \in Owners, NEW c \in Holds(owner, u)
        PROVE  c \in Holds(owner, t) \cup Has(owner)
    <3>1. CASE owner = "employer"
      BY <1>n, <2>1, <2>3, <2>4, <3>1, HasIs DEF Holds
    <3>0. t.op \notin JobseekerOp /\ t.op \notin OperationsOn("columns")
      BY <1>10, Sides DEF EmployerOp
    <3>2. CASE owner = "columns"
      BY <3>0, <2>3, <2>4, <3>2 DEF Holds
    <3>3. CASE owner = "papers"
      BY <3>0, <2>3, <2>4, <3>3, Sides DEF Holds
    <3> QED
      BY <3>1, <3>2, <3>3, Sides
  <2>5. KindsKept(u)
    BY <1>0, <2>3 DEF KindsKept
  <2> QED
    BY <1>0, <2>3, <2>4, <2>5, QuietTidy DEF t, u
<1>11. ASSUME u = [Loaded EXCEPT !.op = "autoVerify", !.pc = "reload",
                                 !.em.verification = "APPROVED", !.status = "APPROVED"]
       PROVE  Tidy(h)
  <2> DEFINE em == [employer EXCEPT !.verification = "APPROVED"]
  <2>1. em.logo = employer.logo
    BY <1>0 DEF EmployerProfile
  <2>2. /\ u.op = "autoVerify" /\ u.pc = "reload" /\ u.doc = "none" /\ u.em = em
        /\ u.outer.logo = "none" /\ u.read = [d \in Docs |-> NoPaper]
    BY <1>11, LoadedIs DEF Task, NewEmployer
  <2> HIDE DEF em, u, t
  <2>3. "autoVerify" \in EmployerOp /\ "autoVerify" \notin PaperOp
    BY DEF EmployerOp, PaperOp
  <2>4. ASSUME NEW owner \in Owners, NEW c \in Holds(owner, u)
        PROVE  c \in Holds(owner, t) \cup Has(owner)
    <3>1. c \in Docs /\ u.read[c] = NoPaper /\ owner = "employer" /\ c = employer.logo
      BY <1>n, <2>1, <2>2, <2>3, <2>4, Sides DEF Holds
    <3> QED
      BY <3>1, HasIs
  <2>5. KindsKept(u)
    BY <2>2, <2>3, Sides DEF KindsKept
  <2> QED
    BY <1>0, <2>2, <2>4, <2>5, QuietTidy DEF t, u
<1>12. ASSUME NEW pc \in {"hasProof", "reload", "load", "object", "upload"},
              u = [t EXCEPT !.pc = pc], pc = "upload" => t.op = "uploadLogo"
       PROVE  Tidy(h)
  <2>1. Alike(u, t) /\ u.pc = pc
    BY <1>0, <1>12, PcAlike
  <2> HIDE DEF t, u
  <2> QED
    BY <1>2, <1>12, <2>1 DEF GoesOn, Alike
<1>13. ASSUME NEW j, u = [t EXCEPT !.pc = "write", !.jsSnap = j] PROVE Tidy(h)
  <2>1. Alike(u, t) /\ u.pc = "write"
    BY <1>0, <1>13 DEF Alike, Task
  <2> QED
    BY <1>3, <2>1
<1>14. ASSUME NEW e, u = [t EXCEPT !.pc = "write", !.emSnap = e] PROVE Tidy(h)
  <2>1. Alike(u, t) /\ u.pc = "write"
    BY <1>0, <1>14 DEF Alike, Task
  <2> QED
    BY <1>3, <2>1
<1>15. CASE u = [t EXCEPT !.pc = "reload", !.js.status = "APPROVED"]
  <2>1. Alike(u, t) /\ u.pc = "reload"
    BY <1>0, <1>15 DEF Alike, Task, JobseekerProfile
  <2> QED
    BY <1>3, <2>1
<1>16. CASE \/ u = [t EXCEPT !.pc = "hasProof"] \/ u = [t EXCEPT !.pc = "object"]
            \/ u = [t EXCEPT !.pc = "load"] \/ u = [t EXCEPT !.pc = "reload"]
            \/ u = [t EXCEPT !.pc = "upload"] /\ t.op = "uploadLogo"
  BY <1>12, <1>16
<1> HIDE DEF t, u
<1> QED
  BY <1>1, <1>4, <1>5, <1>6, <1>7, <1>8, <1>9, <1>10, <1>11, <1>13, <1>14, <1>15, <1>16
     DEF ReadsOnly

\* A step that changes rows and keeps the documents of its request.
LEMMA RowTidy ==
    ASSUME FilingIInv, NEW h \in Requests,
           GoesOn(task'[h], task[h]), task'[h].pc \notin {"insert", "file"},
           \A owner \in Owners : Has(owner)' \subseteq Has(owner) \cup Holds(owner, task[h]),
           \A owner \in Owners : Has(owner)' \subseteq documents',
           \A d \in documents \ documents' : \E owner \in Owners : d \in Holds(owner, task[h]),
           \A d \in Docs :
             papers'[d] # papers[d] => \E owner \in Owners : d \in Holds(owner, task[h])
    PROVE  Tidy(h)
<1>1. NewPaper(h)' /\ ~On(h, "file")'
  BY DEF NewPaper, On
<1>2. KindsKept(task'[h]) /\ \A owner \in Owners : Holds(owner, task'[h]) \subseteq Holds(owner, task[h])
  BY AlikeHolds DEF FilingIInv
<1> QED
  BY <1>1, <1>2 DEF Tidy

\* A step that changes verification rows.
LEMMA PaperTidy ==
    ASSUME ProfilesIInv, FilingIInv, NEW h \in Requests,
           GoesOn(task'[h], task[h]), task'[h].pc \notin {"insert", "file"},
           UNCHANGED <<documents, jobseeker, employer>>,
           \A d \in Docs : papers'[d] # papers[d] =>
             /\ \E owner \in Owners : d \in Holds(owner, task[h])
             /\ papers'[d].kind \in JobseekerKinds =>
                  d \in Holds("papers", task[h]) /\ d \in documents
             /\ papers'[d].kind \in EmployerKinds =>
                  d \in Holds("employer", task[h]) /\ d \in documents
    PROVE  Tidy(h)
<1>1. /\ Has("columns")' = Has("columns")
      /\ Has("papers")' = {d \in Docs : papers'[d].kind \in JobseekerKinds}
      /\ Has("employer")' = ({employer.logo} \cap Docs) \cup {d \in Docs : papers'[d].kind \in EmployerKinds}
  BY HasIs DEF Has, FiledAs
<1>2. ASSUME NEW owner \in Owners, NEW d \in Has(owner)'
      PROVE  d \in Has(owner) \/ (d \in Holds(owner, task[h]) /\ d \in documents)
  BY <1>1, <1>2, HasIs, Sides DEF FiledAs
<1>3. \A owner \in Owners : Has(owner)' \subseteq documents'
  BY <1>2 DEF FilingIInv
<1>4. \A owner \in Owners : Has(owner)' \subseteq Has(owner) \cup Holds(owner, task[h])
  BY <1>2
<1> QED
  BY <1>3, <1>4, RowTidy

LEMMA PaperStepsTidy ==
    ASSUME ProfilesIInv, FilingIInv, NEW h \in Requests,
           \/ RemoveExisting(h) \/ RemoveEmployerPaper(h)
           \/ InsertJobseekerPaper(h) \/ InsertEmployerPaper(h)
    PROVE  /\ Tidy(h)
           /\ GoesOn(task'[h], task[h]) /\ UNCHANGED <<jobseeker, employer, past>>
<1> DEFINE t == task[h]
<1>0. /\ t \in Task /\ task \in [Requests -> Task] /\ papers \in [Docs -> Paper]
      /\ t.op \in OpsAt(t.pc) /\ KindsKept(t)
      /\ t.pc = "file" => t.doc \in documents
      /\ "none" \notin JobseekerKinds \cup EmployerKinds
  BY Kinds DEF ProfilesIInv, ProfilesTypeOK, OnCourse, FilingIInv, On
<1>1. ASSUME NEW pc \in {"find", "reload", "next", "eligible"}, Proceed(h, pc)
      PROVE  GoesOn(task'[h], t) /\ task'[h].pc \notin {"insert", "file"}
  <2>1. task'[h] = [t EXCEPT !.pc = pc]
    BY <1>0, <1>1 DEF Proceed
  <2>0. t \in Task
    BY <1>0
  <2> HIDE DEF t
  <2>2. Alike(task'[h], t) /\ task'[h].pc = pc
    <3>1. Alike([t EXCEPT !.pc = pc], t) /\ [t EXCEPT !.pc = pc].pc = pc
      BY <2>0, PcAlike
    <3> QED
      BY <2>1, <3>1
  <2> QED
    BY <2>2 DEF GoesOn
<1>2. ASSUME Finish(h)
      PROVE  GoesOn(task'[h], t) /\ task'[h].pc \notin {"insert", "file"}
  BY <1>2, FinishGoes DEF GoesOn, Rest
<1>3. /\ GoesOn(task'[h], t) /\ task'[h].pc \notin {"insert", "file"}
      /\ UNCHANGED <<documents, jobseeker, employer, past>>
  BY <1>1, <1>2 DEF RemoveExisting, RemoveEmployerPaper, InsertJobseekerPaper, InsertEmployerPaper
<1>4. ASSUME NEW row, papers' = [papers EXCEPT ![t.doc] = row],
             NEW owner \in Owners, t.op \in OperationsOn(owner),
             row.kind \in JobseekerKinds => owner = "papers" /\ t.doc \in documents,
             row.kind \in EmployerKinds => owner = "employer" /\ t.doc \in documents
      PROVE  Tidy(h)
  <2>1. ASSUME NEW d \in Docs, papers'[d] # papers[d]
        PROVE  d = t.doc /\ papers'[d] = row /\ d \in Holds(owner, t)
    BY <1>0, <1>4, <2>1 DEF Holds
  <2> QED
    BY <1>3, <1>4, <2>1, PaperTidy
<1>n. NoPaper.kind \notin JobseekerKinds \cup EmployerKinds
  BY <1>0 DEF NoPaper
<1> HIDE DEF t
<1>5. ASSUME RemoveExisting(h) PROVE Tidy(h)
  <2>1. t.op \in OperationsOn("papers") /\ papers' = [papers EXCEPT ![t.doc] = NoPaper]
    BY <1>0, <1>5, Stages, Sides DEF RemoveExisting, On, t
  <2> QED
    BY <1>n, <1>4, <2>1, Sides
<1>6. ASSUME RemoveEmployerPaper(h) PROVE Tidy(h)
  <2>1. t.op \in OperationsOn("employer") /\ papers' = [papers EXCEPT ![t.doc] = NoPaper]
    BY <1>0, <1>6, Stages, Sides DEF RemoveEmployerPaper, On, EmployerOp, t
  <2> QED
    BY <1>n, <1>4, <2>1, Sides
<1>7. ASSUME InsertJobseekerPaper(h) PROVE Tidy(h)
  <2>1. /\ t.op = "uploadPaper" /\ t.pc = "file"
        /\ \/ papers' = [papers EXCEPT ![t.doc] = [kind |-> t.kind, status |-> "PENDING"]]
           \/ papers' = papers
    BY <1>7 DEF InsertJobseekerPaper, On, t
  <2>2. t.op \in OperationsOn("papers") /\ t.kind \in JobseekerKinds /\ t.kind \notin EmployerKinds
    BY <1>0, <2>1, Sides, Kinds DEF KindsKept, PaperOp
  <2>3. CASE papers' = papers
    BY <1>3, <2>3, PaperTidy DEF t
  <2> QED
    BY <1>0, <1>3, <1>4, <2>1, <2>2, <2>3, Sides
<1>8. ASSUME InsertEmployerPaper(h) PROVE Tidy(h)
  <2>1. /\ t.op \in {"uploadEmployerPaper", "uploadBatch"} /\ t.pc = "file"
        /\ papers' = [papers EXCEPT ![t.doc] = [kind |-> t.kind, status |-> "PENDING"]]
    BY <1>8 DEF InsertEmployerPaper, On, t
  <2>2. t.op \in OperationsOn("employer") /\ t.kind \in EmployerKinds /\ t.kind \notin JobseekerKinds
    BY <1>0, <2>1, Sides, Kinds DEF KindsKept, EmployerOp
  <2> DEFINE row == [kind |-> t.kind, status |-> "PENDING"]
  <2>3. row.kind = t.kind /\ papers' = [papers EXCEPT ![t.doc] = row] /\ t.doc \in documents
    BY <1>0, <2>1
  <2> HIDE DEF row
  <2> QED
    BY <1>4, <2>2, <2>3, Sides
<1> QED
  BY <1>3, <1>5, <1>6, <1>7, <1>8 DEF t

LEMMA SavePapersTidy ==
    ASSUME ProfilesIInv, FilingIInv, NEW h \in Requests,
           SaveJobseekerPapers(h) \/ SaveEmployerPapers(h)
    PROVE  Tidy(h)
<1> DEFINE t == task[h]
<1>0. /\ t \in Task /\ papers \in [Docs -> Paper] /\ KindsKept(t)
      /\ t.read \in [Docs -> Paper]
  BY Fields DEF ProfilesIInv, ProfilesTypeOK, FilingIInv
<1>1. /\ t.op \in JobseekerOp \cup EmployerOp
      /\ UNCHANGED <<documents, jobseeker, employer>>
  BY DEF SaveJobseekerPapers, SaveEmployerPapers, SavePapers
<1>2. GoesOn(task'[h], t) /\ task'[h].pc \notin {"insert", "file"}
  <2>1. \/ task'[h] = Rest
        \/ \E pc \in {"reload", "eligible"} : task'[h] = [t EXCEPT !.pc = pc]
    BY SavePapersDoes
  <2>2. ASSUME NEW pc \in {"reload", "eligible"}, task'[h] = [t EXCEPT !.pc = pc]
        PROVE  GoesOn(task'[h], t) /\ task'[h].pc \notin {"insert", "file"}
    <3>1. Alike(task'[h], t) /\ task'[h].pc = pc
      BY <1>0, <2>2, PcAlike
    <3> QED
      BY <3>1 DEF GoesOn
  <2>3. CASE task'[h] = Rest
    BY <2>3 DEF GoesOn, Rest
  <2> QED
    BY <2>1, <2>2, <2>3
<1>3. CASE papers' = papers
  BY <1>1, <1>2, <1>3, PaperTidy
<1>4. CASE CanSavePapers(h) /\ papers' = Restamped(h)
  <2>1. ASSUME NEW d \in Docs, papers'[d] # papers[d]
        PROVE  t.read[d] # NoPaper /\ papers'[d].kind = t.read[d].kind
    BY <1>0, <1>4, <2>1 DEF Restamped, Paper
  <2>2. ASSUME NEW d \in Docs, t.read[d] # NoPaper PROVE d \in documents
    <3>1. CASE Filed(d)
      <4>1. papers[d].kind \in JobseekerKinds \cup EmployerKinds
        BY <1>0, <3>1 DEF Filed, Paper
      <4>2. d \in Has("papers") \cup Has("employer")
        BY <4>1, HasIs DEF FiledAs
      <4> QED
        BY <4>2, Sides DEF FilingIInv
    <3>2. CASE ~Filed(d)
      BY <1>4, <2>2, <3>2 DEF CanSavePapers
    <3> QED
      BY <3>1, <3>2
  <2>3. ASSUME NEW d \in Docs, t.read[d] # NoPaper
        PROVE  \/ t.read[d].kind \in JobseekerKinds \ EmployerKinds /\ d \in Holds("papers", t)
               \/ t.read[d].kind \in EmployerKinds \ JobseekerKinds /\ d \in Holds("employer", t)
    BY <1>0, <1>1, <2>3, Kinds DEF KindsKept, Holds
  <2> QED
    BY <1>1, <1>2, <2>1, <2>2, <2>3, PaperTidy, Sides
<1> QED
  BY <1>3, <1>4, SavePapersDoes

LEMMA WriteJobseekerTidy ==
    ASSUME ProfilesIInv, FilingIInv, NEW h \in Requests, WriteJobseeker(h)
    PROVE  Tidy(h)
<1> DEFINE t == task[h]
           n == SavedJobseeker(t)
<1>0. /\ t \in Task /\ t.op \in JobseekerOp /\ UNCHANGED <<documents, papers, employer>>
      /\ "none" \notin Docs
  BY WriteJobseekerDoes, DocumentsAssumption DEF ProfilesIInv, ProfilesTypeOK, files
<1>1. GoesOn(task'[h], t) /\ task'[h].pc \notin {"insert", "file"}
  <2>1. task'[h] = Rest \/ task'[h] = [t EXCEPT !.pc = "list"]
    BY WriteJobseekerDoes
  <2>2. CASE task'[h] = [t EXCEPT !.pc = "list"]
    <3>1. Alike(task'[h], t) /\ task'[h].pc = "list"
      BY <1>0, <2>2, PcAlike
    <3> QED
      BY <3>1 DEF GoesOn
  <2>3. CASE task'[h] = Rest
    BY <2>3 DEF GoesOn, Rest
  <2> QED
    BY <2>1, <2>2, <2>3
<1>2. \/ jobseeker' = jobseeker
      \/ jobseeker' = n /\ {n.cv, n.picture} \subseteq documents \cup {"none"}
  BY WriteJobseekerDoes
<1>3. n.cv \in {jobseeker.cv, t.js.cv} /\ n.picture \in {jobseeker.picture, t.js.picture}
  BY <1>0, SavedJobseekerIs
<1> HIDE DEF n
<1>4. /\ Has("papers")' = Has("papers") /\ Has("employer")' = Has("employer")
      /\ Has("columns")' = {jobseeker'.cv, jobseeker'.picture} \cap Docs
  BY <1>0 DEF Has, FiledAs
<1>5. Has("columns") \subseteq documents
  BY Sides DEF FilingIInv
<1>6. Has("columns")' \subseteq Has("columns") \cup Holds("columns", t)
  BY <1>0, <1>2, <1>3, <1>4, HasIs DEF Holds
<1>7. Has("columns")' \subseteq documents'
  BY <1>0, <1>2, <1>4, <1>5, HasIs
<1>8. \A owner \in Owners : /\ Has(owner)' \subseteq Has(owner) \cup Holds(owner, t)
                            /\ Has(owner)' \subseteq documents'
  BY <1>0, <1>4, <1>6, <1>7, Sides DEF FilingIInv
<1> QED
  BY <1>0, <1>1, <1>8, RowTidy

LEMMA WriteEmployerTidy ==
    ASSUME ProfilesIInv, FilingIInv, NEW h \in Requests, WriteEmployer(h)
    PROVE  Tidy(h)
<1> DEFINE t == task[h]
           u == task'[h]
           n == SavedEmployer(t)
<1>0. /\ t \in Task /\ t.op \in EmployerOp /\ UNCHANGED <<documents, papers, jobseeker>>
      /\ "none" \notin Docs /\ KindsKept(t)
  BY WriteEmployerDoes, DocumentsAssumption DEF ProfilesIInv, ProfilesTypeOK, files, FilingIInv
<1>2. \/ employer' = employer
      \/ employer' = n /\ n.logo \in documents \cup {"none"}
  BY WriteEmployerDoes
<1>3. n.logo \in {employer.logo, t.em.logo}
  BY <1>0, SavedEmployerIs
<1> HIDE DEF n
<1>4. /\ Has("papers")' = Has("papers") /\ Has("columns")' = Has("columns")
      /\ Has("employer")' = ({employer'.logo} \cap Docs) \cup FiledAs(EmployerKinds)
  BY <1>0 DEF Has, FiledAs
<1>5. \A owner \in Owners : Has(owner) \subseteq documents
  BY DEF FilingIInv
<1>6. Has("employer")' \subseteq Has("employer") \cup Holds("employer", t)
  BY <1>0, <1>2, <1>3, <1>4, HasIs DEF Holds
<1>7. Has("employer")' \subseteq documents'
  BY <1>0, <1>2, <1>4, <1>5, HasIs, Sides
<1>8. \A owner \in Owners : /\ Has(owner)' \subseteq Has(owner) \cup Holds(owner, t)
                            /\ Has(owner)' \subseteq documents'
  BY <1>0, <1>4, <1>5, <1>6, <1>7, Sides
<1>9. /\ KindsKept(u) /\ u.pc \notin {"insert", "file"}
      /\ \A owner \in Owners : Holds(owner, u) \subseteq Holds(owner, t)
  <2>1. ASSUME NEW pc \in {"list", "eligible"}, u = [t EXCEPT !.pc = pc]
        PROVE  GoesOn(u, t) /\ u.pc \notin {"insert", "file"}
    <3>1. Alike(u, t) /\ u.pc = pc
      BY <1>0, <2>1, PcAlike
    <3> QED
      BY <3>1 DEF GoesOn
  <2>2. CASE t.op = "uploadEmployerPaper" /\ u = [t EXCEPT !.pc = "upload"]
    <3>0. u = [t EXCEPT !.pc = "upload"] /\ t \in Task
      BY <1>0, <2>2
    <3>1. Alike(u, t) /\ u.pc = "upload"
      BY <3>0, PcAlike
    <3>2. GoesOn(u, t)
      BY <2>2, <3>1 DEF GoesOn, Alike
    <3> HIDE DEF t, u
    <3> QED
      BY <1>0, <3>1, <3>2, AlikeHolds
  <2>3. CASE t.op = "uploadLogo" /\ u = [t EXCEPT !.pc = "upload", !.em = t.outer]
    <3>1. /\ u.op = t.op /\ u.pc = "upload" /\ u.doc = t.doc /\ u.js = t.js /\ u.read = t.read
          /\ u.em = t.outer /\ u.outer = t.outer /\ u.kind = t.kind
      BY <1>0, <2>3 DEF Task
    <3> HIDE DEF t, u
    <3>2. KindsKept(u)
      BY <1>0, <2>3, <3>1 DEF KindsKept
    <3>3. \A owner \in Owners : Holds(owner, u) \subseteq Holds(owner, t)
      BY <3>1 DEF Holds
    <3> QED
      BY <3>1, <3>2, <3>3
  <2>4. CASE u = Rest
    BY <1>0, <2>4, RestHolds DEF Rest
  <2> QED
    BY <1>0, <2>1, <2>2, <2>3, <2>4, WriteEmployerDoes, AlikeHolds
<1>10. NewPaper(h)' /\ ~On(h, "file")'
  BY <1>9 DEF NewPaper, On
<1> QED
  BY <1>0, <1>8, <1>9, <1>10 DEF Tidy

LEMMA DeletionOwner ==
    ASSUME NEW t, t.op \in OpsAt("find")
    PROVE  /\ \E owner \in Owners : t.op \in OperationsOn(owner)
           /\ t.op # "uploadBatch"
BY Stages, Sides DEF ColumnOp, PaperOp, EmployerOp

LEMMA DeleteFileTidy ==
    ASSUME ProfilesIInv, FilingIInv, NEW h \in Requests, DeleteFile(h)
    PROVE  Tidy(h) /\ task'[h] = [task[h] EXCEPT !.pc = "row"]
<1>0. /\ task[h] \in Task /\ task[h].op \in OpsAt("find") /\ task[h].op \in OpsAt("row")
      /\ UNCHANGED <<documents, papers, jobseeker, employer>>
  BY OnAt, Stages DEF DeleteFile
<1>1. task'[h] = [task[h] EXCEPT !.pc = "row"]
  BY <1>0, ProceedGoes DEF DeleteFile
<1>2. Alike(task'[h], task[h]) /\ task'[h].pc = "row"
  BY <1>0, <1>1, PcAlike
<1>3. GoesOn(task'[h], task[h])
  BY <1>2 DEF GoesOn
<1>4. \A owner : Has(owner)' = Has(owner)
  BY <1>0 DEF Has, FiledAs
<1> QED
  BY <1>0, <1>1, <1>2, <1>3, <1>4, RowTidy DEF FilingIInv

LEMMA RemoveDocumentTidy ==
    ASSUME ProfilesIInv, FilingIInv, NEW h \in Requests, RemoveDocument(h)
    PROVE  Tidy(h)
<1> DEFINE t == task[h]
<1>0. /\ t.op \in OpsAt("find") /\ AfterDelete(h)
      /\ documents' = documents \ {t.doc} /\ documents \subseteq Docs
      /\ \A d \in Docs : papers'[d] = IF d = t.doc THEN NoPaper ELSE papers[d]
      /\ jobseeker'.cv = SetNull(jobseeker.cv, t.doc)
      /\ jobseeker'.picture = SetNull(jobseeker.picture, t.doc)
      /\ employer'.logo = SetNull(employer.logo, t.doc)
      /\ "none" \notin Docs /\ NoPaper.kind \notin JobseekerKinds \cup EmployerKinds
  BY RemoveDocumentDoes, Kinds, DocumentsAssumption DEF ProfilesIInv, ProfilesTypeOK, NoPaper
<1>1. PICK own \in Owners : t.op \in OperationsOn(own)
  BY <1>0, DeletionOwner
<1>2. \A d \in Docs : d = t.doc => d \in Holds(own, t)
  BY <1>1 DEF Holds
<1>3. GoesOn(task'[h], t) /\ task'[h].pc \notin {"insert", "file"}
  BY <1>0, AfterDeleteOn
<1> HIDE DEF t
<1>4. /\ Has("columns")' = {jobseeker'.cv, jobseeker'.picture} \cap Docs
      /\ Has("papers")' = {d \in Docs : papers'[d].kind \in JobseekerKinds}
      /\ Has("employer")' = ({employer'.logo} \cap Docs)
                              \cup {d \in Docs : papers'[d].kind \in EmployerKinds}
  BY DEF Has, FiledAs
<1>5. /\ Has("columns") = {jobseeker.cv, jobseeker.picture} \cap Docs
      /\ Has("papers") = {d \in Docs : papers[d].kind \in JobseekerKinds}
      /\ Has("employer") = ({employer.logo} \cap Docs)
                              \cup {d \in Docs : papers[d].kind \in EmployerKinds}
  BY DEF Has, FiledAs
<1>6. Has("columns")' \subseteq Has("columns") \ {t.doc}
  BY <1>0, <1>4, <1>5 DEF SetNull
<1>7. Has("papers")' \subseteq Has("papers") \ {t.doc}
  BY <1>0, <1>4, <1>5
<1>8. Has("employer")' \subseteq Has("employer") \ {t.doc}
  BY <1>0, <1>4, <1>5 DEF SetNull
<1>9. \A owner \in Owners : Has(owner)' \subseteq Has(owner) \ {t.doc}
  BY <1>6, <1>7, <1>8, Sides
<1>10. \A owner \in Owners : Has(owner)' \subseteq documents'
  BY <1>0, <1>9 DEF FilingIInv
<1>11. \A d \in documents \ documents' : \E owner \in Owners : d \in Holds(owner, t)
  BY <1>0, <1>1, <1>2
<1>12. \A d \in Docs : papers'[d] # papers[d] => \E owner \in Owners : d \in Holds(owner, t)
  BY <1>0, <1>1, <1>2
<1> QED
  BY <1>3, <1>9, <1>10, <1>11, <1>12, RowTidy DEF t

LEMMA InsertDocumentTidy ==
    ASSUME ProfilesIInv, FilingIInv, NEW h \in Requests, InsertDocument(h)
    PROVE  Tidy(h)
<1> DEFINE t == task[h]
           u == task'[h]
<1>0. /\ t \in Task /\ t.pc = "insert" /\ t.op \in UploadOp /\ t.doc \in Docs
      /\ documents' = documents \cup {t.doc}
      /\ UNCHANGED <<papers, jobseeker, employer>>
      /\ t.js \in JobseekerProfile /\ t.em \in EmployerProfile
      /\ KindsKept(t) /\ NewPaper(h)
      /\ task \in [Requests -> Task]
      /\ \A g \in Requests \ {h} : task'[g] = task[g]
  BY InsertDocumentDoes, Fields DEF ProfilesIInv, ProfilesTypeOK, OnCourse, FilingIInv, Goes
<1>1. \A owner : Has(owner)' = Has(owner)
  BY <1>0 DEF Has, FiledAs
<1>2. /\ u.op = t.op /\ u.doc = t.doc /\ u.kind = t.kind /\ u.read = t.read
      /\ u.outer = t.outer /\ u.pc \in {"reload", "file"}
      /\ u.pc = "file" => t.op \in OpsAt("file")
      /\ u.js.cv \in {t.js.cv} \cup {d \in {t.doc} : t.op = "uploadCv"}
      /\ u.js.picture \in {t.js.picture} \cup {d \in {t.doc} : t.op = "uploadPicture"}
      /\ u.em.logo \in {t.em.logo} \cup {d \in {t.doc} : t.op = "uploadLogo"}
  <2>1. CASE /\ t.op = "uploadCv"
             /\ u = [t EXCEPT !.pc = "reload", !.js = [t.js EXCEPT !.cv = t.doc]]
    <3> DEFINE js == [t.js EXCEPT !.cv = t.doc]
    <3>1. js.cv = t.doc /\ js.picture = t.js.picture
      BY <1>0 DEF JobseekerProfile
    <3> HIDE DEF js
    <3>2. /\ u.op = t.op /\ u.doc = t.doc /\ u.kind = t.kind /\ u.read = t.read
          /\ u.outer = t.outer /\ u.pc = "reload" /\ u.js = js /\ u.em = t.em
      BY <1>0, <2>1 DEF Task, js
    <3> QED
      BY <2>1, <3>1, <3>2
  <2>2. CASE /\ t.op = "uploadPicture"
             /\ u = [t EXCEPT !.pc = "reload", !.js = [t.js EXCEPT !.picture = t.doc]]
    <3> DEFINE js == [t.js EXCEPT !.picture = t.doc]
    <3>1. js.picture = t.doc /\ js.cv = t.js.cv
      BY <1>0 DEF JobseekerProfile
    <3> HIDE DEF js
    <3>2. /\ u.op = t.op /\ u.doc = t.doc /\ u.kind = t.kind /\ u.read = t.read
          /\ u.outer = t.outer /\ u.pc = "reload" /\ u.js = js /\ u.em = t.em
      BY <1>0, <2>2 DEF Task, js
    <3> QED
      BY <2>2, <3>1, <3>2
  <2>3. CASE /\ t.op = "uploadLogo"
             /\ u = [t EXCEPT !.pc = "reload", !.em = [t.em EXCEPT !.logo = t.doc]]
    <3> DEFINE em == [t.em EXCEPT !.logo = t.doc]
    <3>1. em.logo = t.doc
      BY <1>0 DEF EmployerProfile
    <3> HIDE DEF em
    <3>2. /\ u.op = t.op /\ u.doc = t.doc /\ u.kind = t.kind /\ u.read = t.read
          /\ u.outer = t.outer /\ u.pc = "reload" /\ u.js = t.js /\ u.em = em
      BY <1>0, <2>3 DEF Task, em
    <3> QED
      BY <2>3, <3>1, <3>2
  <2>4. CASE t.op \in OpsAt("file") /\ u = [t EXCEPT !.pc = "file"]
    <3>1. /\ u.op = t.op /\ u.doc = t.doc /\ u.kind = t.kind /\ u.read = t.read
          /\ u.outer = t.outer /\ u.pc = "file" /\ u.js = t.js /\ u.em = t.em
      BY <1>0, <2>4 DEF Task
    <3> QED
      BY <2>4, <3>1
  <2> QED
    BY <2>1, <2>2, <2>3, <2>4, InsertDocumentDoes
<1>3. UNCHANGED papers /\ documents \subseteq documents' /\ t.doc \in documents'
  BY <1>0
<1> HIDE DEF t, u
<1>4. \A owner \in Owners : Holds(owner, u) \subseteq Holds(owner, t)
  <2> SUFFICES ASSUME NEW owner \in Owners, NEW d \in Holds(owner, u) PROVE d \in Holds(owner, t)
    OBVIOUS
  <2>1. d \in Docs
    BY DEF Holds
  <2>2. CASE owner = "columns"
    BY <1>2, <2>1, <2>2, Sides DEF Holds
  <2>3. CASE owner = "papers"
    BY <1>2, <2>1, <2>3, Sides DEF Holds
  <2>4. CASE owner = "employer"
    BY <1>2, <2>1, <2>4, Sides DEF Holds, EmployerOp
  <2> QED
    BY <2>2, <2>3, <2>4, Sides
<1>5. KindsKept(u)
  BY <1>0, <1>2 DEF KindsKept
<1>6. NewPaper(h)'
  BY <1>0, <1>1, <1>2 DEF NewPaper, t, u
<1>7. On(h, "file")' => u.doc \in documents'
  BY <1>2, <1>3
<1>8. \A owner \in Owners : Has(owner)' \subseteq documents'
  BY <1>1, <1>3 DEF FilingIInv
<1>9. documents \ documents' = {}
  BY <1>3
<1> QED
  BY <1>1, <1>3, <1>4, <1>5, <1>6, <1>7, <1>8, <1>9 DEF Tidy, t, u

LEMMA UploadFileKeeps ==
    ASSUME ProfilesIInv, FilingIInv, NEW h \in Requests, NEW d \in Docs, UploadFile(h, d)
    PROVE  FilingIInv'
<1> DEFINE t == task[h]
           u == task'[h]
<1>0. /\ t \in Task /\ t.pc = "upload" /\ t.op \in UploadOp /\ KindsKept(t)
      /\ u = [t EXCEPT !.pc = "insert", !.doc = d]
      /\ UNCHANGED <<documents, papers, jobseeker, employer>>
      /\ task \in [Requests -> Task] /\ Fresh(h, d)
      /\ \A g \in Requests \ {h} : task'[g] = task[g]
  BY UploadFileDoes DEF ProfilesIInv, ProfilesTypeOK, FilingIInv, Goes, UploadFile
<1>1. \A owner : Has(owner)' = Has(owner)
  BY <1>0 DEF Has, FiledAs
<1>2. /\ u.op = t.op /\ u.doc = d /\ u.kind = t.kind /\ u.read = t.read /\ u.js = t.js
      /\ u.em = t.em /\ u.outer = t.outer /\ u.pc = "insert"
  BY <1>0 DEF Task
<1>3. /\ \A g \in Requests : /\ task[g].read[d] = NoPaper
                             /\ d \notin {task[g].js.cv, task[g].js.picture,
                                          task[g].em.logo, task[g].outer.logo}
                             /\ g # h => task[g].doc # d
      /\ d \notin documents
  BY <1>0 DEF Fresh
<1>4. \A owner \in Owners : d \notin Has(owner) /\ Has(owner) \subseteq documents
  BY <1>3 DEF FilingIInv
<1>5. \A owner \in Owners, g \in Requests \ {h} : d \notin Holds(owner, task[g])
  BY <1>3 DEF Holds
<1>6. t.read[d] = NoPaper /\ d \notin {t.js.cv, t.js.picture, t.em.logo, t.outer.logo}
  BY <1>3
<1> HIDE DEF t, u
<1>7. /\ \A owner \in Owners : Holds(owner, u) \subseteq Holds(owner, t) \cup {d}
      /\ \A owner \in Owners : d \in Holds(owner, u) => t.op \in OperationsOn(owner)
  BY <1>2, <1>6 DEF Holds
<1>8. \A owner, other \in Owners :
        t.op \in OperationsOn(owner) /\ t.op \in OperationsOn(other) => owner = other
  BY Sides DEF EmployerOp, PaperOp
<1>9. KindsKept(u)
  BY <1>0, <1>2 DEF KindsKept
<1>10. ASSUME NEW owner \in Owners, NEW other \in Owners, owner # other
       PROVE  /\ Has(owner)' \cap Has(other)' = {}
              /\ \A f \in Requests : Holds(owner, task'[f]) \cap Has(other)' = {}
              /\ \A f, g \in Requests : Holds(owner, task'[f]) \cap Holds(other, task'[g]) = {}
  <2>1. /\ Has(owner) \cap Has(other) = {}
        /\ \A f \in Requests : Holds(owner, task[f]) \cap Has(other) = {}
        /\ \A f, g \in Requests : Holds(owner, task[f]) \cap Holds(other, task[g]) = {}
    BY <1>10 DEF FilingIInv
  <2>2. \A f \in Requests : /\ Holds(owner, task'[f]) \subseteq Holds(owner, task[f]) \cup {d}
                            /\ Holds(other, task'[f]) \subseteq Holds(other, task[f]) \cup {d}
                            /\ d \in Holds(owner, task'[f]) => f = h /\ t.op \in OperationsOn(owner)
                            /\ d \in Holds(other, task'[f]) => f = h /\ t.op \in OperationsOn(other)
    BY <1>0, <1>5, <1>7 DEF t, u
  <2> QED
    BY <1>1, <1>4, <1>8, <1>10, <2>1, <2>2
<1>11. ASSUME NEW g \in Requests
       PROVE  KindsKept(task'[g]) /\ NewPaper(g)' /\ (On(g, "file")' => task'[g].doc \in documents')
  <2>1. CASE g = h
    BY <1>0, <1>1, <1>2, <1>4, <1>5, <1>9, <2>1 DEF NewPaper, On, u
  <2>2. CASE g # h
    <3>1. /\ task'[g] = task[g] /\ KindsKept(task[g]) /\ NewPaper(g) /\ task[g].doc # d
          /\ task[g].pc = "file" => task[g].doc \in documents
      BY <1>0, <1>3, <2>2 DEF FilingIInv, On
    <3>2. ASSUME task[g].pc \in {"insert", "file"}, NEW owner \in Owners
          PROVE  /\ task[g].doc \notin Has(owner)'
                 /\ \A f \in Requests \ {g} : task[g].doc \notin Holds(owner, task'[f])
      BY <1>0, <1>1, <1>7, <2>2, <3>1, <3>2 DEF NewPaper, t, u
    <3>3. NewPaper(g)'
      BY <3>1, <3>2 DEF NewPaper
    <3> QED
      BY <1>0, <3>1, <3>3 DEF On
  <2> QED
    BY <2>1, <2>2
<1> QED
  BY <1>0, <1>1, <1>4, <1>10, <1>11 DEF FilingIInv

LEMMA SkillsTidy ==
    ASSUME ProfilesIInv, FilingIInv, NEW h \in Requests,
           DeleteSkillLinks(h) \/ InsertActiveSkill(h) \/ AttachSkills(h)
    PROVE  Tidy(h)
<1>0. /\ task[h] \in Task /\ UNCHANGED <<files, jobseeker, employer>>
      /\ task[h].op = "updateProfile"
  BY SkillStepsGo DEF ProfilesIInv, ProfilesTypeOK
<1>1. CASE task'[h] = Rest
  BY <1>0, <1>1, QuietStep DEF GoesOn, Rest
<1>2. ASSUME NEW pc \in {"skill", "link", "reload"}, task'[h] = [task[h] EXCEPT !.pc = pc]
      PROVE  Tidy(h)
  <2>1. Alike(task'[h], task[h]) /\ task'[h].pc = pc
    BY <1>0, <1>2, PcAlike
  <2>2. GoesOn(task'[h], task[h])
    BY <2>1 DEF GoesOn
  <2> QED
    BY <1>0, <2>1, <2>2, QuietStep
<1> QED
  BY <1>1, <1>2, SkillStepsGo

\* A request comes to its next step alone; all but the uploads are tidy.
LEMMA StepsTidy ==
    ASSUME ProfilesIInv, FilingIInv, NEW h \in Requests, ProfilesStep(h),
           ~\E d \in Docs : UploadFile(h, d)
    PROVE  Tidy(h)
<1>1. CASE Reads(h)
  BY <1>1, ReadsTidy
<1>2. CASE \/ RemoveExisting(h) \/ RemoveEmployerPaper(h)
           \/ InsertJobseekerPaper(h) \/ InsertEmployerPaper(h)
  BY <1>2, PaperStepsTidy
<1>3. CASE SaveJobseekerPapers(h) \/ SaveEmployerPapers(h)
  BY <1>3, SavePapersTidy
<1>4. CASE WriteJobseeker(h)
  BY <1>4, WriteJobseekerTidy
<1>5. CASE WriteEmployer(h)
  BY <1>5, WriteEmployerTidy
<1>6. CASE DeleteSkillLinks(h) \/ InsertActiveSkill(h) \/ AttachSkills(h)
  BY <1>6, SkillsTidy
<1>7. CASE DeleteFile(h)
  BY <1>7, DeleteFileTidy
<1>8. CASE RemoveDocument(h)
  BY <1>8, RemoveDocumentTidy
<1>9. CASE InsertDocument(h)
  BY <1>9, InsertDocumentTidy
<1> QED
  BY <1>1, <1>2, <1>3, <1>4, <1>5, <1>6, <1>7, <1>8, <1>9
     DEF ProfilesStep, JobseekerProfileStep, EmployerProfileStep, StorageStep, Reads

LEMMA FailTidy ==
    ASSUME ProfilesIInv, FilingIInv, NEW h \in Requests, CallFails(h)
    PROVE  Tidy(h) /\ task'[h] = Rest
BY FinishGoes, QuietStep DEF CallFails, GoesOn, Rest

\* Nobody else's request changes with a step.
LEMMA OthersStay ==
    ASSUME ProfilesIInv, NEW h \in Requests,
           \/ JobseekerController(h) \/ JobseekerDecisions(h)
           \/ EmployerController(h) \/ EmployerDecisions(h)
           \/ ProfilesStep(h) \/ CallFails(h)
    PROVE  /\ \A g \in Requests \ {h} : task'[g] = task[g]
           /\ Goes(h) \/ \E d \in Docs : UploadFile(h, d)
<1>1. CASE \/ JobseekerController(h) \/ JobseekerDecisions(h)
           \/ EmployerController(h) \/ EmployerDecisions(h)
  BY <1>1, JobseekerControllerGoes, JobseekerDecisionsGo, EmployerControllerGoes,
     EmployerDecisionsGo DEF Goes, ProfilesIInv, ProfilesTypeOK
<1>2. CASE ProfilesStep(h) \/ CallFails(h)
  <2>1. ProfilesIInv' /\ \A g \in Requests \ {h} : task'[g] = task[g]
    BY <1>2, StepsAreOwn, StepKeepsTypes, TypesKept DEF ProfilesNext
  <2>2. task' \in [Requests -> Task] /\ OnCourse(task'[h])
    BY <2>1 DEF ProfilesIInv, ProfilesTypeOK
  <2> QED
    BY <2>1, <2>2 DEF Goes, ProfilesIInv, ProfilesTypeOK
<1> QED
  BY <1>1, <1>2

LEMMA FilingInitially == ProfilesInit => FilingIInv
<1> SUFFICES ASSUME ProfilesInit PROVE FilingIInv
  OBVIOUS
<1>1. /\ jobseeker.cv = "none" /\ jobseeker.picture = "none" /\ employer.logo = "none"
      /\ \A d \in Docs : papers[d].kind = "none"
      /\ "none" \notin Docs \cup JobseekerKinds \cup EmployerKinds
  BY Kinds, DocumentsAssumption DEF ProfilesInit, NewJobseeker, NewEmployer, NoPaper
<1>2. Has("columns") = {} /\ Has("papers") = {} /\ Has("employer") = {}
  BY <1>1 DEF Has, FiledAs
<1>3. \A owner \in Owners : Has(owner) = {}
  BY <1>2, Sides
<1>4. \A h \in Requests : task[h] = Rest
  BY DEF ProfilesInit
<1>5. \A h \in Requests : task[h].pc = "idle"
  BY <1>4 DEF Rest
<1> QED
  BY <1>3, <1>4, <1>5, RestHolds DEF FilingIInv, NewPaper, On

LEMMA FilingKept ==
    ProfilesIInv /\ FilingIInv /\ [ProfilesNext]_profileVars => FilingIInv'
<1> SUFFICES ASSUME ProfilesIInv, FilingIInv, [ProfilesNext]_profileVars PROVE FilingIInv'
  OBVIOUS
<1>1. CASE UNCHANGED profileVars \/ CreateSkill \/ DeleteSkill
  <2>1. UNCHANGED <<documents, papers, jobseeker, employer, task>>
    BY <1>1 DEF profileVars, CreateSkill, DeleteSkill, files
  <2>2. \A owner : Has(owner)' = Has(owner)
    BY <2>1 DEF Has, FiledAs
  <2> QED
    BY <2>1, <2>2 DEF FilingIInv, NewPaper, On
<1>2. ASSUME NEW h \in Requests, JobseekerController(h) \/ JobseekerDecisions(h)
                                 \/ EmployerController(h) \/ EmployerDecisions(h)
      PROVE  FilingIInv'
  <2>1. Goes(h) /\ UNCHANGED <<files, jobseeker, employer>>
    BY <1>2, JobseekerControllerGoes, JobseekerDecisionsGo, EmployerControllerGoes,
       EmployerDecisionsGo
  <2>2. PICK t : Receive(h, t) /\ Arriving(t)
    BY <1>2, JobseekerArrivesSole, DecisionArrivesSole, EmployerArrivesSole DEF Arrives
  <2>3. Tidy(h)
    BY <2>1, <2>2, ArrivalTidy
  <2> QED
    BY <2>1, <2>3, TidyKeeps
<1>3. ASSUME NEW h \in Requests, ProfilesStep(h) \/ CallFails(h) PROVE FilingIInv'
  <2>1. CASE \E d \in Docs : UploadFile(h, d)
    BY <2>1, UploadFileKeeps
  <2>2. CASE ~\E d \in Docs : UploadFile(h, d)
    BY <1>3, <2>2, OthersStay, StepsTidy, FailTidy, TidyKeeps
  <2> QED
    BY <2>1, <2>2
<1> QED
  BY <1>1, <1>2, <1>3 DEF ProfilesNext

\* However requests overlap, the job seeker's CV and picture, his verification rows and
\* the employer each have documents of their own, and no request of one of them ever
\* files, deletes or refers to a document of another (StorageService and its callers in
\* JobseekerService, EmployerService and EmployerVerificationService).
THEOREM FilingInvariance == ProfilesSpec => []FilingIInv
BY FilingInitially, FilingKept, TypesInitially, TypesKept, PTL DEF ProfilesSpec

-----------------------------------------------------------------------------
\* An approved job seeker is as reviewed (ReviewIInv), while one request at a time is
\* about him and those about the employer overlap it.

\* A request stays with its operation, but for the auto verification of an employer.
LEMMA OpsStay ==
    ASSUME ProfilesIInv, FilingIInv, NEW h \in Requests, ProfilesStep(h) \/ CallFails(h)
    PROVE  \/ task'[h].op \in {task[h].op, "none"}
           \/ task[h].op \in EmployerOp /\ task'[h].op \in EmployerOp
<1> DEFINE t == task[h]
           u == task'[h]
<1>0. t \in Task
  BY DEF ProfilesIInv, ProfilesTypeOK
<1>a. Rest.op = "none"
  BY DEF Rest
<1>b. ASSUME GoesOn(u, t) PROVE u.op \in {t.op, "none"}
  BY <1>a, <1>b DEF GoesOn, Alike
<1>c. ASSUME NEW pc, u = [t EXCEPT !.pc = pc] PROVE u.op = t.op
  BY <1>0, <1>c DEF Task
<1>1. CASE Reads(h)
  <2> SUFFICES u.op \in {t.op, "none"} \/ (t.op \in EmployerOp /\ u.op \in EmployerOp)
    OBVIOUS
  <2>1. ReadsOnly(h, t, u)
    BY <1>1, ReadsDo
  <2>2. CASE AfterDelete(h) /\ t.op \in OpsAt("find")
    BY <1>b, <2>2, AfterDeleteOn
  <2>3. CASE u = [Loaded EXCEPT !.op = "autoVerify", !.pc = "reload",
                                !.em.verification = "APPROVED", !.status = "APPROVED"]
             /\ t.op \in EmployerOp
    BY <2>3, LoadedIs DEF Task, EmployerOp
  <2>4. CASE u = [t EXCEPT !.pc = "reload", !.js.status = "APPROVED"]
    BY <1>0, <2>4 DEF Task
  <2>5. ASSUME NEW x, NEW y, u = [t EXCEPT !.pc = "find", !.doc = x, !.js = y]
        PROVE  u.op = t.op
    BY <1>0, <2>5 DEF Task
  <2>6. ASSUME NEW x, NEW y, NEW z, u = [t EXCEPT !.pc = "find", !.doc = x, !.outer = y, !.em = z]
        PROVE  u.op = t.op
    BY <1>0, <2>6 DEF Task
  <2>7. ASSUME NEW x, \/ u = [t EXCEPT !.pc = "remove", !.doc = x]
                      \/ u = [t EXCEPT !.pc = "upload", !.kind = x]
                      \/ u = [t EXCEPT !.pc = "savePapers", !.read = x]
                      \/ u = [t EXCEPT !.pc = "write", !.jsSnap = x]
                      \/ u = [t EXCEPT !.pc = "write", !.emSnap = x]
        PROVE  u.op = t.op
    BY <1>0, <2>7 DEF Task
  <2> HIDE DEF t, u
  <2>8. ASSUME NEW c \in {"cv", "picture"},
               u = [t EXCEPT !.pc = "find", !.doc = jobseeker[c], !.js = [t.js EXCEPT ![c] = "none"]]
        PROVE  u.op = t.op
    BY <2>5, <2>8, ZenonT(60)
  <2>9. ASSUME u = [t EXCEPT !.pc = "find", !.doc = employer.logo,
                             !.outer = [t.em EXCEPT !.logo = "none"],
                             !.em = [employer EXCEPT !.logo = "unset"]]
        PROVE  u.op = t.op
    BY <2>6, <2>9, ZenonT(60)
  <2>10. ASSUME \/ \E d \in FiledAs({t.kind}) : u = [t EXCEPT !.pc = "remove", !.doc = d]
                \/ \E k \in EmployerKinds : u = [t EXCEPT !.pc = "upload", !.kind = k]
                \/ u = [t EXCEPT !.pc = "write", !.jsSnap = jobseeker]
                \/ u = [t EXCEPT !.pc = "write", !.emSnap = employer]
                \/ \E kinds \in {JobseekerKinds, EmployerKinds} :
                     u = [t EXCEPT !.pc = "savePapers",
                                   !.read = [d \in Docs |-> IF papers[d].kind \in kinds
                                                            THEN papers[d] ELSE NoPaper]]
         PROVE  u.op = t.op
    BY <2>7, <2>10, ZenonT(60)
  <2>11. ASSUME \/ u = [t EXCEPT !.pc = "hasProof"] \/ u = [t EXCEPT !.pc = "load"]
                \/ u = [t EXCEPT !.pc = "reload"] \/ u = [t EXCEPT !.pc = "upload"]
                \/ u = [t EXCEPT !.pc = "object"]
         PROVE  u.op = t.op
    BY <1>c, <2>11, ZenonT(60)
  <2> QED
    BY <1>a, <2>1, <2>2, <2>3, <2>4, <2>8, <2>9, <2>10, <2>11, ZenonT(120) DEF ReadsOnly
<1>2. CASE \/ RemoveExisting(h) \/ RemoveEmployerPaper(h)
           \/ InsertJobseekerPaper(h) \/ InsertEmployerPaper(h)
  BY <1>2, <1>b, PaperStepsTidy
<1>3. CASE SaveJobseekerPapers(h) \/ SaveEmployerPapers(h)
  BY <1>3, <1>a, <1>c, SavePapersDoes
<1>4. CASE WriteJobseeker(h)
  BY <1>4, <1>a, <1>c, WriteJobseekerDoes
<1>5. CASE WriteEmployer(h)
  <2>1. ASSUME u = [t EXCEPT !.pc = "upload", !.em = t.outer] PROVE u.op = t.op
    BY <1>0, <2>1 DEF Task
  <2> QED
    BY <1>5, <1>a, <1>c, <2>1, WriteEmployerDoes
<1>6. CASE DeleteSkillLinks(h) \/ InsertActiveSkill(h) \/ AttachSkills(h)
  BY <1>6, <1>a, <1>c, SkillStepsGo
<1>7. CASE DeleteFile(h)
  BY <1>7, <1>c, DeleteFileTidy
<1>8. CASE RemoveDocument(h)
  BY <1>8, <1>b, RemoveDocumentDoes, AfterDeleteOn
<1>9. CASE InsertDocument(h)
  <2>1. ASSUME NEW x, \/ u = [t EXCEPT !.pc = "reload", !.js = x]
                      \/ u = [t EXCEPT !.pc = "reload", !.em = x]
        PROVE  u.op = t.op
    BY <1>0, <2>1 DEF Task
  <2> HIDE DEF t, u
  <2> QED
    BY <1>9, <1>c, <2>1, InsertDocumentDoes DEF t, u
<1>10. ASSUME NEW d \in Docs, UploadFile(h, d) PROVE u.op = t.op
  <2>1. u = [t EXCEPT !.pc = "insert", !.doc = d]
    BY <1>10, UploadFileDoes
  <2> QED
    BY <1>0, <2>1 DEF Task
<1>11. CASE CallFails(h)
  BY <1>11, <1>a, FailTidy
<1> QED
  BY <1>1, <1>2, <1>3, <1>4, <1>5, <1>6, <1>7, <1>8, <1>9, <1>10, <1>11
     DEF ProfilesStep, JobseekerProfileStep, EmployerProfileStep, StorageStep, Reads

\* Only a save of the profile changes what the job seeker says or is.
LEMMA SaysStay ==
    ASSUME ProfilesIInv, NEW h \in Requests, ProfilesStep(h) \/ CallFails(h), ~WriteJobseeker(h)
    PROVE  /\ jobseeker'.status = jobseeker.status /\ jobseeker'.text = jobseeker.text
           /\ reviewed' = reviewed
<1>1. CASE Reads(h)
  BY <1>1, ReadsGo DEF past
<1>2. CASE \/ RemoveExisting(h) \/ RemoveEmployerPaper(h)
           \/ InsertJobseekerPaper(h) \/ InsertEmployerPaper(h)
           \/ DeleteFile(h) \/ InsertDocument(h) \/ \E d \in Docs : UploadFile(h, d)
           \/ DeleteSkillLinks(h) \/ InsertActiveSkill(h) \/ AttachSkills(h)
  BY <1>2 DEF RemoveExisting, RemoveEmployerPaper, InsertJobseekerPaper, InsertEmployerPaper,
              DeleteFile, InsertDocument, UploadFile, DeleteSkillLinks, InsertActiveSkill,
              AttachSkills, past
<1>3. CASE SaveJobseekerPapers(h) \/ SaveEmployerPapers(h)
  BY <1>3, SavePapersDoes DEF past
<1>4. CASE WriteEmployer(h)
  BY <1>4, WriteEmployerDoes DEF past
<1>5. CASE RemoveDocument(h)
  BY <1>5, RemoveDocumentDoes DEF past
<1>6. CASE CallFails(h)
  BY <1>6 DEF CallFails
<1> QED
  BY <1>1, <1>2, <1>3, <1>4, <1>5, <1>6
     DEF ProfilesStep, JobseekerProfileStep, EmployerProfileStep, StorageStep, Reads

\* What a step leaves alone that keeps an approval as it is.
Spares ==
    /\ jobseeker'.status = jobseeker.status /\ jobseeker'.text = jobseeker.text
    /\ reviewed' = reviewed
    /\ \A d \in Docs :
         papers[d].kind \in JobseekerKinds \/ papers'[d].kind \in JobseekerKinds =>
           papers'[d].kind = papers[d].kind

LEMMA FiledStay ==
    ASSUME Spares, NEW kind \in JobseekerKinds
    PROVE  FiledAs({kind})' = FiledAs({kind})
BY DEF Spares, FiledAs

LEMMA ReviewAlone ==
    ASSUME ReviewIInv, NEW h \in Requests, Spares,
           \A g \in Requests \ {h} : task'[g] = task[g],
           task'[h].op \in JobseekerOp => ReviewOK(task'[h])
    PROVE  ReviewIInv'
<1>1. \A k \in JobseekerKinds : FiledAs({k})' = FiledAs({k})
  BY FiledStay
<1>2. "ID_DOCUMENT" \in JobseekerKinds /\ "PROOF_OF_ADDRESS" \in JobseekerKinds
  BY DEF JobseekerKinds
<1>3. ApprovedAsReviewed'
  BY <1>1 DEF ReviewIInv, ApprovedAsReviewed, Spares
<1>4. ASSUME NEW g \in Requests, task'[g].op \in JobseekerOp PROVE ReviewOK(task[g])'
  <2>1. ReviewOK(task'[g])
    BY <1>4 DEF ReviewIInv
  <2> QED
    BY <1>1, <1>2, <2>1 DEF ReviewOK, Spares
<1> QED
  BY <1>3, <1>4 DEF ReviewIInv

\* A step about the employer leaves the job seeker's rows alone, whatever he is doing.
LEMMA EmployerSpares ==
    ASSUME ProfilesIInv, FilingIInv, NEW h \in Requests, task[h].op \notin JobseekerOp,
           ProfilesStep(h) \/ CallFails(h)
    PROVE  Spares
<1>1. ~WriteJobseeker(h)
  BY DEF WriteJobseeker
<1>2. CASE \E d \in Docs : UploadFile(h, d)
  BY <1>1, <1>2, SaysStay, UploadFileDoes DEF Spares
<1>3. CASE Tidy(h)
  <2>1. Holds("papers", task[h]) = {} /\ Holds("columns", task[h]) = {}
    BY Sides DEF Holds, JobseekerOp
  <2>2. ASSUME NEW d \in Docs, papers'[d] # papers[d]
        PROVE  papers[d].kind \notin JobseekerKinds /\ papers'[d].kind \notin JobseekerKinds
    <3>1. d \in Holds("employer", task[h])
      BY <1>3, <2>1, <2>2, Sides DEF Tidy
    <3>2. d \notin Has("papers")
      BY <3>1, Sides DEF FilingIInv
    <3>3. Has("papers")' \subseteq Has("papers")
      BY <1>3, <2>1, Sides DEF Tidy
    <3>4. d \notin Has("papers")'
      BY <3>2, <3>3
    <3> QED
      BY <3>2, <3>4 DEF Has, FiledAs
  <2> QED
    BY <1>1, <2>2, SaysStay DEF Spares
<1> QED
  BY <1>2, <1>3, StepsTidy, FailTidy

LEMMA EmployerStepKeeps ==
    ASSUME ProfilesIInv, FilingIInv, ReviewIInv, NEW h \in Requests,
           task[h].op \notin JobseekerOp, ProfilesStep(h) \/ CallFails(h)
    PROVE  ReviewIInv'
<1>1. task'[h].op \notin JobseekerOp
  BY OpsStay, Sides
<1> QED
  BY <1>1, EmployerSpares, OthersStay, ReviewAlone

\* A step that goes on with the request, and comes to no step that asks for more.
LEMMA ReviewOn ==
    ASSUME NEW t, NEW u, ReviewOK(t), u.op = t.op,
           u.js.status = t.js.status, u.js.text = t.js.text, u.read = t.read,
           u.pc \notin {"write", "savePapers"},
           t.op = "approveJobseeker" => u.pc \notin {"hasProof", "reload"}
    PROVE  ReviewOK(u)
BY DEF ReviewOK

LEMMA AlikeReview ==
    ASSUME NEW t \in Task, NEW pc, ReviewOK(t), pc \notin {"write", "savePapers"},
           t.op = "approveJobseeker" => pc \notin {"hasProof", "reload"}
    PROVE  ReviewOK([t EXCEPT !.pc = pc])
<1> DEFINE u == [t EXCEPT !.pc = pc]
<1>1. u.op = t.op /\ u.js = t.js /\ u.read = t.read /\ u.pc = pc
  BY DEF Task
<1> HIDE DEF u
<1>2. ReviewOK(u)
  BY <1>1, ReviewOn
<1> QED
  BY <1>2 DEF u

\* What a step of the job seeker reads keeps the request right.
LEMMA ReadsReview ==
    ASSUME ProfilesIInv, ReviewIInv, NEW h \in Requests, Reads(h),
           task[h].op \in JobseekerOp, task'[h].op \in JobseekerOp
    PROVE  ReviewOK(task'[h])
<1> DEFINE t == task[h]
           u == task'[h]
<1>0. /\ t \in Task /\ ReviewOK(t) /\ t.op \in JobseekerOp /\ u.op \in JobseekerOp
      /\ t.js \in JobseekerProfile
  BY Fields DEF ProfilesIInv, ProfilesTypeOK, ReviewIInv
<1>1. ReadsOnly(h, t, u)
  BY ReadsDo
<1> SUFFICES ReviewOK(u)
  OBVIOUS
<1>2. u # Rest /\ t.op \notin EmployerOp
  BY <1>0, Sides DEF Rest
<1>3. CASE AfterDelete(h) /\ t.op \in OpsAt("find")
  <2>1. t.op # "approveJobseeker"
    BY <1>3, Stages DEF ColumnOp, PaperOp
  <2>2. PICK pc \in {"upload", "reload", "unlink"} : u = [t EXCEPT !.pc = pc]
    BY <1>2, <1>3, AfterDeleteOn
  <2> QED
    BY <1>0, <2>1, <2>2, AlikeReview
<1>4. ASSUME NEW c \in {"cv", "picture"}, t.op \in OperationsOn("columns"),
             u = [t EXCEPT !.pc = "find", !.doc = jobseeker[c], !.js = [t.js EXCEPT ![c] = "none"]]
      PROVE  ReviewOK(u)
  <2> DEFINE js == [t.js EXCEPT ![c] = "none"]
  <2>1. js.status = t.js.status /\ js.text = t.js.text
    BY <1>0 DEF JobseekerProfile
  <2>2. u = [t EXCEPT !.pc = "find", !.doc = jobseeker[c], !.js = js]
    BY <1>4
  <2> HIDE DEF js
  <2>3. u.op = t.op /\ u.js = js /\ u.read = t.read /\ u.pc = "find"
    BY <1>0, <2>2 DEF Task
  <2> HIDE DEF t, u
  <2> QED
    BY <1>0, <2>1, <2>3, ReviewOn
<1>5. ASSUME NEW d, u = [t EXCEPT !.pc = "remove", !.doc = d] PROVE ReviewOK(u)
  <2>1. u.op = t.op /\ u.js = t.js /\ u.read = t.read /\ u.pc = "remove"
    BY <1>0, <1>5 DEF Task
  <2> HIDE DEF t, u
  <2> QED
    BY <1>0, <2>1, ReviewOn
<1>6. CASE FiledAs({"ID_DOCUMENT"}) # {} /\ u = [t EXCEPT !.pc = "hasProof"]
  <2>1. u.op = t.op /\ u.js = t.js /\ u.read = t.read /\ u.pc = "hasProof"
    BY <1>0, <1>6 DEF Task
  <2> HIDE DEF t, u
  <2> QED
    BY <1>0, <1>6, <2>1 DEF ReviewOK
<1>7. CASE /\ t.op = "approveJobseeker" /\ FiledAs({"PROOF_OF_ADDRESS"}) # {}
           /\ t.pc = "hasProof" /\ u = [t EXCEPT !.pc = "reload", !.js.status = "APPROVED"]
  <2>1. u.op = t.op /\ u.read = t.read /\ u.pc = "reload"
    BY <1>0, <1>7 DEF Task
  <2> HIDE DEF t, u
  <2> QED
    BY <1>0, <1>7, <2>1 DEF ReviewOK, PaperOp
<1>8. ASSUME NEW kinds \in {JobseekerKinds, EmployerKinds}, t.pc = "list",
             u = [t EXCEPT !.pc = "savePapers",
                           !.read = [d \in Docs |-> IF papers[d].kind \in kinds
                                                    THEN papers[d] ELSE NoPaper]]
      PROVE  ReviewOK(u)
  <2> DEFINE read == [d \in Docs |-> IF papers[d].kind \in kinds THEN papers[d] ELSE NoPaper]
  <2>1. \A d \in Docs : read[d] # NoPaper => read[d] = papers[d]
    OBVIOUS
  <2>2. u = [t EXCEPT !.pc = "savePapers", !.read = read]
    BY <1>8
  <2> HIDE DEF read
  <2>3. u.op = t.op /\ u.js = t.js /\ u.read = read /\ u.pc = "savePapers"
    BY <1>0, <2>2 DEF Task
  <2> HIDE DEF t, u
  <2> QED
    BY <1>0, <2>1, <2>3 DEF ReviewOK
<1>9. CASE t.pc = "reload" /\ u = [t EXCEPT !.pc = "write", !.jsSnap = jobseeker]
  <2>1. /\ u.op = t.op /\ u.js = t.js /\ u.read = t.read /\ u.pc = "write"
        /\ u.jsSnap = jobseeker
    BY <1>0, <1>9 DEF Task
  <2> HIDE DEF t, u
  <2> QED
    BY <1>0, <1>9, <2>1 DEF ReviewOK
<1>10. CASE t.op \in OpsAt("find") /\ u = [t EXCEPT !.pc = "object"]
  BY <1>0, <1>10, AlikeReview
<1>11. CASE /\ t.op = "approveJobseeker" /\ FiledAs({"ID_DOCUMENT"}) # {}
            /\ u = [t EXCEPT !.pc = "hasProof"]
  BY <1>6, <1>11
<1>12. ASSUME NEW kinds \in {JobseekerKinds, EmployerKinds},
              t.op \in IF kinds = JobseekerKinds THEN JobseekerOp ELSE EmployerOp,
              t.pc = "list",
              u = [t EXCEPT !.pc = "savePapers",
                            !.read = [d \in Docs |-> IF papers[d].kind \in kinds
                                                     THEN papers[d] ELSE NoPaper]]
       PROVE  ReviewOK(u)
  BY <1>8, <1>12
<1> HIDE DEF t, u
<1> QED
  BY <1>1, <1>2, <1>3, <1>4, <1>5, <1>7, <1>9, <1>10, <1>11, <1>12 DEF ReadsOnly

\* The other steps of the job seeker that write no row he is approved by.
LEMMA OnwardsReview ==
    ASSUME ProfilesIInv, ReviewIInv, NEW h \in Requests,
           \/ DeleteSkillLinks(h) \/ InsertActiveSkill(h) \/ AttachSkills(h)
           \/ DeleteFile(h) \/ RemoveDocument(h) \/ InsertDocument(h)
           \/ \E d \in Docs : UploadFile(h, d),
           FilingIInv, task[h].op \in JobseekerOp, task'[h].op \in JobseekerOp
    PROVE  ReviewOK(task'[h])
<1> DEFINE t == task[h]
           u == task'[h]
<1>0. /\ t \in Task /\ ReviewOK(t) /\ u # Rest /\ t.js \in JobseekerProfile
  BY Fields, Sides DEF ProfilesIInv, ProfilesTypeOK, ReviewIInv, Rest
<1> SUFFICES ReviewOK(u)
  OBVIOUS
<1>1. CASE DeleteSkillLinks(h) \/ InsertActiveSkill(h) \/ AttachSkills(h)
  <2>1. t.op # "approveJobseeker"
    BY <1>1, SkillStepsGo
  <2>2. PICK pc \in {"skill", "link", "reload"} : u = [t EXCEPT !.pc = pc]
    BY <1>0, <1>1, SkillStepsGo
  <2> QED
    BY <1>0, <2>1, <2>2, AlikeReview
<1>2. CASE DeleteFile(h)
  <2>1. u = [t EXCEPT !.pc = "row"]
    BY <1>2, DeleteFileTidy
  <2> QED
    BY <1>0, <2>1, AlikeReview
<1>3. CASE RemoveDocument(h)
  <2>1. t.op # "approveJobseeker"
    BY <1>3, RemoveDocumentDoes, Stages DEF ColumnOp, PaperOp
  <2>2. PICK pc \in {"upload", "reload", "unlink"} : u = [t EXCEPT !.pc = pc]
    BY <1>0, <1>3, RemoveDocumentDoes, AfterDeleteOn
  <2> QED
    BY <1>0, <2>1, <2>2, AlikeReview
<1>4. CASE InsertDocument(h)
  <2>1. t.op # "approveJobseeker"
    BY <1>4, InsertDocumentDoes DEF UploadOp
  <2>2. ASSUME NEW js, js.status = t.js.status, js.text = t.js.text,
               u = [t EXCEPT !.pc = "reload", !.js = js]
        PROVE  ReviewOK(u)
    <3>1. u.op = t.op /\ u.js = js /\ u.read = t.read /\ u.pc = "reload"
      BY <1>0, <2>2 DEF Task
    <3> HIDE DEF t, u
    <3> QED
      BY <1>0, <2>1, <2>2, <3>1, ReviewOn
  <2>3. ASSUME NEW em, u = [t EXCEPT !.pc = "reload", !.em = em] PROVE ReviewOK(u)
    <3>1. u.op = t.op /\ u.js = t.js /\ u.read = t.read /\ u.pc = "reload"
      BY <1>0, <2>3 DEF Task
    <3> HIDE DEF t, u
    <3> QED
      BY <1>0, <2>1, <3>1, ReviewOn
  <2>4. ASSUME u = [t EXCEPT !.pc = "file"] PROVE ReviewOK(u)
    BY <1>0, <2>4, AlikeReview
  <2>5. /\ [t.js EXCEPT !.cv = t.doc].status = t.js.status
        /\ [t.js EXCEPT !.cv = t.doc].text = t.js.text
        /\ [t.js EXCEPT !.picture = t.doc].status = t.js.status
        /\ [t.js EXCEPT !.picture = t.doc].text = t.js.text
    BY <1>0 DEF JobseekerProfile
  <2>6. CASE u = [t EXCEPT !.pc = "reload", !.js = [t.js EXCEPT !.cv = t.doc]]
    BY <2>2, <2>5, <2>6
  <2>7. CASE u = [t EXCEPT !.pc = "reload", !.js = [t.js EXCEPT !.picture = t.doc]]
    BY <2>2, <2>5, <2>7
  <2>8. CASE u = [t EXCEPT !.pc = "reload", !.em = [t.em EXCEPT !.logo = t.doc]]
    BY <2>3, <2>8
  <2> QED
    BY <1>4, <2>4, <2>6, <2>7, <2>8, InsertDocumentDoes
<1>5. ASSUME NEW d \in Docs, UploadFile(h, d) PROVE ReviewOK(u)
  <2>1. u = [t EXCEPT !.pc = "insert", !.doc = d]
    BY <1>5, UploadFileDoes
  <2>2. u.op = t.op /\ u.js = t.js /\ u.read = t.read /\ u.pc = "insert"
    BY <1>0, <2>1 DEF Task
  <2> HIDE DEF t, u
  <2> QED
    BY <1>0, <2>2, ReviewOn
<1> QED
  BY <1>1, <1>2, <1>3, <1>4, <1>5

\* No other request is about the job seeker: what the one leaves.
LEMMA ReviewLeaves ==
    ASSUME NEW h \in Requests, ApprovedAsReviewed',
           \A g \in Requests \ {h} : task'[g].op \notin JobseekerOp,
           task'[h].op \in JobseekerOp => ReviewOK(task[h])'
    PROVE  ReviewIInv'
BY DEF ReviewIInv

\* A replaced or deleted verification row: no job seeker is approved meanwhile.
LEMMA PaperStepReview ==
    ASSUME ProfilesIInv, FilingIInv, ReviewIInv, NEW h \in Requests,
           task[h].op \in JobseekerOp,
           \A g \in Requests \ {h} : task'[g].op \notin JobseekerOp,
           RemoveExisting(h) \/ InsertJobseekerPaper(h)
    PROVE  ReviewIInv'
<1> DEFINE t == task[h]
           u == task'[h]
<1>0. t \in Task /\ ReviewOK(t) /\ task \in [Requests -> Task]
  BY DEF ProfilesIInv, ProfilesTypeOK, ReviewIInv
<1>1. UNCHANGED <<jobseeker, employer, past>> /\ GoesOn(u, t)
  BY PaperStepsTidy
<1>2. t.op \in PaperOp
  BY OnAt, Stages DEF RemoveExisting, InsertJobseekerPaper, PaperOp
<1>3. u = Rest \/ \E pc \in {"find", "reload"} : u = [t EXCEPT !.pc = pc]
  BY <1>0 DEF RemoveExisting, InsertJobseekerPaper, Proceed, Finish
<1>4. jobseeker'.status # "APPROVED"
  BY <1>0, <1>1, <1>2 DEF ReviewOK
<1>5. ASSUME NEW pc \in {"find", "reload"}, u = [t EXCEPT !.pc = pc]
      PROVE  ReviewOK(task[h])'
  <2>1. u.op = t.op /\ u.js = t.js /\ u.read = t.read /\ u.pc = pc
    BY <1>0, <1>5 DEF Task
  <2>2. u.op # "approveJobseeker" /\ u.js.status # "APPROVED"
    BY <1>0, <1>2, <2>1 DEF PaperOp, ReviewOK
  <2> QED
    BY <1>4, <2>1, <2>2 DEF ReviewOK
<1>6. Rest.op \notin JobseekerOp
  BY Sides DEF Rest
<1>7. u.op \in JobseekerOp => ReviewOK(task[h])'
  BY <1>3, <1>5, <1>6
<1>8. ApprovedAsReviewed'
  BY <1>4 DEF ApprovedAsReviewed
<1> QED
  BY <1>7, <1>8, ReviewLeaves

\* A deleted file: what a column refers to is filed as nothing (FilingIInv).
LEMMA RemoveDocumentReview ==
    ASSUME ProfilesIInv, FilingIInv, ReviewIInv, NEW h \in Requests,
           task[h].op \in JobseekerOp,
           \A g \in Requests \ {h} : task'[g] = task[g],
           \A g \in Requests \ {h} : task'[g].op \notin JobseekerOp,
           RemoveDocument(h)
    PROVE  ReviewIInv'
<1> DEFINE t == task[h]
<1>0. /\ jobseeker'.status = jobseeker.status /\ jobseeker'.text = jobseeker.text
      /\ reviewed' = reviewed /\ t.op \in OpsAt("find")
      /\ \A d \in Docs : papers'[d] = IF d = t.doc THEN NoPaper ELSE papers[d]
      /\ NoPaper.kind \notin JobseekerKinds /\ t \in Task /\ ReviewOK(t)
  BY RemoveDocumentDoes, Kinds
     DEF past, NoPaper, JobseekerKinds, ProfilesIInv, ProfilesTypeOK, ReviewIInv
<1>1. task'[h].op \in JobseekerOp => ReviewOK(task'[h])
  BY OnwardsReview
<1>2. CASE t.op \in OperationsOn("columns")
  <2>1. ASSUME NEW d \in Docs, d = t.doc PROVE papers[d].kind \notin JobseekerKinds
    <3>1. d \in Holds("columns", t)
      BY <1>2, <2>1 DEF Holds
    <3>2. d \notin Has("papers")
      BY <3>1, Sides DEF FilingIInv
    <3> QED
      BY <3>2 DEF Has, FiledAs
  <2>2. Spares
    BY <1>0, <2>1 DEF Spares
  <2> QED
    BY <1>1, <2>2, ReviewAlone
<1>3. CASE t.op \in PaperOp
  <2>1. jobseeker'.status # "APPROVED"
    BY <1>0, <1>3 DEF ReviewOK
  <2>2. ApprovedAsReviewed'
    BY <2>1 DEF ApprovedAsReviewed
  <2>3. ASSUME task'[h].op \in JobseekerOp PROVE ReviewOK(task[h])'
    <3>1. task'[h] # Rest
      BY <2>3, Sides DEF Rest
    <3>2. PICK pc \in {"upload", "reload", "unlink"} : task'[h] = [t EXCEPT !.pc = pc]
      BY <1>0, <3>1, RemoveDocumentDoes, AfterDeleteOn
    <3>3. task'[h].op = t.op /\ task'[h].js = t.js /\ task'[h].pc = pc
      BY <1>0, <3>2 DEF Task
    <3>4. t.op # "approveJobseeker" /\ t.js.status # "APPROVED"
      BY <1>0, <1>3 DEF PaperOp, ReviewOK
    <3> QED
      BY <2>1, <3>3, <3>4 DEF ReviewOK
  <2> QED
    BY <2>2, <2>3, ReviewLeaves
<1>4. t.op # "deleteEmployerPaper" /\ t.op \notin {"uploadLogo", "deleteLogo"}
  BY DEF JobseekerOp
<1>5. t.op \in OperationsOn("columns") \cup PaperOp
  BY <1>0, <1>4, Stages, Sides DEF ColumnOp
<1> QED
  BY <1>2, <1>3, <1>5

\* The rows are saved as the kinds they were read as.
LEMMA SavePapersReview ==
    ASSUME ProfilesIInv, ReviewIInv, NEW h \in Requests,
           task[h].op \in JobseekerOp,
           \A g \in Requests \ {h} : task'[g].op \notin JobseekerOp,
           SaveJobseekerPapers(h) \/ SaveEmployerPapers(h)
    PROVE  ReviewIInv'
<1> DEFINE t == task[h]
<1>0. /\ t \in Task /\ ReviewOK(t) /\ t.pc = "savePapers" /\ papers \in [Docs -> Paper]
      /\ t.read \in [Docs -> Paper]
      /\ UNCHANGED <<jobseeker, past>>
      /\ papers' = Restamped(h) \/ papers' = papers
      /\ t.op \notin {"activate", "reviewEmployerPaper"}
  BY SavePapersDoes, Fields, Sides
     DEF ReviewIInv, ProfilesIInv, ProfilesTypeOK, JobseekerOp
<1>1. task'[h] = Rest
  BY <1>0, SavePapersDoes
<1>2. Rest.op \notin JobseekerOp
  BY Sides DEF Rest
<1>3. ASSUME NEW d \in Docs, papers[d].kind \in JobseekerKinds
      PROVE  papers'[d].kind = papers[d].kind
  <2>1. t.read[d] # NoPaper => t.read[d].kind = papers[d].kind
    BY <1>0, <1>3 DEF ReviewOK
  <2>2. [t.read[d] EXCEPT !.status = t.status].kind = t.read[d].kind
    BY <1>0 DEF Paper
  <2> QED
    BY <1>0, <2>1, <2>2 DEF Restamped
<1>4. \A k \in JobseekerKinds : FiledAs({k}) \subseteq FiledAs({k})'
  BY <1>3 DEF FiledAs
<1>5. ApprovedAsReviewed'
  BY <1>0, <1>4 DEF ApprovedAsReviewed, ReviewIInv, past
<1> QED
  BY <1>1, <1>2, <1>5, ReviewLeaves

\* The profile is saved as the request knows it.
LEMMA WriteJobseekerReview ==
    ASSUME ProfilesIInv, ReviewIInv, NEW h \in Requests,
           \A g \in Requests \ {h} : task'[g].op \notin JobseekerOp,
           WriteJobseeker(h)
    PROVE  ReviewIInv'
<1> DEFINE t == task[h]
           u == task'[h]
           n == SavedJobseeker(t)
<1>0. /\ t \in Task /\ t.op \in JobseekerOp /\ t.pc = "write" /\ UNCHANGED papers
      /\ ReviewOK(t) /\ ApprovedAsReviewed
  BY WriteJobseekerDoes DEF ProfilesIInv, ProfilesTypeOK, ReviewIInv, files
<1>1. n.status = t.js.status /\ n.text = t.js.text
  BY <1>0, SavedJobseekerIs DEF ReviewOK
<1>2. \A k : FiledAs({k})' = FiledAs({k})
  BY <1>0 DEF FiledAs
<1>3. Rest.op \notin JobseekerOp
  BY Sides DEF Rest
<1>4. CASE jobseeker' = n /\ reviewed' = IF t.op = "approveJobseeker" THEN t.js.text ELSE reviewed
  <2>1. jobseeker'.status = t.js.status /\ jobseeker'.text = t.js.text
    BY <1>1, <1>4
  <2>2. ApprovedAsReviewed'
    <3>1. CASE t.op = "approveJobseeker"
      <4>1. FiledAs({"ID_DOCUMENT"}) # {} /\ FiledAs({"PROOF_OF_ADDRESS"}) # {}
        BY <1>0, <3>1 DEF ReviewOK
      <4> QED
        BY <1>2, <1>4, <2>1, <3>1, <4>1 DEF ApprovedAsReviewed, JobseekerKinds
    <3>2. CASE t.op # "approveJobseeker"
      BY <1>0, <1>2, <1>4, <2>1, <3>2 DEF ApprovedAsReviewed, ReviewOK
    <3> QED
      BY <3>1, <3>2
  <2>3. ASSUME u.op \in JobseekerOp PROVE ReviewOK(task[h])'
    <3>1. t.op \in {"approveJobseeker", "unapproveJobseeker"} /\ u = [t EXCEPT !.pc = "list"]
      BY <1>3, <2>3, WriteJobseekerDoes
    <3>2. u.op = t.op /\ u.js = t.js /\ u.pc = "list"
      BY <1>0, <3>1 DEF Task
    <3> QED
      BY <2>1, <3>1, <3>2 DEF ReviewOK, PaperOp
  <2> QED
    BY <2>2, <2>3, ReviewLeaves
<1>5. CASE UNCHANGED <<jobseeker, reviewed>> /\ u = Rest
  <2>1. ApprovedAsReviewed'
    BY <1>0, <1>2, <1>5 DEF ApprovedAsReviewed
  <2> QED
    BY <1>3, <1>5, <2>1, ReviewLeaves
<1> QED
  BY <1>4, <1>5, WriteJobseekerDoes

\* A step of the one request about the job seeker.
LEMMA JobseekerStepKeeps ==
    ASSUME ProfilesIInv, FilingIInv, ReviewIInv, NEW h \in Requests,
           task[h].op \in JobseekerOp, JobseekersApart,
           ProfilesStep(h) \/ CallFails(h)
    PROVE  ReviewIInv'
<1>1. /\ \A g \in Requests \ {h} : task'[g] = task[g]
      /\ \A g \in Requests \ {h} : task'[g].op \notin JobseekerOp
  BY OthersStay DEF JobseekersApart
<1>a. ~WriteEmployer(h) /\ ~InsertEmployerPaper(h) /\ ~RemoveEmployerPaper(h)
  BY OnAt, Stages, Sides
     DEF WriteEmployer, InsertEmployerPaper, RemoveEmployerPaper, JobseekerOp
<1>2. CASE Reads(h)
  <2>1. Spares
    BY <1>2, ReadsGo DEF Spares, files, past
  <2> QED
    BY <1>1, <1>2, <2>1, ReadsReview, ReviewAlone
<1>3. CASE RemoveExisting(h) \/ InsertJobseekerPaper(h)
  BY <1>1, <1>3, PaperStepReview
<1>4. CASE SaveJobseekerPapers(h) \/ SaveEmployerPapers(h)
  BY <1>1, <1>4, SavePapersReview
<1>5. CASE WriteJobseeker(h)
  BY <1>1, <1>5, WriteJobseekerReview
<1>6. CASE RemoveDocument(h)
  BY <1>1, <1>6, RemoveDocumentReview
<1>7. CASE \/ DeleteSkillLinks(h) \/ InsertActiveSkill(h) \/ AttachSkills(h)
           \/ DeleteFile(h) \/ InsertDocument(h) \/ \E d \in Docs : UploadFile(h, d)
  <2>1. UNCHANGED <<papers, jobseeker, past>>
    BY <1>7 DEF DeleteSkillLinks, InsertActiveSkill, AttachSkills, DeleteFile, InsertDocument,
                UploadFile, files
  <2>2. Spares
    BY <2>1 DEF Spares, past
  <2> QED
    BY <1>1, <1>7, <2>2, OnwardsReview, ReviewAlone
<1>8. CASE CallFails(h)
  <2>1. task'[h].op \notin JobseekerOp
    BY <1>8, FailTidy, Sides DEF Rest
  <2>2. Spares
    BY <1>8 DEF CallFails, Spares, files
  <2> QED
    BY <1>1, <2>1, <2>2, ReviewAlone
<1> QED
  BY <1>a, <1>2, <1>3, <1>4, <1>5, <1>6, <1>7, <1>8
     DEF ProfilesStep, JobseekerProfileStep, EmployerProfileStep, StorageStep, Reads

LEMMA ArrivalReview ==
    ASSUME NEW t, Arriving(t), t.op \in JobseekerOp
    PROVE  ReviewOK(t)
BY DEF Arriving, ReviewOK

LEMMA ReviewInitially == ProfilesInit => ReviewIInv
<1> SUFFICES ASSUME ProfilesInit PROVE ReviewIInv
  OBVIOUS
<1>1. ApprovedAsReviewed
  BY DEF ProfilesInit, NewJobseeker, ApprovedAsReviewed
<1>2. \A h \in Requests : task[h] = Rest
  BY DEF ProfilesInit
<1>3. \A h \in Requests : task[h].op \notin JobseekerOp
  BY <1>2, Sides DEF Rest
<1> QED
  BY <1>1, <1>3 DEF ReviewIInv

LEMMA ReviewKept ==
    /\ ProfilesIInv /\ FilingIInv /\ ReviewIInv /\ JobseekersApart
    /\ [ProfilesNext]_profileVars
    => ReviewIInv'
<1> SUFFICES ASSUME ProfilesIInv, FilingIInv, ReviewIInv, JobseekersApart,
                    [ProfilesNext]_profileVars
             PROVE  ReviewIInv'
  OBVIOUS
<1>1. CASE UNCHANGED profileVars \/ CreateSkill \/ DeleteSkill
  <2>1. UNCHANGED <<papers, jobseeker, reviewed, task>>
    BY <1>1 DEF profileVars, CreateSkill, DeleteSkill, files, past
  <2> QED
    BY <2>1 DEF ReviewIInv, ReviewOK, ApprovedAsReviewed, FiledAs
<1>2. ASSUME NEW h \in Requests, JobseekerController(h) \/ JobseekerDecisions(h)
                                 \/ EmployerController(h) \/ EmployerDecisions(h)
      PROVE  ReviewIInv'
  <2>1. /\ UNCHANGED <<files, jobseeker, reviewed>>
        /\ \A g \in Requests \ {h} : task'[g] = task[g]
    BY <1>2, JobseekerControllerGoes, JobseekerDecisionsGo, EmployerControllerGoes,
       EmployerDecisionsGo, OthersStay DEF past
  <2>2. PICK t : Receive(h, t) /\ Arriving(t)
    BY <1>2, JobseekerArrivesSole, DecisionArrivesSole, EmployerArrivesSole DEF Arrives
  <2>3. task'[h] = t
    BY <2>2 DEF Receive, ProfilesIInv, ProfilesTypeOK
  <2>4. Spares
    BY <2>1 DEF Spares, files
  <2> QED
    BY <2>1, <2>2, <2>3, <2>4, ArrivalReview, ReviewAlone
<1>3. ASSUME NEW h \in Requests, ProfilesStep(h) \/ CallFails(h) PROVE ReviewIInv'
  BY <1>3, EmployerStepKeeps, JobseekerStepKeeps
<1> QED
  BY <1>1, <1>2, <1>3 DEF ProfilesNext

\* While one request at a time is about the job seeker, an approved one has both
\* verification documents on file and says what the administrator read when he approved,
\* whatever calls fail half-way and however many requests about the employer overlap his
\* (JobseekerService, AdminService.updateJobseekerVerification).
THEOREM ApprovedAsReviewedHolds == ProfilesSpec /\ []JobseekersApart => []ApprovedAsReviewed
<1>1. ReviewIInv => ApprovedAsReviewed
  BY DEF ReviewIInv
<1> QED
  BY <1>1, ReviewInitially, ReviewKept, FilingInitially, FilingKept, TypesInitially, TypesKept,
     PTL DEF ProfilesSpec
=============================================================================
