---------------------------- MODULE ProfilesInv ----------------------------
(***************************************************************************)
(* What must hold of the profiles, their files and the decisions on them,  *)
(* and the invariants it follows from (ProfilesProofs): ProfilesIInv,      *)
(* Grounded and FilingIInv however requests overlap, ReviewIInv while one  *)
(* at a time is about the job seeker, SoleIInv while there is one at a     *)
(* time.                                                                   *)
(***************************************************************************)
EXTENDS Profiles

\* Which operations come to which step.
ColumnOp == {"uploadCv", "deleteCv", "uploadPicture", "deletePicture",
             "uploadLogo", "deleteLogo"}
PaperOp == {"uploadPaper", "deletePaper"}
UploadOp == {"uploadCv", "uploadPicture", "uploadPaper", "uploadLogo",
             "uploadEmployerPaper", "uploadBatch"}
OpsAt(pc) ==
    CASE pc = "idle" -> {"none"}
      [] pc = "clear" -> ColumnOp
      [] pc \in {"existing", "remove"} -> PaperOp
      [] pc \in {"find", "object", "row"} ->
           ColumnOp \cup PaperOp \cup {"deleteEmployerPaper"}
      [] pc = "unlink" -> {"deleteEmployerPaper"}
      [] pc \in {"upload", "insert"} -> UploadOp
      [] pc = "file" -> {"uploadPaper", "uploadEmployerPaper", "uploadBatch"}
      [] pc = "next" -> {"uploadBatch"}
      [] pc \in {"unskill", "skill", "link"} -> {"updateProfile"}
      [] pc \in {"hasId", "hasProof"} -> {"approveJobseeker"}
      [] pc \in {"eligible", "load"} ->
           {"uploadEmployerPaper", "uploadBatch", "reviewEmployerPaper", "autoVerify"}
      [] pc \in {"reload", "write"} ->
           (JobseekerOp \ {"deleteCv", "deletePicture", "deletePaper", "reviewJobseekerPaper"})
             \cup (EmployerOp \ {"deleteEmployerPaper", "reviewEmployerPaper"})
      [] pc = "list" ->
           {"approveJobseeker", "unapproveJobseeker", "autoVerify", "approveEmployer",
            "activate"}
      [] pc = "savePapers" ->
           {"approveJobseeker", "unapproveJobseeker", "reviewJobseekerPaper", "autoVerify",
            "approveEmployer", "activate", "reviewEmployerPaper"}
      [] OTHER -> {}

Stage == {"idle", "clear", "existing", "remove", "find", "object", "row", "unlink",
          "upload", "insert", "file", "next", "unskill", "skill", "link", "hasId",
          "hasProof", "eligible", "load", "reload", "write", "list", "savePapers"}

Task == [op : JobseekerOp \cup EmployerOp \cup {"none"}, pc : Stage, doc : DocColumn,
         kind : EmployerKinds \cup JobseekerKinds \cup {"none"},
         read : [Docs -> Paper], status : PaperStatus,
         skill : {"none", "name", "id", "empty"},
         js : JobseekerProfile, jsSnap : JobseekerProfile,
         em : EmployerProfile, emSnap : EmployerProfile, outer : EmployerProfile]

ProfilesTypeOK ==
    /\ objects \subseteq Docs /\ documents \subseteq Docs
    /\ papers \in [Docs -> Paper]
    /\ jobseeker \in JobseekerProfile
    /\ employer \in EmployerProfile /\ employer.logo # "unset"
    /\ catalog \in BOOLEAN /\ links \in BOOLEAN
    /\ task \in [Requests -> Task]
    /\ failed \in BOOLEAN /\ reviewed \in Texts
    /\ decided \in [whole : BOOLEAN, kinds : SUBSET EmployerKinds]

\* A request is on one of the courses the services can take.
OnCourse(t) ==
    /\ t \in Task
    /\ t.op \in OpsAt(t.pc)
    /\ t.pc = "insert" => t.doc \in Docs
    /\ t.pc = "unskill" => t.skill # "none"

ProfilesIInv == ProfilesTypeOK /\ \A h \in Requests : OnCourse(task[h])

\* An approved job seeker has both verification documents on file and says
\* what the administrator read when he approved: documents are locked by the
\* approval, a change of the text takes it back, a failed call never leaves
\* an approval behind whose grounds are gone.  One request about him at a time:
\* a deletion that has passed its check does not see an approval that follows.
ApprovedAsReviewed ==
    jobseeker.status = "APPROVED" =>
        /\ \A k \in JobseekerKinds : FiledAs({k}) # {}
        /\ jobseeker.text = reviewed

\* Nobody verifies himself: an approved employer was approved as a whole by
\* an administrator, or an administrator has approved a document of each kind
\* that some type asks for.  Uploads run the auto verification, which reads
\* statuses that an earlier auto verification may have written.
VouchedBy(rulings) ==
    rulings.whole \/ \E ty \in EmployerTypes : Mandatory[ty] \subseteq rulings.kinds
Vouched == VouchedBy(decided)
NobodyVerifiesHimself ==
    employer.verification = "APPROVED" => Vouched

\* Between requests the bucket, the documents table and what refers to it
\* agree, unless a call has failed half-way: a replaced or deleted file leaves
\* neither an object nor a row behind, and nothing refers to a deleted file.
\* One request at a time: two uploads for the same column lose one of them.
References == ({jobseeker.cv, jobseeker.picture, employer.logo} \ {"none"})
                \cup {d \in Docs : Filed(d)}
FilesAreReferenced ==
    ~failed /\ (\A h \in Requests : On(h, "idle")) =>
        objects = documents /\ documents = References

-----------------------------------------------------------------------------
\* Nobody verifies himself, as an invariant of requests that overlap: every copy
\* of the profile that says APPROVED, every step on the way to one, and every
\* approved document, has the decision of an administrator behind it.
Sound(entity, rulings) == entity.verification = "APPROVED" => VouchedBy(rulings)

\* The locals of a request, when these are the rulings so far.
RequestGrounded(t, rulings) ==
    /\ Sound(t.em, rulings) /\ Sound(t.emSnap, rulings) /\ Sound(t.outer, rulings)
    /\ t.op \in {"approveEmployer", "activate"} => VouchedBy(rulings)
    /\ t.pc = "load" \/ (t.op = "autoVerify" /\ t.pc # "eligible") => VouchedBy(rulings)
    /\ t.pc = "savePapers" =>
         \A d \in Docs : t.read[d] # NoPaper =>
           /\ t.op \in JobseekerOp => t.read[d].kind \in JobseekerKinds
           /\ t.op = "reviewEmployerPaper" /\ t.status = "APPROVED" =>
                t.read[d].kind \in rulings.kinds

PaperGrounded(paper, rulings) ==
    paper.kind \in EmployerKinds /\ paper.status = "APPROVED" =>
      VouchedBy(rulings) \/ paper.kind \in rulings.kinds

Grounded ==
    /\ Sound(employer, decided)
    /\ \A d \in Docs : PaperGrounded(papers[d], decided)
    /\ \A h \in Requests : RequestGrounded(task[h], decided)

-----------------------------------------------------------------------------
\* One request at a time: the hypothesis of what follows.
RequestsApart == \A g, h \in Requests : On(g, "idle") \/ On(h, "idle") \/ g = h

\* The files, while that is so.  No document is referred to
\* twice, a job seeker has one document of a kind, and what is referred to exists.
OwnedOnce ==
    /\ References \subseteq documents
    /\ jobseeker.cv # "none" => jobseeker.cv \notin {jobseeker.picture, employer.logo}
    /\ jobseeker.picture # "none" => jobseeker.picture # employer.logo
    /\ \A d \in Docs : Filed(d) =>
         d \notin {jobseeker.cv, jobseeker.picture, employer.logo}
    /\ \A c, d \in Docs :
         papers[c].kind = papers[d].kind /\ papers[c].kind \in JobseekerKinds => c = d

\* What a request deletes is the column or the row that it set out to delete.
Deletes(t) ==
    /\ t.op \in {"uploadCv", "deleteCv"} => t.doc = jobseeker.cv
    /\ t.op \in {"uploadPicture", "deletePicture"} => t.doc = jobseeker.picture
    /\ t.op \in {"uploadLogo", "deleteLogo"} =>
         t.doc = employer.logo /\ t.em.logo = "unset"
    /\ t.op \in PaperOp => /\ t.doc \notin {jobseeker.cv, jobseeker.picture, employer.logo}
                          /\ FiledAs({t.kind}) = {}
    /\ t.op = "deleteEmployerPaper" => papers[t.doc].kind \in EmployerKinds

\* A document that is filed next, or referred to by the entity that is saved next.
Attaching(t) ==
    \/ t.pc = "file"
    \/ /\ t.pc \in {"reload", "write"}
       /\ \/ t.op \in {"uploadCv", "uploadPicture"}
          \/ t.op = "uploadLogo" /\ t.em.logo # "unset"

\* The column or row that an upload replaces is gone by then.
Uploads(t) ==
    /\ t.op = "uploadCv" => jobseeker.cv = "none"
    /\ t.op = "uploadPicture" => jobseeker.picture = "none"
    /\ t.op = "uploadLogo" => employer.logo = "none"
    /\ t.op = "uploadPaper" => FiledAs({t.kind}) = {}
    /\ t.op = "uploadBatch" => t.kind \in EmployerKinds

\* The entity of a request agrees with the row but for what the request changes.
Mirrors(t) ==
    /\ t.op \in JobseekerOp =>
         /\ IF Attaching(t) /\ t.op = "uploadCv" THEN t.js.cv = t.doc
            ELSE t.op \notin {"uploadCv", "deleteCv"} => t.js.cv = jobseeker.cv
         /\ IF Attaching(t) /\ t.op = "uploadPicture" THEN t.js.picture = t.doc
            ELSE t.op \notin {"uploadPicture", "deletePicture"} =>
                   t.js.picture = jobseeker.picture
         /\ t.op \in PaperOp => t.kind \in JobseekerKinds
    /\ t.op \in EmployerOp \ {"deleteEmployerPaper"} =>
         IF t.op = "uploadLogo" /\ Attaching(t) THEN t.em.logo = t.doc
         ELSE \/ t.em.logo = employer.logo
              \/ t.op \in {"uploadLogo", "deleteLogo"} /\ t.em.logo = "unset"
    /\ t.op = "uploadLogo" => t.outer.logo = "none" \/ t.em.logo # "unset"
    /\ t.op = "uploadEmployerPaper" => t.kind \in EmployerKinds

SoleRequestOK(t) ==
    /\ t.pc \in {"find", "object", "row"} => t.doc \in documents /\ Deletes(t)
    /\ t.pc = "remove" => t.doc \in FiledAs({t.kind})
    /\ t.pc = "unlink" => ~Filed(t.doc)
    /\ t.pc \in {"upload", "insert"} \/ Attaching(t) => Uploads(t)
    /\ t.pc = "insert" => t.doc \in Docs \ documents
    /\ Attaching(t) => t.doc \in documents \ References
    /\ t.op \in {"uploadLogo", "deleteLogo"} /\ t.pc \in {"reload", "write"} =>
         employer.logo = "none"
    /\ Mirrors(t)
    /\ t.pc = "write" => /\ t.op \in JobseekerOp => t.jsSnap = jobseeker
                         /\ t.op \in EmployerOp => t.emSnap = employer
    /\ t.pc = "savePapers" =>
         \A d \in Docs : t.read[d] # NoPaper => t.read[d].kind = papers[d].kind

\* The three places agree but for the document at hand.
FilesAt(t) ==
    LET all == IF Attaching(t) \/ t.pc \in {"find", "object", "row"}
               THEN References \cup {t.doc} ELSE References
    IN /\ documents = all
       /\ objects = CASE t.pc = "insert" -> all \cup {t.doc}
                      [] t.pc = "row" -> all \ {t.doc}
                      [] OTHER -> all

SoleIInv ==
    /\ OwnedOnce
    /\ FilesAreReferenced
    /\ \A h \in Requests : ~On(h, "idle") =>
         SoleRequestOK(task[h]) /\ (~failed => FilesAt(task[h]))

-----------------------------------------------------------------------------
\* Whose a document is, however requests overlap: the job seeker's columns, his
\* verification rows and the employer each have documents of their own.  No request
\* ever files, deletes or refers to one that another of the three has.
Owners == {"columns", "papers", "employer"}

\* The operations that work on the documents of an owner, one at a time.
OperationsOn(owner) ==
    CASE owner = "columns" -> ColumnOp \cap JobseekerOp
      [] owner = "papers" -> PaperOp
      [] owner = "employer" -> EmployerOp

\* The documents an owner has in the rows, and in the locals of a request.
Has(owner) ==
    CASE owner = "columns" -> {jobseeker.cv, jobseeker.picture} \cap Docs
      [] owner = "papers" -> FiledAs(JobseekerKinds)
      [] owner = "employer" -> ({employer.logo} \cap Docs) \cup FiledAs(EmployerKinds)

Holds(owner, t) ==
    {d \in Docs :
       \/ t.op \in OperationsOn(owner) /\ d = t.doc
       \/ t.op \in JobseekerOp /\ owner = "columns" /\ d \in {t.js.cv, t.js.picture}
       \/ t.op \in JobseekerOp /\ owner = "papers" /\ t.read[d] # NoPaper
       \/ t.op \in EmployerOp /\ owner = "employer"
            /\ (d \in {t.em.logo, t.outer.logo} \/ t.read[d] # NoPaper)}

\* A document on its way from the bucket to a verification row is nobody else's.
NewPaper(h) ==
    task[h].pc \in {"insert", "file"} =>
      \A owner \in Owners :
        /\ task[h].doc \notin Has(owner)
        /\ \A g \in Requests \ {h} : task[h].doc \notin Holds(owner, task[g])

\* A request files and saves rows of its own side's kinds.
KindsKept(t) ==
    /\ t.op \in PaperOp => t.kind \in JobseekerKinds
    /\ t.op = "uploadEmployerPaper" => t.kind \in EmployerKinds
    /\ t.op = "uploadBatch" /\ t.pc \in {"upload", "insert", "file"} =>
         t.kind \in EmployerKinds
    /\ \A d \in Docs : t.read[d] # NoPaper =>
         /\ t.op \in JobseekerOp => t.read[d].kind \in JobseekerKinds
         /\ t.op \in EmployerOp => t.read[d].kind \in EmployerKinds

FilingIInv ==
    /\ \A owner \in Owners : Has(owner) \subseteq documents
    /\ \A owner, other \in Owners : owner # other =>
         /\ Has(owner) \cap Has(other) = {}
         /\ \A h \in Requests : Holds(owner, task[h]) \cap Has(other) = {}
         /\ \A g, h \in Requests : Holds(owner, task[g]) \cap Holds(other, task[h]) = {}
    /\ \A h \in Requests :
         /\ KindsKept(task[h])
         /\ NewPaper(h)
         /\ On(h, "file") => task[h].doc \in documents

\* No two requests of the job seeker, or of administrators about him, are in progress.
JobseekersApart ==
    \A g, h \in Requests :
      task[g].op \in JobseekerOp /\ task[h].op \in JobseekerOp => g = h

\* What the one request about the job seeker knows of his profile, while others are
\* about the employer.
ReviewOK(t) ==
    /\ t.op \in PaperOp => jobseeker.status # "APPROVED" /\ t.js.status # "APPROVED"
    /\ t.js.status = "APPROVED" /\ t.op # "approveJobseeker" =>
         jobseeker.status = "APPROVED" /\ t.js.text = jobseeker.text
    /\ t.pc = "write" => /\ t.jsSnap.status = jobseeker.status
                         /\ t.jsSnap.text = jobseeker.text
    /\ t.op = "approveJobseeker" /\ t.pc \in {"hasProof", "reload", "write"} =>
         FiledAs({"ID_DOCUMENT"}) # {}
    /\ t.op = "approveJobseeker" /\ t.pc \in {"reload", "write"} =>
         FiledAs({"PROOF_OF_ADDRESS"}) # {}
    /\ t.pc = "savePapers" =>
         \A d \in Docs : t.read[d] # NoPaper /\ papers[d].kind \in JobseekerKinds =>
           t.read[d].kind = papers[d].kind

ReviewIInv ==
    /\ ApprovedAsReviewed
    /\ \A h \in Requests : task[h].op \in JobseekerOp => ReviewOK(task[h])
=============================================================================
