------------------------------ MODULE Profiles ------------------------------
(***************************************************************************)
(* A job seeker's and an employer's profile with their files: the requests *)
(* of both, the decisions of administrators on them, the storage they      *)
(* share, and the calls that fail.                                         *)
(***************************************************************************)
EXTENDS JobseekerProfiles, EmployerProfiles

\* A registration stores PENDING for a job seeker and a type for an employer, a
\* Google sign-up stores the default NOT_STARTED and no type.
ProfilesInit ==
    /\ objects = {} /\ documents = {} /\ papers = [d \in Docs |-> NoPaper]
    /\ jobseeker \in {NewJobseeker, [NewJobseeker EXCEPT !.status = "NOT_STARTED"]}
    /\ employer \in {[NewEmployer EXCEPT !.type = ty] : ty \in EmployerTypes \cup {"none"}}
    /\ catalog = FALSE /\ links = FALSE
    /\ task = [h \in Requests |-> Rest]
    /\ failed = FALSE /\ reviewed = FirstText /\ decided = [whole |-> FALSE, kinds |-> {}]

StorageStep(h) ==
    \/ FindDocument(h) \/ DeleteFile(h) \/ RemoveDocument(h)
    \/ \E d \in Docs : UploadFile(h, d)
    \/ InsertDocument(h)

ProfilesStep(h) == JobseekerProfileStep(h) \/ EmployerProfileStep(h) \/ StorageStep(h)

ProfilesNext ==
    \/ CreateSkill \/ DeleteSkill
    \/ \E h \in Requests :
          \/ JobseekerController(h) \/ JobseekerDecisions(h)
          \/ EmployerController(h) \/ EmployerDecisions(h)
          \/ ProfilesStep(h) \/ CallFails(h)

ProfilesSpec == ProfilesInit /\ [][ProfilesNext]_profileVars
                  /\ \A h \in Requests : WF_profileVars(ProfilesStep(h))
=============================================================================
