----------------------------- MODULE MCPlatform -----------------------------
EXTENDS AccountsInv, ProfilesInv, TLC
VARIABLE part    \* which half of the platform is at work in a behaviour

\* Accounts: those of job seekers and employers ("users"), those of
\* administrators ("admins"), and suspensions and failing calls with at most
\* one session opened ("failing").
AccountParts == {"users", "admins", "failing"}
OneSession == Cardinality({s \in Sids : session'[s].role # "none"}) <= 1
AccountsStep ==
    /\ \/ TimePasses
       \/ \E h \in Handlers :
             \/ part = "users" /\ (JobseekerAuthStart(h) \/ EmployerAuthStart(h))
             \/ part = "failing" /\ UserStart(h)
             \/ part = "admins" /\ AdminStart(h)
             \/ Step(h)
             \/ part = "failing" /\ Fails(h)
    /\ part = "failing" => OneSession
    /\ UNCHANGED profileVars

\* Profiles: a job seeker's documents ("jobseeker", with one call that fails),
\* his skills ("skills"), an employer whose documents are judged one by one
\* ("employer"), an employer judged as a whole ("company", one file).
ProfileParts == {"jobseeker", "skills", "employer", "company"}
ProfilePart ==
    /\ \/ part = "skills" /\ (CreateSkill \/ DeleteSkill)
       \/ \E h \in Requests :
             \/ /\ part = "jobseeker"
                /\ JobseekerController(h) \/ JobseekerDecisions(h)
                /\ task'[h].skill = "none"
             \/ /\ part = "skills"
                /\ JobseekerController(h)
                /\ task'[h].op = "updateProfile"
             \/ /\ part = "employer"
                /\ EmployerController(h) \/ EmployerDecisions(h)
                /\ ~decided'.whole
                /\ task'[h].op \notin {"uploadLogo", "setStatus"}
             \/ /\ part = "company"
                /\ EmployerController(h) \/ EmployerDecisions(h)
                /\ decided'.kinds = {}
             \/ ProfilesStep(h)
             \/ part = "jobseeker" /\ ~failed /\ CallFails(h)
    /\ \A h \in Requests : On(h, "upload") /\ task'[h].pc = "insert"
                             => task'[h].doc = CHOOSE d \in Docs : Fresh(h, d)
    /\ part = "company" => Cardinality(objects') <= 1
    /\ UNCHANGED sessionVars

MCInit == /\ Init /\ ProfilesInit /\ part \in AccountParts \cup ProfileParts
          /\ part # "jobseeker" => jobseeker = NewJobseeker
          /\ part \notin {"employer", "company"} => employer = NewEmployer
MCNext == /\ \/ part \in AccountParts /\ AccountsStep
             \/ part \in ProfileParts /\ ProfilePart
          /\ UNCHANGED part

MCSpec == MCInit /\ [][MCNext]_<<sessionVars, profileVars, part>>

Symmetry == Permutations(Sids)
=============================================================================
