------------------------------- MODULE MCJob -------------------------------
(***************************************************************************)
(* One job for TLC, from its post to the contract with the one who is      *)
(* hired: its life on the marketplace (Marketplace), how profiles are      *)
(* scored against it (Scoring) and the signing of the contract             *)
(* (ContractSigning), side by side.                                        *)
(***************************************************************************)
EXTENDS MCContractSigning, Marketplace, Scoring

CONSTANTS s1, k1, k2, k3

\* The names of k3, which no job asks for, and of k1 are alike.
Names == [x \in {k1, k2} \X {k1, k2, k3} |->
            IF x[1] = x[2] THEN 100 ELSE IF x = <<k1, k3>> THEN 90 ELSE 30]

VARIABLE part    \* what is at work in a behaviour

\* Marketplace: the job is announced ("notify") or recommended ("recommend", with
\* at most two status changes).
\* Scoring: a location, skills and title, or the work history take shape.
MarketParts == {"notify", "recommend"}
ScoreParts == {"place", "skills", "work"}
Parts == {"contract"} \cup MarketParts \cup ScoreParts

MarketPart ==
    /\ \/ JobRequests \/ DeadlinePasses \/ SeekerRequests
       \/ \E s \in Seekers : Decided(s)
       \/ part = "notify" /\ (Worker \/ MatchFails \/ MatchStalls)
       \/ part = "recommend" /\ Recommending
    /\ part = "notify" => approved \subseteq approved' /\ saved' = {}
    /\ part = "recommend" => edits' <= 2
    /\ UNCHANGED <<vars, scoreVars>>

ScorePart ==
    /\ \/ part = "place" /\ ApplyLater
       \/ /\ \/ part = "place" /\ (Places \/ Prefers \/ Completes)
             \/ part = "skills" /\ (Learns \/ Retitles \/ Completes)
             \/ part = "work" /\ Works
          /\ UNCHANGED <<posting, hours>>
    /\ UNCHANGED <<vars, marketVars>>

MCInit ==
    /\ Init /\ MarketInit /\ ScoreInit /\ part \in Parts
    /\ part # "skills" => posting.skills = {}
    /\ part # "place" => posting.place = {}
    /\ part \notin ScoreParts => posting.level = "LOW_SKILL"

MCNext ==
    /\ \/ part = "contract" /\ Next /\ UNCHANGED <<marketVars, scoreVars>>
       \/ part \in MarketParts /\ MarketPart
       \/ part \in ScoreParts /\ ScorePart
    /\ UNCHANGED part

\* With the fairness of ContractSigning and of Marketplace.
MCSpec ==
    /\ MCInit /\ [][MCNext]_<<vars, marketVars, scoreVars, part>>
    /\ Fairness /\ MarketFairness
=============================================================================
