--------------------------------- MODULE Prose ---------------------------------
(***************************************************************************)
(* What a letter, a follow-up or a short answer must pass before it is     *)
(* stored: the evidence pack it may cite (app/services/evidence.py), the   *)
(* shape of its kind, and verify_prose (app/services/claims.py).           *)
(***************************************************************************)
EXTENDS Scoring

CONSTANTS
    Drafts,     \* what a model may write
    Written,    \* draft -> what is found in it
    Job,        \* what is found in the job's description
    NumbersOf   \* term -> the numbers in it

EvidenceRef == {"experience", "projects", "skills", "jd"} \X Nat \X Nat

(* brackets: placeholders of any text; slots: the one for a personal       *)
(* detail of an interview; asides: phrases that claim to remember it.      *)
(* facts: sentences that say something of the company.                     *)
DraftFacts ==
    [words : Nat, paragraphs : Nat, subject : BOOLEAN, brackets : BOOLEAN, slots : Nat,
     asides : BOOLEAN, banned : BOOLEAN, cites : SUBSET EvidenceRef,
     nouns : SUBSET Terms, numbers : SUBSET Nat, facts : SUBSET Texts]

(* likeness: how much a sentence overlaps with the closest one of the job, *)
(* in percent; snippets: how many different ones can be cited.             *)
JobFacts ==
    [mentions : SUBSET Terms, numbers : SUBSET Nat, snippets : Nat, likeness : [Texts -> 0 .. 100]]

ASSUME ProseAssumption ==
    /\ Written \in [Drafts -> DraftFacts]
    /\ Job \in JobFacts
    /\ NumbersOf \in [Terms -> SUBSET Nat]

-----------------------------------------------------------------------------
(* The evidence pack, as the references that it offers. *)

(* Of bullets with one score the earlier comes first.                      *)
CitedBefore(resume, targets, p, q) ==
    LET x == Relevance(BulletAt(resume, p), targets)
        y == Relevance(BulletAt(resume, q), targets)
        earlier == \/ p[1] = "experience" /\ q[1] = "projects"
                   \/ p[1] = q[1] /\ (p[2] < q[2] \/ (p[2] = q[2] /\ p[3] < q[3]))
    IN  x > y \/ (x = y /\ earlier)

EvidenceBullets(resume, requirements) ==
    LET targets == RequirementTargets(requirements)
        refs    == BulletRefs(resume)
    IN  IF DOMAIN targets = {} THEN {}
        ELSE {r \in refs : Cardinality({q \in refs : CitedBefore(resume, targets, q, r)}) < 6}

MatchedSkills(resume, requirements) ==
    LET asked == {h.term : h \in requirements.hard_skills}
                 \cup {m.phrase : m \in requirements.must_haves} \cup requirements.domain_terms
    IN  {s \in SkillsOf(resume) \cup TechnologiesOf(resume) : ({s} \cup Overlaps[s]) \cap asked # {}}

EvidenceRefs(resume, requirements) ==
    EvidenceBullets(resume, requirements)
    \cup {<<"skills", n, 0>> : n \in 1 .. Cardinality(MatchedSkills(resume, requirements))}
    \cup {<<"jd", n, 0>> : n \in 1 .. Min({8, Job.snippets})}

CitesEvidence(draft, resume, requirements) ==
    /\ Written[draft].cites # {}
    /\ Written[draft].cites \subseteq EvidenceRefs(resume, requirements)

-----------------------------------------------------------------------------
(* verify_prose, against a resume and the job. *)

(* A name is backed as a whole, or in each of several parts.               *)
Backed(noun, resume) ==
    LET known == ProfileMentions(resume) \cup ProfileCaps(resume) \cup Job.mentions
        parts == PartsOf[noun] \ {noun}
    IN  noun \in known \/ (parts # {} /\ parts \subseteq known)

ProfileNumbers(resume) ==
    (UNION {Facts[b].numbers : b \in TextsOf(resume)})
    \cup (UNION {NumbersOf[t] : t \in StringsOf(resume)})

ProseVerified(draft, resume) ==
    /\ \A noun \in Written[draft].nouns : Backed(noun, resume)
    /\ Written[draft].numbers \subseteq ProfileNumbers(resume) \cup Job.numbers
    /\ \A sentence \in Written[draft].facts : Job.likeness[sentence] >= 60

-----------------------------------------------------------------------------
(* The shape of each kind. *)

WordLimits ==
    [letter |-> 250 .. 350, post_apply |-> 80 .. 120, post_interview |-> 70 .. 120,
     checkin |-> 60 .. 90, why_company |-> 60 .. 120, why_role |-> 60 .. 120, custom |-> 40 .. 150]

FollowupKinds == {"post_apply", "post_interview", "checkin"}
ShortAnswerKinds == {"why_company", "why_role", "custom"}

WellShaped(kind, draft) ==
    LET w == Written[draft]
    IN  /\ w.words \in WordLimits[kind]
        /\ kind = "letter" => w.paragraphs \in 3 .. 4 /\ ~ w.banned
        /\ kind \in FollowupKinds => w.subject
        /\ kind = "post_interview" => w.slots = 1 /\ ~ w.asides
        /\ kind \in ShortAnswerKinds => ~ w.brackets

(* A draft has no violations.  Evidence is taken from the tailored resume; *)
(* a short answer is also verified against it, the others against the      *)
(* profile's.                                                              *)
Clean(kind, draft, canonical, tailored, requirements) ==
    /\ WellShaped(kind, draft)
    /\ CitesEvidence(draft, tailored, requirements)
    /\ IF kind \in ShortAnswerKinds THEN ProseVerified(draft, tailored)
       ELSE ProseVerified(draft, canonical)
=============================================================================
