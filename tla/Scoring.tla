-------------------------------- MODULE Scoring --------------------------------
(***************************************************************************)
(* score_resume (app/services/score.py): four components and a headline,   *)
(* in hundredths of a percent, as the code rounds to two decimals.         *)
(***************************************************************************)
EXTENDS Claims, Integers, FiniteSetsExt

CONSTANTS
    Similarity,   \* text -> term -> similarity of their embeddings, in percent
    Overlaps,     \* term -> terms it is a part of, or that are a part of it
    Blank,        \* terms that are nothing but spaces
    OtherWords,   \* words of a resume outside of its bullets
    OtherPronouns \* pronouns of the first person among them

ASSUME ScoringAssumption ==
    /\ Similarity \in [Texts -> [Terms -> -100 .. 100]]
    /\ Overlaps \in [Terms -> SUBSET Terms]
    /\ Blank \subseteq Terms \ Long
    /\ OtherWords \in Nat /\ OtherPronouns \in 0 .. OtherWords

Full == 10000
Round(a, b) == (2 * a + b) \div (2 * b)

(* The terms a job asks for, each with the highest weight it is given.     *)
RequirementTargets(requirements) ==
    LET hard == requirements.hard_skills
        must == {m.phrase : m \in requirements.must_haves}
    IN  [t \in {h.term : h \in hard} \cup must |->
           Max({h.weight : h \in {g \in hard : g.term = t}}
               \cup (IF t \in must THEN {100} ELSE {}))]

(* The best weighted similarity of a text to one of the targets.           *)
Relevance(text, targets) == Max({Similarity[text][t] * targets[t] : t \in DOMAIN targets})

WeightOf(targets, terms) == SumFunctionOnSet(targets, terms)

(* Covered by the text, or by a bullet that is close enough.               *)
Covered(targets, resume) ==
    {t \in DOMAIN targets :
        \/ t \in MentionedIn(resume)
        \/ \E b \in BulletsOf(resume) : Similarity[b][t] >= 60}

KeywordCoverage(resume, requirements) ==
    LET targets == RequirementTargets(requirements)
        total   == WeightOf(targets, DOMAIN targets)
    IN  IF total = 0 THEN Full
        ELSE Round(Full * WeightOf(targets, Covered(targets, resume)), total)

(* Six checks.  The schema grants the e-mail; of an experience item it     *)
(* grants a start date, a bullet and dates in order, but its company and   *)
(* its title may be blank.                                                 *)
RequiredFields(resume) ==
    \A item \in Elements(resume.experience) : item.company \notin Blank /\ item.title \notin Blank

SectionIntegrity(resume) ==
    LET passed == 1 + (IF resume.experience # << >> THEN 2 ELSE 0)
                    + (IF resume.experience # << >> /\ RequiredFields(resume) THEN 1 ELSE 0)
                    + (IF resume.education # << >> THEN 1 ELSE 0)
                    + (IF resume.skills # << >> THEN 1 ELSE 0)
    IN  Round(Full * passed, 6)

BulletRefs(resume) ==
    UNION {UNION {{<<section, i, j>> : j \in DOMAIN resume[section][i].bullets} :
                    i \in DOMAIN resume[section]} : section \in {"experience", "projects"}}
BulletAt(resume, ref) == resume[ref[1]][ref[2]].bullets[ref[3]]

\* Broken variant.
FormatHealthUncapped(resume, survived) ==
    LET total == Cardinality(BulletRefs(resume))
    IN  IF total = 0 THEN Full
        ELSE IF survived = None THEN 0 ELSE Round(100 * Full * survived, 95 * total)

(* How many bullets survive rendering and text extraction; None when the   *)
(* round trip fails.                                                       *)
FormatHealth(resume, survived) ==
    LET total == Cardinality(BulletRefs(resume))
    IN  IF total = 0 THEN Full
        ELSE IF survived = None THEN 0
        ELSE IF 100 * survived >= 95 * total THEN Full
        ELSE Round(100 * Full * survived, 95 * total)

PageScore(pages) ==
    CASE pages \in {1, 2} -> 100
      [] pages = 0 -> 50
      [] pages = 3 -> 70
      [] pages = 4 -> 40
      [] OTHER -> 20

BulletCountScore(n) ==
    CASE n \in 3 .. 6 -> 100
      [] n \in {2, 7} -> 75
      [] n \in {1, 8} -> 50
      [] OTHER -> 25

(* The average is words / bullets; no bullets average zero.                *)
BulletLengthScore(words, bullets) ==
    IF bullets = 0 THEN 25
    ELSE IF words >= 8 * bullets /\ words <= 30 * bullets THEN 100
    ELSE IF words >= 5 * bullets /\ words <= 35 * bullets THEN 75
    ELSE IF words >= bullets /\ words <= 45 * bullets THEN 50 ELSE 25

LengthAndDensity(resume) ==
    LET refs     == BulletRefs(resume)
        words    == SumFunction([r \in refs |-> Facts[BulletAt(resume, r)].words])
        pronouns == OtherPronouns + SumFunction([r \in refs |-> Facts[BulletAt(resume, r)].pronouns])
        pages    == (OtherWords + words + 449) \div 450
        recent   == {i \in DOMAIN resume.experience : i <= 2}
        counts   == SumFunction(
                        [i \in recent |-> BulletCountScore(Len(resume.experience[i].bullets))])
    IN  35 * PageScore(pages)
        + (IF recent = {} THEN 0 ELSE Round(25 * counts, Cardinality(recent)))
        + 25 * BulletLengthScore(words, Cardinality(refs))
        + 15 * (IF pronouns >= 5 THEN 0 ELSE 100 - 20 * pronouns)

Weighted(score, weight) == Round(score * weight, 100)

HeadlineOf(keyword, section, format, density) ==
    Weighted(keyword, 50) + Weighted(section, 15) + Weighted(format, 15) + Weighted(density, 20)

ScoreResume(resume, requirements, survived) ==
    LET keyword == KeywordCoverage(resume, requirements)
        section == SectionIntegrity(resume)
        format  == FormatHealth(resume, survived)
        density == LengthAndDensity(resume)
    IN  [components |-> {keyword, section, format, density},
         headline   |-> HeadlineOf(keyword, section, format, density)]
=============================================================================
