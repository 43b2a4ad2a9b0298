------------------------------- MODULE Tailoring -------------------------------
(***************************************************************************)
(* tailor() of app/services/tailor.py: bullets of the recent roles that    *)
(* say little to the job are put to a language model, one role at a time;  *)
(* each answer is validated and applied or discarded; skills are           *)
(* reordered; the changes are listed and both resumes scored.              *)
(*                                                                         *)
(* The model may answer anything: leave candidates out, repeat them, name  *)
(* those of another role or no candidate at all.                           *)
(*                                                                         *)
(* A definition marked as a broken variant is what the one after it would  *)
(* be with a bug; no other definition uses it.                             *)
(***************************************************************************)
EXTENDS Scoring, Diffing, Selections

CONSTANTS
    Profile,         \* the resume to tailor
    Requirements,    \* what the job asks for
    Threshold,       \* relevance_threshold
    MaxRewrites,
    Rewrites,        \* what a model may return for a bullet
    MaxAnswer        \* bound on the rewrites in one answer

(* ref, the original as the model quotes it, the text it proposes, its     *)
(* word that the claims are preserved.                                     *)
RewriteType == [ref : Nat \X Nat, original : Texts, rewritten : Texts, preserved : BOOLEAN]

Roles == DOMAIN Profile.experience
Refs == UNION {{<<i, j>> : j \in DOMAIN Profile.experience[i].bullets} : i \in Roles}
OriginalAt(r) == Profile.experience[r[1]].bullets[r[2]]

ASSUME TailoringAssumption ==
    /\ Profile \in Resume
    /\ Requirements \in JobRequirements
    /\ IsFiniteSet(Requirements.hard_skills) /\ IsFiniteSet(Requirements.must_haves)
    /\ MaxRewrites \in Nat
    /\ Rewrites \subseteq RewriteType

VARIABLES
    stage,      \* "scoring", "asking", "answering", "finishing", "done", "failed"
    candidates, \* refs put to the model
    role,       \* the role whose bullets are with the model
    pending,    \* rewrites of its answer not looked at yet
    returned,   \* <<role asked for, ref>> of every rewrite returned so far
    bullets,    \* the bullets of the tailored resume
    skills,     \* its skills
    discarded,  \* discarded_rewrites, as a set of <<ref, why>>
    report      \* what is stored in the version's diff

vars == <<stage, candidates, role, pending, returned, bullets, skills, discarded, report>>

Reasons == {"non-candidate", "invalid", "omitted"}
Unscored == [components |-> {0}, headline |-> 0]
NoReport == [changes |-> {}, accepted |-> 0, reordered |-> FALSE,
             before |-> Unscored, after |-> Unscored]

TypeOK ==
    /\ stage \in {"scoring", "asking", "answering", "finishing", "done", "failed"}
    /\ candidates \subseteq Refs
    /\ role \in Roles \cup {0}
    /\ pending \in Seq(Rewrites)
    /\ returned \in Seq(Roles \X (Nat \X Nat))
    /\ bullets \in [Refs -> Texts]
    /\ skills \in Seq(SkillGroup)
    /\ discarded \subseteq (Nat \X Nat) \X Reasons

Init ==
    /\ stage = "scoring"
    /\ candidates = {}
    /\ role = 0
    /\ pending = << >>
    /\ returned = << >>
    /\ bullets = [r \in Refs |-> OriginalAt(r)]
    /\ skills = Profile.skills
    /\ discarded = {}
    /\ report = NoReport

-----------------------------------------------------------------------------
(* _score_candidates *)

RelevanceAt(r) == Relevance(OriginalAt(r), RequirementTargets(Requirements))

Recent == {r \in Refs : r[1] <= 2}
Irrelevant == {r \in Recent : RelevanceAt(r) < Threshold}

(* The sort is stable: bullets of one score stay in their order.           *)
Precedes(r, s) ==
    LET x == RelevanceAt(r)
        y == RelevanceAt(s)
    IN  \/ x < y
        \/ x = y /\ (r[1] < s[1] \/ (r[1] = s[1] /\ r[2] < s[2]))

Candidates ==
    IF DOMAIN RequirementTargets(Requirements) = {} THEN {}
    ELSE {r \in Irrelevant :
            Cardinality({s \in Irrelevant : Precedes(s, r)}) < MaxRewrites}

RolesOf(refs) == {r[1] : r \in refs}

(* The roles come in their order; after the last one tailoring finishes.   *)
GoOnAfter(refs, i) ==
    LET left == {j \in RolesOf(refs) : j > i}
    IN  \/ left = {} /\ stage' = "finishing" /\ role' = 0
        \/ \E next \in left : /\ \A j \in left : next <= j
                              /\ stage' = "asking"
                              /\ role' = next

ScoreCandidates ==
    /\ stage = "scoring"
    /\ candidates' = Candidates
    /\ GoOnAfter(Candidates, 0)
    /\ UNCHANGED <<pending, returned, bullets, skills, discarded, report>>

-----------------------------------------------------------------------------
(* One role's bullets, put to the model. *)

Answered(answer) ==
    /\ stage = "asking"
    /\ pending' = answer
    /\ returned' = returned \o [k \in DOMAIN answer |-> <<role, answer[k].ref>>]
    /\ stage' = "answering"
    /\ UNCHANGED <<candidates, role, bullets, skills, discarded, report>>

(* LLMOutputInvalidError ends tailor(); nothing is stored.                 *)
ModelFails ==
    /\ stage = "asking"
    /\ stage' = "failed"
    /\ UNCHANGED <<candidates, role, pending, returned, bullets, skills, discarded, report>>

\* Broken variant.
ValidAgainstCurrent(w) ==
    /\ w.original = OriginalAt(w.ref)
    /\ w.preserved
    /\ Facts[w.rewritten].fits
    /\ RewriteVerified(bullets[w.ref], w.rewritten, Profile, Requirements)

(* _rewrite_validation_reasons is empty.                                   *)
Valid(w) ==
    /\ w.original = OriginalAt(w.ref)
    /\ w.preserved
    /\ Facts[w.rewritten].fits
    /\ RewriteVerified(OriginalAt(w.ref), w.rewritten, Profile, Requirements)

Discard(ref, why) == discarded' = discarded \cup {<<ref, why>>}

DiscardUnknown(w) ==
    /\ w.ref \notin candidates
    /\ Discard(w.ref, "non-candidate")
    /\ UNCHANGED <<bullets, skills, report>>

\* Broken variant.
DiscardWithoutContinue(w) ==
    /\ w.ref \in candidates
    /\ ~ Valid(w)
    /\ Discard(w.ref, "invalid")
    /\ bullets' = [bullets EXCEPT ![w.ref] = w.rewritten]
    /\ UNCHANGED <<skills, report>>

DiscardInvalid(w) ==
    /\ w.ref \in candidates
    /\ ~ Valid(w)
    /\ Discard(w.ref, "invalid")
    /\ UNCHANGED <<bullets, skills, report>>

KeepUnchanged(w) ==
    /\ w.ref \in candidates
    /\ Valid(w)
    /\ w.rewritten = OriginalAt(w.ref)
    /\ UNCHANGED <<bullets, skills, discarded, report>>

\* Broken variant.
ApplyUnchecked(w) ==
    /\ w.ref \in candidates
    /\ w.preserved
    /\ bullets' = [bullets EXCEPT ![w.ref] = w.rewritten]
    /\ UNCHANGED <<skills, discarded, report>>

\* Broken variant.
ApplyAnyRef(w) ==
    /\ w.preserved
    /\ bullets' = [r \in Refs \cup {w.ref} |-> IF r = w.ref THEN w.rewritten ELSE bullets[r]]
    /\ UNCHANGED <<skills, discarded, report>>

ApplyRewrite(w) ==
    /\ w.ref \in candidates
    /\ Valid(w)
    /\ w.rewritten # OriginalAt(w.ref)
    /\ bullets' = [bullets EXCEPT ![w.ref] = w.rewritten]
    /\ UNCHANGED <<skills, discarded, report>>

(* One turn of the loop over the rewrites returned.                        *)
TakeRewrite ==
    /\ stage = "answering"
    /\ pending # << >>
    /\ LET w == Head(pending)
       IN  DiscardUnknown(w) \/ DiscardInvalid(w) \/ KeepUnchanged(w) \/ ApplyRewrite(w)
    /\ pending' = Tail(pending)
    /\ UNCHANGED <<stage, candidates, role, returned>>

(* Candidates of this role that this answer does not name.                 *)
Missing ==
    {r \in candidates : r[1] = role}
    \ {returned[k][2] : k \in {n \in DOMAIN returned : returned[n][1] = role}}

OmitMissing ==
    /\ stage = "answering"
    /\ pending = << >>
    /\ discarded' = discarded \cup {<<r, "omitted">> : r \in Missing}
    /\ GoOnAfter(candidates, role)
    /\ UNCHANGED <<candidates, pending, returned, bullets, skills, report>>

-----------------------------------------------------------------------------
(* _reorder_skills.  The lexicon holds the candidate's own skills, so every *)
(* skill of two characters or more matches.                                *)
SkillMatches(skill) ==
    LET asked == {h.term : h \in Requirements.hard_skills}
                 \cup {m.phrase : m \in Requirements.must_haves \cup Requirements.nice_to_haves}
                 \cup Requirements.domain_terms
    IN  ({skill} \cup Overlaps[skill])
            \cap (asked \cup TechLexicon(Requirements, Profile)) # {}

MatchedSkills == {s \in Terms : SkillMatches(s)}

\* Broken variant.
MatchedFirstOnly(group) == [group EXCEPT !.items = Only(@, MatchedSkills)]
MatchedFirst(group) == [group EXCEPT !.items = StablePartition(@, MatchedSkills)]

(* Groups with a skill that matches come before the others.                *)
ReorderedSkills ==
    LET groups == [k \in DOMAIN Profile.skills |-> MatchedFirst(Profile.skills[k])]
    IN  StablePartition(groups,
                        {g \in ToSet(groups) : ToSet(g.items) \cap MatchedSkills # {}})

(* Groups of one category that change places do not count as a change, and *)
(* without one the resume keeps the skills it had.                         *)
Categories(groups) == [k \in DOMAIN groups |-> groups[k].category]
SkillsReordered ==
    \/ \E g \in ToSet(Profile.skills) : MatchedFirst(g) # g
    \/ Categories(ReorderedSkills) # Categories(Profile.skills)
TailoredSkills == IF SkillsReordered THEN ReorderedSkills ELSE Profile.skills

Tailored(text, groups) ==
    [Profile EXCEPT
        !.experience = [i \in Roles |->
            [Profile.experience[i] EXCEPT
                !.bullets = [j \in DOMAIN Profile.experience[i].bullets |-> text[<<i, j>>]]]],
        !.skills = groups]

(* How a rendering turns out: any number of the bullets survives it, or it *)
(* fails.                                                                  *)
Renderings == {None} \cup 0 .. Cardinality(BulletRefs(Profile))

(* The skills, the diff, the statistics and the scores of the version.     *)
Finish(first, second) ==
    /\ stage = "finishing"
    /\ skills' = TailoredSkills
    /\ LET tailored == Tailored(bullets, TailoredSkills)
           changes  == Diff(Profile, tailored)
       IN  report' = [changes   |-> changes,
                      accepted  |-> Cardinality(changes \ {<<"skills">>}),
                      reordered |-> SkillsReordered,
                      before    |-> ScoreResume(Profile, Requirements, first),
                      after     |-> ScoreResume(tailored, Requirements, second)]
    /\ stage' = "done"
    /\ UNCHANGED <<candidates, role, pending, returned, bullets, discarded>>

Answers == BoundedSeq(Rewrites, MaxAnswer)

Next ==
    \/ ScoreCandidates
    \/ \E answer \in Answers : Answered(answer)
    \/ ModelFails
    \/ TakeRewrite
    \/ OmitMissing
    \/ \E first, second \in Renderings : Finish(first, second)

Spec == Init /\ [][Next]_vars

-----------------------------------------------------------------------------
(* Properties. *)

(* What each bullet of the tailored resume claims, however often the model *)
(* answered for it: no number that the bullet did not have at first, its   *)
(* dates, employers and titles exactly, no skill or technology that the    *)
(* resume does not mention, of those that job and resume are known by, and *)
(* no capitalised word that neither has, unless the word does no more than *)
(* open a sentence.  That exception (claims.py:325) lets a name into a     *)
(* resume that never had it, which is less than what tailor.py:3 promises. *)
ClaimsAreBacked ==
    LET lexicon   == TechLexicon(Requirements, Profile)
        protected == ProtectedStrings(Profile)
    IN  \A r \in Refs :
          LET new == Facts[bullets[r]]
              own == Facts[OriginalAt(r)]
          IN  /\ new.numbers \subseteq own.numbers
              /\ new.dates = own.dates
              /\ new.mentions \cap protected = own.mentions \cap protected
              /\ new.mentions \cap lexicon \subseteq ProfileMentions(Profile)
              /\ new.caps \ new.openings \subseteq ProfileCaps(Profile) \cup lexicon \cup protected

DiscardedRefs == {d[1] : d \in discarded}
ChangedRefs == {r \in Refs : bullets[r] # OriginalAt(r)}
ReturnedRefs == {returned[k][2] : k \in DOMAIN returned}

(* The model kept to "exactly one object for every candidate".             *)
AnswersInOrder ==
    /\ \A k \in DOMAIN returned : returned[k][1] = returned[k][2][1]
    /\ \A k, n \in DOMAIN returned : returned[k][2] = returned[n][2] => k = n

(* The version's report says what became of every candidate: changed ones  *)
(* are exactly the listed ones, and one that the model left out of every   *)
(* role's answer is listed as discarded.  If the model kept to one object  *)
(* per candidate, a discarded candidate kept its bullet.  The version's    *)
(* page counts every bullet once, as rewritten or as unchanged, and shows  *)
(* each change with its role.                                              *)
ReportIsTrue ==
    stage = "done" =>
        /\ LET page == Enriched(Tailored(bullets, skills), report.changes, report.reordered)
           IN  /\ page.bullets_rewritten = Cardinality(ChangedRefs)
               /\ page.bullets_rewritten + page.bullets_unchanged = Cardinality(BulletRefs(Profile))
               /\ page.other_changes = {}
               /\ page.skills_reordered = (skills # Profile.skills)
               /\ \A r \in ChangedRefs :
                    <<"experience", r[1], "bullets", r[2]>> \in page.groups[<<"experience", r[1]>>]
        /\ {c \in report.changes : c # <<"skills">>}
             = {<<"experience", r[1], "bullets", r[2]>> : r \in ChangedRefs}
        /\ report.accepted = Cardinality(ChangedRefs)
        /\ report.reordered <=> <<"skills">> \in report.changes
        /\ candidates \subseteq DiscardedRefs \cup ReturnedRefs
        /\ AnswersInOrder => DiscardedRefs \cap ChangedRefs = {}

(* Reordering moves groups, and skills within a group, and does no more:   *)
(* no group or skill is lost, added or repeated, and those of two          *)
(* characters or more stay in their order, because the lexicon that skills *)
(* are compared with contains them all.                                    *)
Listed(group) ==
    <<group.category, ToBag(group.items), Only(group.items, Long)>>
SkillsOnlyMove ==
    ToBag([k \in DOMAIN skills |-> Listed(skills[k])])
        = ToBag([k \in DOMAIN Profile.skills |-> Listed(Profile.skills[k])])

(* Whatever becomes of the renderings they are measured on, the components *)
(* of both scores are between zero and a hundred percent, and a headline   *)
(* is no better than the best of them and no worse than the worst, give or *)
(* take two hundredths of a percent that rounding four parts may add.      *)
ScoresInRange ==
    \A score \in {report.before, report.after} :
        /\ score.components \subseteq 0 .. Full
        /\ Min(score.components) <= score.headline + 2
        /\ score.headline <= Max(score.components) + 2

(* The promise about generated text, for the bullets of one resume.        *)
MayStand(r, text) ==
    \/ text = OriginalAt(r)
    \/ RewriteVerified(OriginalAt(r), text, Profile, Requirements)

Truthful == INSTANCE Vetted WITH
    Places <- Refs, Values <- Texts, Original <- [r \in Refs |-> OriginalAt(r)],
    Acceptable <- MayStand, shown <- bullets

(* Tailoring implements the promise, one accepted rewrite at a time.       *)
ImplementsVetted == Truthful!VettedSpec
=============================================================================
